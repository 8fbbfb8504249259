----------------------------- MODULE AuditChain -----------------------------
(***************************************************************************)
(* The tamper-evident audit log (packages/api/src/services/audit.ts) under *)
(* concurrent writers.  writeAudit reads the tip, inserts a row linked to  *)
(* it, and retries in a fresh savepoint when the unique index on prev_hash *)
(* (migration 0018) reports that a rival took the same predecessor.        *)
(*                                                                         *)
(* A writer is one connection with a transaction of its own: the savepoint *)
(* of a caller's transaction and the transaction writeAudit opens itself   *)
(* look the same to the rivals, because the row stays invisible, and its   *)
(* index entry stays in their way, until the outermost COMMIT.             *)
(***************************************************************************)
EXTENDS Naturals, FiniteSets

CONSTANTS
    Writer,     \* the processes and requests that append
    Entry,      \* what an entry records
    Legacy,     \* rows present before the first call
    Attempts,   \* CHAIN_APPEND_ATTEMPTS
    MaxCalls    \* bound of the model: calls of writeAudit started

VARIABLES
    rows,       \* committed rows of audit_log
    lastSeq,    \* last value the identity sequence handed out, kept or burned
    calls,      \* calls started
    pc,         \* where each writer is inside writeAudit
    entry,      \* the entry it appends
    tip,        \* the predecessor its current attempt read
    mine,       \* the seq its current attempt was given
    attempt,    \* races lost in this call
    began,      \* history: rows committed when the call began
    seen        \* history: rows committed when the tip was last read

local == <<pc, entry, tip, mine, attempt, began, seen>>
vars == <<rows, lastSeq, calls, pc, entry, tip, mine, attempt, began, seen>>

(* The abstract chain these transactions implement. *)
Chain == INSTANCE AtomicChain WITH rows <- rows, Entry <- Entry, Legacy <- Legacy

Genesis == Chain!Genesis
Row == Chain!Row
Seqs(R) == Chain!Seqs(R)
IsTip(t, R) == Chain!IsTip(t, R)

(* Every row links to the row just below it in seq order, and nothing else *)
(* does: numbering order and link order are the same order.                *)
WellLinked(R) ==
    /\ \A r \in R : r.prev < r.seq /\ r.prev \in Seqs(R) \union {Genesis}
    /\ \A q, r \in R : q.seq < r.seq => q.seq <= r.prev
    /\ \A t \in Seqs(R) \union {Genesis} :
          (\E r \in R : r.seq > t) => \E r \in R : r.prev = t

ASSUME LegacyAssumption ==
    /\ Legacy \subseteq Row
    /\ IsFiniteSet(Legacy)
    /\ WellLinked(Legacy)
    /\ \A q, r \in Legacy : q.seq = r.seq => q = r

ASSUME BoundsAssumption == Attempts \in Nat \ {0} /\ MaxCalls \in Nat

Phase == {"idle", "read", "insert", "index", "held", "failed"}

TypeOK ==
    /\ rows \subseteq Row
    /\ IsFiniteSet(rows)
    /\ lastSeq \in Nat
    /\ calls \in 0..MaxCalls
    /\ pc \in [Writer -> Phase]
    /\ entry \in [Writer -> Entry]
    /\ tip \in [Writer -> Nat]
    /\ mine \in [Writer -> Nat]
    /\ attempt \in [Writer -> 0..Attempts]
    /\ began \in [Writer -> Nat]
    /\ seen \in [Writer -> Nat]

Init ==
    /\ rows = Legacy
    /\ lastSeq \in Seqs(Legacy) \union {Genesis}
    /\ IsTip(lastSeq, Legacy)
    /\ calls = 0
    /\ pc = [w \in Writer |-> "idle"]
    /\ entry \in [Writer -> Entry]
    /\ tip = [w \in Writer |-> Genesis]
    /\ mine = [w \in Writer |-> 0]
    /\ attempt = [w \in Writer |-> 0]
    /\ began = [w \in Writer |-> 0]
    /\ seen = [w \in Writer |-> 0]

-----------------------------------------------------------------------------
(* The caller enters writeAudit. *)
Begin(w, e) ==
    /\ pc[w] = "idle"
    /\ calls < MaxCalls
    /\ calls' = calls + 1
    /\ pc' = [pc EXCEPT ![w] = "read"]
    /\ entry' = [entry EXCEPT ![w] = e]
    /\ attempt' = [attempt EXCEPT ![w] = 0]
    /\ began' = [began EXCEPT ![w] = Cardinality(rows)]
    /\ UNCHANGED <<rows, lastSeq, tip, mine, seen>>

(* select hash ... order by seq desc limit 1, under READ COMMITTED. *)
ReadTip(w) ==
    /\ pc[w] = "read"
    /\ \E t \in Seqs(rows) \union {Genesis} :
          /\ IsTip(t, rows)
          /\ tip' = [tip EXCEPT ![w] = t]
    /\ seen' = [seen EXCEPT ![w] = Cardinality(rows)]
    /\ pc' = [pc EXCEPT ![w] = "insert"]
    /\ UNCHANGED <<rows, lastSeq, calls, entry, mine, attempt, began>>

(* The INSERT draws its identity value before any index is consulted, and  *)
(* keeps it drawn when the insert fails.                                   *)
TakeSeq(w) ==
    /\ pc[w] = "insert"
    /\ lastSeq' = lastSeq + 1
    /\ mine' = [mine EXCEPT ![w] = lastSeq + 1]
    /\ pc' = [pc EXCEPT ![w] = "index"]
    /\ UNCHANGED <<rows, calls, entry, tip, attempt, began, seen>>

Taken(t) == \E r \in rows : r.prev = t
Contested(t, w) == \E v \in Writer \ {w} : pc[v] = "held" /\ tip[v] = t

(* Mutants of Place: the index of migration 0018 is missing; the insert    *)
(* waits for every rival that has reached the index, placed or not.        *)
PlaceUnindexed(w) ==
    /\ pc[w] = "index"
    /\ pc' = [pc EXCEPT ![w] = "held"]
    /\ UNCHANGED <<rows, lastSeq, calls, entry, tip, mine, attempt, began, seen>>

PlaceIfAlone(w) ==
    /\ ~Taken(tip[w])
    /\ \A v \in Writer \ {w} : tip[v] = tip[w] => pc[v] \notin {"index", "held"}
    /\ PlaceUnindexed(w)

(* The index entry goes in.  A rival's uncommitted entry on the same       *)
(* predecessor makes the insert wait: neither Place nor LoseRace is        *)
(* enabled until that rival commits or aborts.                             *)
Place(w) ==
    /\ pc[w] = "index"
    /\ ~Taken(tip[w])
    /\ ~Contested(tip[w], w)
    /\ pc' = [pc EXCEPT ![w] = "held"]
    /\ UNCHANGED <<rows, lastSeq, calls, entry, tip, mine, attempt, began, seen>>

LoseRaceKeepTip(w) ==
    /\ pc[w] = "index"
    /\ Taken(tip[w])
    /\ attempt' = [attempt EXCEPT ![w] = @ + 1]
    /\ pc' = [pc EXCEPT ![w] = IF attempt[w] + 1 < Attempts THEN "insert" ELSE "failed"]
    /\ UNCHANGED <<rows, lastSeq, calls, entry, tip, mine, began, seen>>

(* 23505 on audit_log_prev_hash_uidx: roll the savepoint back and, after a *)
(* pause, read the tip again, or give up when the budget is spent.         *)
LoseRace(w) ==
    /\ pc[w] = "index"
    /\ Taken(tip[w])
    /\ attempt' = [attempt EXCEPT ![w] = @ + 1]
    /\ pc' = [pc EXCEPT ![w] = IF attempt[w] + 1 < Attempts THEN "read" ELSE "failed"]
    /\ UNCHANGED <<rows, lastSeq, calls, entry, tip, mine, began, seen>>

(* The outermost transaction commits and the row becomes visible. *)
Commit(w) ==
    /\ pc[w] = "held"
    /\ rows' = rows \union {[seq |-> mine[w], prev |-> tip[w], entry |-> entry[w]]}
    /\ pc' = [pc EXCEPT ![w] = "idle"]
    /\ UNCHANGED <<lastSeq, calls, entry, tip, mine, attempt, began, seen>>

(* Any other database error, a caller that rolls back, or a lost           *)
(* connection: the transaction is gone and so is its index entry.          *)
Abort(w) ==
    /\ pc[w] \in {"read", "insert", "index", "held"}
    /\ pc' = [pc EXCEPT ![w] = "idle"]
    /\ UNCHANGED <<rows, lastSeq, calls, entry, tip, mine, attempt, began, seen>>

(* writeAudit throws "lost the tip race" to its caller. *)
Throw(w) ==
    /\ pc[w] = "failed"
    /\ pc' = [pc EXCEPT ![w] = "idle"]
    /\ UNCHANGED <<rows, lastSeq, calls, entry, tip, mine, attempt, began, seen>>

Step(w) ==
    \/ ReadTip(w)
    \/ TakeSeq(w)
    \/ Place(w)
    \/ LoseRace(w)
    \/ Commit(w)
    \/ Throw(w)

Next ==
    \E w \in Writer :
        \/ \E e \in Entry : Begin(w, e)
        \/ Step(w)
        \/ Abort(w)

Spec == Init /\ [][Next]_vars

(* The database answers every statement and the runtime resumes every      *)
(* awaited call; nobody is obliged to start a call or to abort one.        *)
FairSpec == Spec /\ \A w \in Writer : WF_vars(Step(w))

-----------------------------------------------------------------------------
(* The table never holds two rows on one predecessor, and the walk in seq  *)
(* order that verifyChain makes is the walk along the links, whatever the  *)
(* order in which values were drawn, burned and committed.                 *)
ChainIsLinear ==
    /\ WellLinked(rows)
    /\ \A q, r \in rows : q.prev = r.prev => q = r

(* An uncommitted row is always about to become the successor of the tip:  *)
(* no commit can slip a row in between a writer's index check and its own  *)
(* commit, and at most one writer is in that position.                     *)
HolderExtendsTip ==
    /\ \A w \in Writer : pc[w] = "held" => IsTip(tip[w], rows) /\ mine[w] > tip[w]
    /\ \A v, w \in Writer : pc[v] = "held" /\ pc[w] = "held" => v = w

(* A lost race is never spurious: each one is paid for by an entry that    *)
(* someone else committed during the call, so writeAudit only ever throws  *)
(* after Attempts rival entries, and the system as a whole has progressed. *)
LossesArePaidFor ==
    \A w \in Writer :
        /\ pc[w] # "idle" => attempt[w] <= Cardinality(rows) - began[w]
        /\ pc[w] = "failed" => Cardinality(rows) - began[w] >= Attempts

(* The inductive strengthening behind the three invariants above. *)
RowsInv ==
    /\ WellLinked(rows)
    /\ \A q, r \in rows : q.seq = r.seq => q = r
    /\ \A r \in rows : r.seq <= lastSeq

AttemptInv(w) ==
    /\ pc[w] \in {"insert", "index", "held"} => tip[w] \in Seqs(rows) \union {Genesis}
    /\ pc[w] \in {"index", "held"} => tip[w] < mine[w] /\ mine[w] <= lastSeq
    /\ pc[w] = "held" => ~Taken(tip[w]) /\ ~Contested(tip[w], w)

LossInv(w) ==
    /\ pc[w] # "idle" => attempt[w] + began[w] <= Cardinality(rows)
    /\ pc[w] \in {"read", "insert", "index", "held"} => attempt[w] < Attempts
    /\ pc[w] = "failed" => attempt[w] = Attempts
    /\ pc[w] \in {"insert", "index", "held"} =>
          /\ attempt[w] + began[w] <= seen[w]
          /\ seen[w] <= Cardinality(rows)
          /\ seen[w] = Cardinality(rows) => ~Taken(tip[w])

IInv == TypeOK /\ RowsInv /\ \A w \in Writer : AttemptInv(w) /\ LossInv(w)

(* Every call returns or throws: waiting on a rival's index entry ends     *)
(* because the rival's own transaction ends.                               *)
CallsEnd == \A w \in Writer : (pc[w] # "idle") ~> (pc[w] = "idle")

(* The race for the tip is invisible in the result. *)
ImplementsChain == Chain!Spec
=============================================================================
