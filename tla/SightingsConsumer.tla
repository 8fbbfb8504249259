------------------------- MODULE SightingsConsumer -------------------------
(***************************************************************************)
(* The path of a sighting from the analytics worker to Postgres: XADD with *)
(* MAXLEN (workers/analytics/bus.py), the consumer group as the reader     *)
(* uses it (consumers/valkey-reader.ts), and consumeSightings, which       *)
(* decodes, inserts, correlates and acknowledges batch by batch            *)
(* (consumers/sightings.ts).                                               *)
(***************************************************************************)
EXTENDS Naturals, Sequences, FiniteSets

CONSTANTS
    Process,        \* consumer processes that may run, one after another or together
    Camera,         \* external camera ids
    BatchSize,      \* COUNT of XREADGROUP
    MaxLen,         \* MAXLEN of the stream
    MaxEntries,     \* bound of the model: entries published
    MaxCrashes      \* bound of the model: crashes

ASSUME ConsumerAssumption ==
    /\ BatchSize \in Nat \ {0}
    /\ MaxLen \in Nat \ {0}
    /\ MaxEntries \in Nat
    /\ MaxCrashes \in Nat

VARIABLES
    stream,         \* every entry ever added; its index is its id
    trimmed,        \* ids up to this one are gone from the stream
    cursor,         \* last id the group delivered
    pending,        \* the group's pending list: ids delivered, not acknowledged
    registry,       \* cameras a refresh of the resolver would find
    known,          \* each process's camera cache
    pc,             \* where each process is in its loop
    todo,           \* entries of its batch still to decode
    kept,           \* entries of its batch that decoded
    batch,          \* every id of its batch
    rowsOf,         \* sightings rows written per entry
    readsOf,        \* plate_reads writes per entry
    correlated,     \* entries whose reads the alert engine processed
    uncorrelated,   \* entries counted in correlationFailures
    dropped,        \* entries counted as invalid or of an unknown camera
    missed,         \* history: entries trimmed before the group reached them
    crashes         \* crashes so far

bus == <<stream, trimmed, missed>>
group == <<cursor, pending>>
memory == <<known, pc, todo, kept, batch>>
tables == <<rowsOf, readsOf, correlated, uncorrelated, dropped>>
vars == <<bus, group, registry, memory, tables, crashes>>

Ids == 1..MaxEntries

(* What a published entry carries: its camera, whether it decodes and, if  *)
(* it does, whether there are plate reads in it.                           *)
Payload ==
    {m \in [camera : Camera, valid : BOOLEAN, reads : BOOLEAN] : m.reads => m.valid}

TypeOK ==
    /\ stream \in Seq(Payload) /\ Len(stream) <= MaxEntries
    /\ trimmed \in 0..Len(stream)
    /\ cursor \in 0..Len(stream)
    /\ pending \subseteq 1..cursor
    /\ registry \subseteq Camera
    /\ known \in [Process -> SUBSET Camera]
    /\ pc \in [Process -> {"down", "poll", "decode", "insert", "reads", "correlate", "ack"}]
    /\ todo \in [Process -> Seq(Ids)]
    /\ kept \in [Process -> SUBSET Ids]
    /\ batch \in [Process -> SUBSET Ids]
    /\ rowsOf \in [Ids -> Nat]
    /\ readsOf \in [Ids -> Nat]
    /\ correlated \subseteq Ids
    /\ uncorrelated \subseteq Ids
    /\ dropped \subseteq Ids
    /\ missed \subseteq Ids
    /\ crashes \in 0..MaxCrashes

Init ==
    /\ stream = <<>>
    /\ trimmed = 0
    /\ cursor = 0
    /\ pending = {}
    /\ registry \in SUBSET Camera
    /\ known = [p \in Process |-> {}]
    /\ pc = [p \in Process |-> "down"]
    /\ todo = [p \in Process |-> <<>>]
    /\ kept = [p \in Process |-> {}]
    /\ batch = [p \in Process |-> {}]
    /\ rowsOf = [i \in Ids |-> 0]
    /\ readsOf = [i \in Ids |-> 0]
    /\ correlated = {}
    /\ uncorrelated = {}
    /\ dropped = {}
    /\ missed = {}
    /\ crashes = 0

-----------------------------------------------------------------------------
(* XADD ... MAXLEN ~ n.  The approximate trim may keep more than n entries,*)
(* never fewer.  An XADD the broker refuses is counted by the worker and   *)
(* forgotten: nothing changes here.                                        *)
Publish(m) ==
    /\ Len(stream) < MaxEntries
    /\ stream' = Append(stream, m)
    /\ \E t \in {trimmed} \union {i \in trimmed..Len(stream) : Len(stream) + 1 - i >= MaxLen} :
          /\ trimmed' = t
          /\ missed' = missed \union (cursor + 1)..t
    /\ UNCHANGED <<group, registry, memory, tables, crashes>>

(* A camera is onboarded while the consumers run. *)
Onboard(cam) ==
    /\ cam \notin registry
    /\ registry' = registry \union {cam}
    /\ UNCHANGED <<bus, group, memory, tables, crashes>>

(* A process starts: the group exists or is created at id 0, and the       *)
(* resolver's first lookup will load the registry.                         *)
Start(p) ==
    /\ pc[p] = "down"
    /\ pc' = [pc EXCEPT ![p] = "poll"]
    /\ known' = [known EXCEPT ![p] = {}]
    /\ UNCHANGED <<bus, group, registry, todo, kept, batch, tables, crashes>>

Undelivered == {i \in 1..Len(stream) : i > cursor /\ i > trimmed}

Delivery(n) == {i \in Undelivered : Cardinality({j \in Undelivered : j < i}) < n}

InOrder(S) == [k \in 1..Cardinality(S) |->
                 CHOOSE i \in S : Cardinality({j \in S : j < i}) = k - 1]

Newest(S) == CHOOSE i \in S : \A j \in S : j <= i

(* Mutants of Poll: NOACK, so that reading acknowledges; the group's cursor *)
(* is not advanced; an id of '0' in place of '>' replays the pending list   *)
(* first.                                                                  *)
PollNoAck(p) ==
    LET new == Delivery(BatchSize) IN
    /\ pc[p] = "poll"
    /\ new # {}
    /\ cursor' = Newest(new)
    /\ batch' = [batch EXCEPT ![p] = new]
    /\ todo' = [todo EXCEPT ![p] = InOrder(new)]
    /\ pc' = [pc EXCEPT ![p] = "decode"]
    /\ UNCHANGED <<bus, pending, registry, known, kept, tables, crashes>>

(* XREADGROUP ... '>' : entries no consumer of the group has been given.   *)
(* An empty reply is an idle poll and changes nothing.                     *)
Poll(p) ==
    LET new == Delivery(BatchSize) IN
    /\ pc[p] = "poll"
    /\ new # {}
    /\ cursor' = Newest(new)
    /\ pending' = pending \union new
    /\ batch' = [batch EXCEPT ![p] = new]
    /\ todo' = [todo EXCEPT ![p] = InOrder(new)]
    /\ kept' = [kept EXCEPT ![p] = {}]
    /\ pc' = [pc EXCEPT ![p] = "decode"]
    /\ UNCHANGED <<bus, registry, known, tables, crashes>>

(* Mutant of Resolved: the cache is loaded once and never refreshed. *)
ResolvedOnce(p, cam) == IF known[p] = {} THEN registry ELSE known[p]

(* CameraIdResolver.resolve: the cache answers a hit; a miss refreshes it. *)
Resolved(p, cam) == IF cam \in known[p] THEN known[p] ELSE registry

(* One entry of the batch is validated and its camera resolved; one that   *)
(* fails either is dropped and counted.                                    *)
Decode(p) ==
    /\ pc[p] = "decode"
    /\ todo[p] # <<>>
    /\ LET i == Head(todo[p])
           m == stream[i]
           cache == IF m.valid THEN Resolved(p, m.camera) ELSE known[p]
           ok == m.valid /\ m.camera \in cache
       IN  /\ known' = [known EXCEPT ![p] = cache]
           /\ kept' = IF ok THEN [kept EXCEPT ![p] = @ \union {i}] ELSE kept
           /\ dropped' = IF ok THEN dropped ELSE dropped \union {i}
    /\ todo' = [todo EXCEPT ![p] = Tail(@)]
    /\ pc' = IF Len(todo[p]) = 1 THEN [pc EXCEPT ![p] = "insert"] ELSE pc
    /\ UNCHANGED <<bus, group, registry, batch, rowsOf, readsOf, correlated, uncorrelated, crashes>>

WithReads(S) == {i \in S : stream[i].reads}

(* The first statement of insertBatch; skipped when nothing decoded. *)
InsertSightings(p) ==
    /\ pc[p] = "insert"
    /\ rowsOf' = [i \in Ids |-> IF i \in kept[p] THEN rowsOf[i] + 1 ELSE rowsOf[i]]
    /\ pc' = [pc EXCEPT ![p] = IF WithReads(kept[p]) = {} THEN "ack" ELSE "reads"]
    /\ UNCHANGED <<bus, group, registry, known, todo, kept, batch, readsOf,
                   correlated, uncorrelated, dropped, crashes>>

(* The second statement, in a transaction of its own. *)
InsertReads(p) ==
    /\ pc[p] = "reads"
    /\ readsOf' = [i \in Ids |-> IF i \in WithReads(kept[p]) THEN readsOf[i] + 1 ELSE readsOf[i]]
    /\ pc' = [pc EXCEPT ![p] = "correlate"]
    /\ UNCHANGED <<bus, group, registry, known, todo, kept, batch, rowsOf,
                   correlated, uncorrelated, dropped, crashes>>

(* correlateBatch succeeds, or throws and is counted. *)
Correlate(p) ==
    /\ pc[p] = "correlate"
    /\ \/ /\ correlated' = correlated \union WithReads(kept[p])
          /\ UNCHANGED uncorrelated
       \/ /\ uncorrelated' = uncorrelated \union WithReads(kept[p])
          /\ UNCHANGED correlated
    /\ pc' = [pc EXCEPT ![p] = "ack"]
    /\ UNCHANGED <<bus, group, registry, known, todo, kept, batch, rowsOf, readsOf, dropped, crashes>>

(* XACK of the whole batch, the dropped entries included. *)
Ack(p) ==
    /\ pc[p] = "ack"
    /\ pending' = pending \ batch[p]
    /\ batch' = [batch EXCEPT ![p] = {}]
    /\ kept' = [kept EXCEPT ![p] = {}]
    /\ pc' = [pc EXCEPT ![p] = "poll"]
    /\ UNCHANGED <<bus, cursor, registry, known, todo, tables, crashes>>

(* The abort signal, or the idle budget of a drain, is looked at between   *)
(* batches only.                                                           *)
Stop(p) ==
    /\ pc[p] = "poll"
    /\ pc' = [pc EXCEPT ![p] = "down"]
    /\ UNCHANGED <<bus, group, registry, known, todo, kept, batch, tables, crashes>>

(* The process dies, or an insert or a resolver query throws out of the    *)
(* loop: memory is lost, the pending list is not.                          *)
Crash(p) ==
    /\ pc[p] # "down"
    /\ crashes < MaxCrashes
    /\ crashes' = crashes + 1
    /\ pc' = [pc EXCEPT ![p] = "down"]
    /\ todo' = [todo EXCEPT ![p] = <<>>]
    /\ kept' = [kept EXCEPT ![p] = {}]
    /\ batch' = [batch EXCEPT ![p] = {}]
    /\ UNCHANGED <<bus, group, registry, known, tables>>

Work(p) ==
    \/ Poll(p)
    \/ Decode(p)
    \/ InsertSightings(p)
    \/ InsertReads(p)
    \/ Correlate(p)
    \/ Ack(p)

Next ==
    \/ \E m \in Payload : Publish(m)
    \/ \E cam \in Camera : Onboard(cam)
    \/ \E p \in Process : Start(p) \/ Work(p) \/ Stop(p) \/ Crash(p)

Spec == Init /\ [][Next]_vars

(* A supervisor restarts a process that is down, and a running one is      *)
(* neither starved of CPU nor refused by the broker and the database for   *)
(* ever.  A stop after which nothing restarts the process is not assumed   *)
(* away: Start is what is fair.                                            *)
FairSpec == Spec /\ \A p \in Process : WF_vars(Start(p)) /\ SF_vars(Work(p))

-----------------------------------------------------------------------------
(* "Acknowledge only after the insert commits": an entry that left the     *)
(* pending list is in the tables with its plate reads, or was dropped and  *)
(* counted, whatever crashed in between.                                   *)
AckedMeansWritten ==
    \A i \in 1..cursor : i \notin pending =>
        \/ i \in dropped
        \/ i \in missed
        \/ /\ rowsOf[i] = 1
           /\ stream[i].reads => readsOf[i] = 1 /\ i \in correlated \union uncorrelated

(* No entry is written twice: batches of concurrent consumers are disjoint *)
(* and nothing is delivered a second time.                                 *)
WrittenAtMostOnce ==
    /\ \A i \in Ids : rowsOf[i] <= 1 /\ readsOf[i] <= rowsOf[i]
    /\ \A p, q \in Process : p # q => batch[p] \cap batch[q] = {}

Storable(i) == i <= Len(stream) /\ stream[i].valid /\ stream[i].camera \in registry

(* An entry that was not dropped before its camera was onboarded is written *)
(* in the end, unless the stream trimmed it before anyone read it or some  *)
(* consumer crashed.                                                       *)
EntriesAreWritten ==
    \A i \in Ids : (Storable(i) /\ i \notin dropped) 
        ~> (rowsOf[i] > 0 \/ i \in missed \/ crashes > 0)

(* "At least once": an entry that a consumer was given is written or       *)
(* dropped in the end, across crashes and restarts.                        *)
AtLeastOnce == \A i \in Ids : (i \in pending) ~> (rowsOf[i] > 0 \/ i \in dropped)

(* Delivery and storage agree: what is acknowledged is written, and once.  *)
AckedIsWrittenOnce == TypeOK /\ AckedMeansWritten /\ WrittenAtMostOnce

(* What the proof adds to the two claims.  Ids a process still has to       *)
(* decode: *)
Waiting(p) == {todo[p][k] : k \in 1..Len(todo[p])}

(* Nothing above the cursor has been touched, and what was trimmed there is *)
(* in the history. *)
StreamInv ==
    /\ \A i \in 1..trimmed : i > cursor => i \in missed
    /\ \A i \in Ids : i > cursor => rowsOf[i] = 0 /\ readsOf[i] = 0

(* A batch is pending until it is acknowledged, and each of its entries is  *)
(* waiting, kept or counted as dropped. *)
BatchInv(p) ==
    /\ batch[p] \subseteq pending
    /\ kept[p] \union Waiting(p) \subseteq batch[p]
    /\ batch[p] \subseteq kept[p] \union Waiting(p) \union dropped
    /\ pc[p] # "decode" => todo[p] = <<>>
    /\ pc[p] \in {"down", "poll"} => batch[p] = {}

(* The rows of a batch in hand are exactly those its process has come to.   *)
WriteInv(p) ==
    \A i \in batch[p] :
        /\ rowsOf[i] = IF pc[p] \in {"reads", "correlate", "ack"} /\ i \in kept[p] THEN 1 ELSE 0
        /\ readsOf[i] = IF pc[p] \in {"correlate", "ack"} /\ i \in WithReads(kept[p]) THEN 1 ELSE 0
        /\ pc[p] = "ack" /\ i \in WithReads(kept[p]) => i \in correlated \union uncorrelated

IInv ==
    /\ TypeOK
    /\ StreamInv
    /\ \A p \in Process : BatchInv(p) /\ WriteInv(p)
    /\ AckedMeansWritten
    /\ WrittenAtMostOnce
=============================================================================
