-------------------------- MODULE EvidenceConsumer --------------------------
(***************************************************************************)
(* Crops from the evidence stream to the object store and the sightings    *)
(* row they belong to (packages/api/src/consumers/evidence.ts).  The feed  *)
(* is replayed: each pass over one clip yields a sighting row and a crop   *)
(* with the same (camera, track, frame), and only the time tells the       *)
(* passes apart.  The module follows one such tuple; a row, its object key *)
(* and the crop of a pass are named by the pass.                           *)
(***************************************************************************)
EXTENDS Naturals, Sequences, FiniteSets

CONSTANTS
    Process,        \* evidence consumers
    Passes,         \* number of passes over the clip; a later pass is newer
    BatchSize,
    MatchRetries,
    MaxCrashes,     \* bound of the model
    None

EvidenceAssumption ==
    /\ Passes \in Nat \ {0} /\ BatchSize \in Nat \ {0}
    /\ MatchRetries \in Nat /\ MaxCrashes \in Nat

Pass == 1..Passes

VARIABLES
    stamping,       \* whether the worker stamps its records with their time
    ahead,          \* whether every row lands before its crop is published
    stream,         \* the records published: [pass, good]
    cursor, pending,    \* the consumer group: last id delivered, ids not acknowledged
    landed,         \* sightings rows inserted so far
    object,         \* the crop stored under each row's key
    linked,         \* rows whose crop_uri names the object of their key
    pc, batch, todo, attempt, target,   \* each process: where it is, and in what
    stats,          \* its counters
    given,          \* history: entries it was given since it started
    crashes

setting == <<stamping, ahead>>
group == <<cursor, pending>>
memory == <<pc, batch, todo, attempt, target, stats, given>>
vars == <<setting, stream, group, landed, object, linked, memory, crashes>>

Counter == {"stored", "unmatched", "uploadFailures", "invalid"}
Zero == [c \in Counter |-> 0]

TypeOK ==
    /\ stamping \in BOOLEAN /\ ahead \in BOOLEAN
    /\ stream \in Seq([pass : Pass, good : BOOLEAN])
    /\ cursor \in 0..Len(stream)
    /\ pending \subseteq 1..cursor
    /\ landed \subseteq Pass
    /\ object \in [Pass -> Pass \union {None}]
    /\ linked \subseteq landed
    /\ pc \in [Process -> {"down", "poll", "take", "find", "upload", "link"}]
    /\ batch \in [Process -> SUBSET Nat]
    /\ todo \in [Process -> Seq(Nat)]
    /\ attempt \in [Process -> 0..MatchRetries]
    /\ target \in [Process -> Pass]
    /\ stats \in [Process -> [Counter -> Nat]]
    /\ given \in [Process -> Nat]
    /\ crashes \in 0..MaxCrashes
    /\ \A p \in Process : todo[p] # <<>> => pc[p] \in {"take", "find", "upload", "link"}

Init ==
    /\ stamping \in BOOLEAN /\ ahead \in BOOLEAN
    /\ stream = <<>>
    /\ cursor = 0 /\ pending = {}
    /\ landed = {}
    /\ object = [r \in Pass |-> None]
    /\ linked = {}
    /\ pc = [p \in Process |-> "down"]
    /\ batch = [p \in Process |-> {}]
    /\ todo = [p \in Process |-> <<>>]
    /\ attempt = [p \in Process |-> 0]
    /\ target = [p \in Process |-> 1]
    /\ stats = [p \in Process |-> Zero]
    /\ given = [p \in Process |-> 0]
    /\ crashes = 0

-----------------------------------------------------------------------------
(* The sightings consumer inserts the row of a pass. *)
Land(r) ==
    /\ r \notin landed
    /\ landed' = landed \union {r}
    /\ UNCHANGED <<setting, stream, group, object, linked, memory, crashes>>

(* The worker publishes the best shot of a pass, once. *)
Publish(r, good) ==
    /\ \A i \in 1..Len(stream) : stream[i].pass # r
    /\ ahead => r \in landed
    /\ stream' = Append(stream, [pass |-> r, good |-> good])
    /\ UNCHANGED <<setting, group, landed, object, linked, memory, crashes>>

Start(p) ==
    /\ pc[p] = "down"
    /\ pc' = [pc EXCEPT ![p] = "poll"]
    /\ stats' = [stats EXCEPT ![p] = Zero]
    /\ given' = [given EXCEPT ![p] = 0]
    /\ UNCHANGED <<setting, stream, group, landed, object, linked,
                   batch, todo, attempt, target, crashes>>

(* XREADGROUP ... '>' hands out entries nobody has been given. *)
Poll(p) ==
    /\ pc[p] = "poll"
    /\ cursor < Len(stream)
    /\ LET last == IF cursor + BatchSize < Len(stream) THEN cursor + BatchSize ELSE Len(stream)
       IN  /\ cursor' = last
           /\ pending' = pending \union (cursor + 1)..last
           /\ batch' = [batch EXCEPT ![p] = (cursor + 1)..last]
           /\ todo' = [todo EXCEPT ![p] = [k \in 1..(last - cursor) |-> cursor + k]]
           /\ given' = [given EXCEPT ![p] = @ + last - cursor]
    /\ pc' = [pc EXCEPT ![p] = "take"]
    /\ UNCHANGED <<setting, stream, landed, object, linked,
                   attempt, target, stats, crashes>>

Record(p) == stream[Head(todo[p])]

(* The entry at hand is done with and counted. *)
Finish(p, counter) ==
    /\ stats' = [stats EXCEPT ![p][counter] = @ + 1]
    /\ todo' = [todo EXCEPT ![p] = Tail(@)]
    /\ pc' = [pc EXCEPT ![p] = "take"]

(* A payload that fails validation, or names no known camera, is dropped. *)
Take(p) ==
    /\ pc[p] = "take"
    /\ todo[p] # <<>>
    /\ IF Record(p).good
         THEN /\ pc' = [pc EXCEPT ![p] = "find"]
              /\ UNCHANGED <<stats, todo>>
         ELSE Finish(p, "invalid")
    /\ attempt' = [attempt EXCEPT ![p] = 0]
    /\ UNCHANGED <<setting, stream, group, landed, object, linked, batch, target, given, crashes>>

(* replayOrder: the record's own time first, then rows without a crop,     *)
(* then the newest.                                                        *)
Before(r, q, own) ==
    IF stamping /\ (r = own) # (q = own) THEN r = own
    ELSE IF (r \in linked) # (q \in linked) THEN r \notin linked
    ELSE r > q

LastLook(p) == attempt[p] = MatchRetries

(* findSighting: some row of the tuple, or another look after a wait, or   *)
(* the last look of the bounded retry.                                     *)
Find(p) ==
    /\ pc[p] = "find"
    /\ \/ \E r \in landed :
            /\ \A q \in landed \ {r} : Before(r, q, Record(p).pass)
            /\ target' = [target EXCEPT ![p] = r]
            /\ pc' = [pc EXCEPT ![p] = "upload"]
            /\ UNCHANGED <<attempt, stats, todo>>
       \/ /\ landed = {} /\ ~LastLook(p)
          /\ attempt' = [attempt EXCEPT ![p] = @ + 1]
          /\ UNCHANGED <<target, pc, stats, todo>>
       \/ /\ landed = {} /\ LastLook(p)
          /\ Finish(p, "unmatched")
          /\ UNCHANGED <<attempt, target>>
    /\ UNCHANGED <<setting, stream, group, landed, object, linked, batch, given, crashes>>

(* Mutant of Upload: a failed upload is not noticed. *)
UploadUnchecked(p) ==
    /\ pc[p] = "upload"
    /\ object' \in {object, [object EXCEPT ![target[p]] = Record(p).pass]}
    /\ pc' = [pc EXCEPT ![p] = "link"]
    /\ UNCHANGED <<setting, stream, group, landed, linked, batch, todo,
                   attempt, target, stats, given, crashes>>

(* putObject under the row's key, or a failure that is counted. *)
Upload(p) ==
    /\ pc[p] = "upload"
    /\ \/ /\ object' = [object EXCEPT ![target[p]] = Record(p).pass]
          /\ pc' = [pc EXCEPT ![p] = "link"]
          /\ UNCHANGED <<stats, todo>>
       \/ /\ Finish(p, "uploadFailures")
          /\ UNCHANGED object
    /\ UNCHANGED <<setting, stream, group, landed, linked, batch, attempt, target, given, crashes>>

(* The row gets its crop_uri.  The appearance descriptor that may follow   *)
(* is a statement of its own whose failure is swallowed.                   *)
Link(p) ==
    /\ pc[p] = "link"
    /\ linked' = linked \union {target[p]}
    /\ Finish(p, "stored")
    /\ UNCHANGED <<setting, stream, group, landed, object, batch, attempt, target, given, crashes>>

(* The whole batch is acknowledged at its end. *)
Ack(p) ==
    /\ pc[p] = "take"
    /\ todo[p] = <<>>
    /\ pending' = pending \ batch[p]
    /\ batch' = [batch EXCEPT ![p] = {}]
    /\ pc' = [pc EXCEPT ![p] = "poll"]
    /\ UNCHANGED <<setting, stream, cursor, landed, object, linked,
                   todo, attempt, target, stats, given, crashes>>

(* The process dies, or a query throws out of the loop. *)
Crash(p) ==
    /\ pc[p] # "down"
    /\ crashes < MaxCrashes
    /\ crashes' = crashes + 1
    /\ pc' = [pc EXCEPT ![p] = "down"]
    /\ todo' = [todo EXCEPT ![p] = <<>>]
    /\ batch' = [batch EXCEPT ![p] = {}]
    /\ UNCHANGED <<setting, stream, group, landed, object, linked,
                   attempt, target, stats, given>>

Work(p) == Poll(p) \/ Take(p) \/ Find(p) \/ Upload(p) \/ Link(p) \/ Ack(p)

Next ==
    \/ \E r \in Pass : Land(r) \/ \E good \in BOOLEAN : Publish(r, good)
    \/ \E p \in Process : Start(p) \/ Work(p) \/ Crash(p)

Spec == Init /\ [][Next]_vars

-----------------------------------------------------------------------------
(* Whatever crashed or failed, no row points at an object that is not      *)
(* there, and no object lies under the key of a row that does not exist.   *)
NothingDangles ==
    /\ \A r \in linked : object[r] # None
    /\ \A r \in Pass : object[r] # None => r \in landed

(* "Counted, never silently dropped": of the entries a running consumer    *)
(* was given, each is either still to do or in exactly one counter,        *)
(* however often it was looked up and whichever step of it failed.         *)
EntriesAreCounted ==
    \A p \in Process : pc[p] # "down" =>
        stats[p]["stored"] + stats[p]["unmatched"] + stats[p]["uploadFailures"]
            + stats[p]["invalid"] + Len(todo[p]) = given[p]

(* "One replay's crop never overwrites another's": so it is, of the crops  *)
(* that a row points to, while the sightings consumer stays ahead and      *)
(* there is always a row without a crop left to take.                      *)
CropsAreKept ==
    [][ahead => \A r \in linked : object'[r] = object[r]]_vars

(* Rows, objects and counters tell one story, whatever crashed between     *)
(* them, and a replay spoils no crop.                                      *)
CropsAreAccountedFor == [](TypeOK /\ NothingDangles /\ EntriesAreCounted) /\ CropsAreKept
=============================================================================
