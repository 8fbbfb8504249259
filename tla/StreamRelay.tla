----------------------------- MODULE StreamRelay -----------------------------
(***************************************************************************)
(* The HLS relay between the console's tiles and a stream gateway          *)
(* (packages/api/src/services/stream-relay.ts): a byte-bounded LRU cache,  *)
(* a gate that caps concurrent upstream fetches with a FIFO queue behind   *)
(* it, and read-ahead of the next segments.  JavaScript runs to the next   *)
(* await: each action is one such stretch.                                 *)
(***************************************************************************)
EXTENDS Integers, Sequences, FiniteSets, Functions

CONSTANTS
    Tile,           \* requests that may be open at once
    Camera,
    Segments,       \* segments per playlist
    Size,           \* bytes of an object
    CacheBytes,
    Concurrency,    \* cap on upstream fetches in flight
    ReadAhead,      \* segments fetched ahead
    MaxAsks,        \* bound of the model: requests
    None

(* Object <<cam, 0>> is the playlist of a camera, <<cam, n>> its segment n. *)
Object == Camera \X (0..Segments)
IsPlaylist(o) == o[2] = 0

ASSUME RelayAssumption ==
    /\ IsFiniteSet(Tile) /\ IsFiniteSet(Camera) /\ None \notin Tile \union Camera
    /\ Size \in [Object -> Nat \ {0}] /\ MaxAsks \in Nat
    /\ CacheBytes \in Nat /\ Segments \in Nat
    /\ Concurrency \in Nat \ {0} /\ ReadAhead \in Nat

VARIABLES
    cache,          \* objects in insertion order, least recently used first
    expired,        \* cached objects past their expiry
    cachedBytes,
    order,          \* the camera whose playlist segmentOrder holds
    prefetching,    \* objects being read ahead
    inFlight,
    queue,          \* requests waiting for a slot, first come first served
    pc, req,        \* each tile: where its request is, and for which object
    gone,           \* tiles whose browser closed the connection
    asks

store == <<cache, expired, cachedBytes>>
gate == <<inFlight, queue>>
vars == <<store, order, prefetching, gate, pc, req, gone, asks>>

Cached == Range(cache)

TypeOK ==
    /\ cache \in Seq(Object) /\ IsInjective(cache)
    /\ expired \subseteq Cached
    /\ cachedBytes \in Int
    /\ order \in Camera \union {None}
    /\ prefetching \subseteq {o \in Object : ~IsPlaylist(o)}
    /\ inFlight \in Int
    /\ queue \in Seq(Tile)
    /\ pc \in [Tile -> {"idle", "queued", "fetching"}]
    /\ req \in [Tile -> Object]
    /\ gone \subseteq Tile
    /\ asks \in 0..MaxAsks

Init ==
    /\ cache = <<>> /\ expired = {} /\ cachedBytes = 0
    /\ order = None
    /\ prefetching = {}
    /\ inFlight = 0 /\ queue = <<>>
    /\ pc = [t \in Tile |-> "idle"]
    /\ req \in [Tile -> {o \in Object : IsPlaylist(o)}]
    /\ gone = {}
    /\ asks = 0

-----------------------------------------------------------------------------
Bytes(s) == SumFunctionOnSet(Size, Range(s))

(* The map without a key. *)
Without(s, o) ==
    LET k == CHOOSE i \in DOMAIN s : s[i] = o
    IN  IF o \in Range(s) THEN SubSeq(s, 1, k - 1) \o SubSeq(s, k + 1, Len(s)) ELSE s

(* The while loop of writeCache: from the least recently used on, until    *)
(* what is left fits the budget or nothing is left.                        *)
Evicted(s, bytes) ==
    LET fits(k) == k = Len(s) \/ bytes - Bytes(SubSeq(s, 1, k)) <= CacheBytes
        k == CHOOSE k \in 0..Len(s) : fits(k) /\ \A j \in 0..(k - 1) : ~fits(j)
    IN  [cache |-> SubSeq(s, k + 1, Len(s)), bytes |-> bytes - Bytes(SubSeq(s, 1, k))]

(* writeCache: an object that could never fit is not stored; one that is   *)
(* already there keeps its place in the order.                             *)
Written(o) ==
    IF Size[o] > CacheBytes THEN [cache |-> cache, bytes |-> cachedBytes]
    ELSE IF o \in Cached THEN Evicted(cache, cachedBytes)
    ELSE Evicted(Append(cache, o), cachedBytes + Size[o])

Store(o) ==
    LET w == Written(o) IN
    /\ cache' = w.cache
    /\ cachedBytes' = w.bytes
    /\ expired' = (expired \ (IF Size[o] > CacheBytes THEN {} ELSE {o})) \intersect Range(w.cache)

(* scheduleReadAhead(o), at a moment when n fetches are in flight, q waits *)
(* and the cache holds C: the next segments not cached and not already on  *)
(* their way, as many as there are free slots.                             *)
Ahead(o, n, q, C, ord) ==
    LET next == {s \in {o[1]} \X ((o[2] + 1)..(o[2] + ReadAhead)) :
                    s[2] <= Segments /\ s \notin C /\ s \notin prefetching}
    IN  IF IsPlaylist(o) \/ q # <<>> \/ ord # o[1] THEN {}
        ELSE {s \in next : Cardinality({r \in next : r[2] < s[2]}) < Concurrency - n}

(* Mutants of Released: a waiter is resolved without taking a slot; a free *)
(* slot is not handed on.                                                  *)
ReleasedForFree ==
    IF queue = <<>> THEN [n |-> inFlight - 1, q |-> <<>>, granted |-> {}]
    ELSE [n |-> inFlight - 1, q |-> Tail(queue), granted |-> {Head(queue)}]

ReleasedSilently == [n |-> inFlight - 1, q |-> queue, granted |-> {}]

(* What release() leaves: the slot is free, or the first waiter's.         *)
Released ==
    IF queue = <<>> THEN [n |-> inFlight - 1, q |-> <<>>, granted |-> {}]
    ELSE [n |-> inFlight, q |-> Tail(queue), granted |-> {Head(queue)}]

(* A tile asks for an object that a playlist it has names.  A fresh copy   *)
(* is served at once and becomes the most recently used; a segment so      *)
(* served triggers read-ahead.                                             *)
Hit(t, o) ==
    /\ pc[t] = "idle"
    /\ asks < MaxAsks
    /\ o \in Cached \ expired
    /\ asks' = asks + 1
    /\ cache' = Append(Without(cache, o), o)
    /\ LET ahead == Ahead(o, inFlight, queue, Cached, order)
       IN  /\ prefetching' = prefetching \union ahead
           /\ inFlight' = inFlight + Cardinality(ahead)
    /\ UNCHANGED <<expired, cachedBytes, order, queue, pc, req, gone>>

(* A miss takes a slot or waits for one; an expired copy is dropped.       *)
(* Another fetch of the same object may be under way: nothing looks.       *)
Miss(t, o) ==
    /\ pc[t] = "idle"
    /\ asks < MaxAsks
    /\ o \notin Cached \ expired
    /\ asks' = asks + 1
    /\ cache' = Without(cache, o)
    /\ expired' = expired \ {o}
    /\ cachedBytes' = IF o \in Cached THEN cachedBytes - Size[o] ELSE cachedBytes
    /\ req' = [req EXCEPT ![t] = o]
    /\ gone' = gone \ {t}
    /\ IF inFlight < Concurrency
         THEN /\ inFlight' = inFlight + 1
              /\ pc' = [pc EXCEPT ![t] = "fetching"]
              /\ UNCHANGED queue
         ELSE /\ queue' = Append(queue, t)
              /\ pc' = [pc EXCEPT ![t] = "queued"]
              /\ UNCHANGED inFlight
    /\ UNCHANGED <<order, prefetching>>

Grant(t) == pc' = [u \in Tile |-> IF u \in Released.granted THEN "fetching"
                                  ELSE IF u = t THEN "idle" ELSE pc[u]]

(* The fetch of a tile's request completes: the slot is released, a        *)
(* playlist replaces segmentOrder, the object is cached, and a segment     *)
(* triggers read-ahead.                                                    *)
Arrive(t) ==
    LET o == req[t]
        ord == IF IsPlaylist(o) THEN o[1] ELSE order
        ahead == Ahead(o, Released.n, Released.q, Range(Written(o).cache), ord)
    IN  /\ pc[t] = "fetching"
        /\ t \notin gone
        /\ Store(o)
        /\ order' = ord
        /\ prefetching' = prefetching \union ahead
        /\ inFlight' = Released.n + Cardinality(ahead)
        /\ queue' = Released.q
        /\ Grant(t)
        /\ UNCHANGED <<req, gone, asks>>

(* It fails: an error status, the deadline, or the browser's own abort.    *)
Error(t) ==
    /\ pc[t] = "fetching"
    /\ inFlight' = Released.n
    /\ queue' = Released.q
    /\ Grant(t)
    /\ UNCHANGED <<store, order, prefetching, req, gone, asks>>

(* The browser goes away.  A waiting request keeps its place in the queue. *)
Close(t) ==
    /\ pc[t] # "idle" /\ t \notin gone
    /\ ~IsPlaylist(req[t])
    /\ gone' = gone \union {t}
    /\ UNCHANGED <<store, order, prefetching, gate, pc, req, asks>>

(* A read-ahead fetch completes, or fails and is swallowed. *)
AheadArrives(o) ==
    /\ o \in prefetching
    /\ \/ Store(o)
       \/ UNCHANGED store
    /\ prefetching' = prefetching \ {o}
    /\ inFlight' = Released.n
    /\ queue' = Released.q
    /\ Grant(None)
    /\ UNCHANGED <<order, req, gone, asks>>

(* Time passes an entry's expiry. *)
Expire(o) ==
    /\ o \in Cached \ expired
    /\ expired' = expired \union {o}
    /\ UNCHANGED <<cache, cachedBytes, order, prefetching, gate, pc, req, gone, asks>>

Next ==
    \/ \E t \in Tile :
          \/ \E o \in Object : Hit(t, o) \/ Miss(t, o)
          \/ Arrive(t) \/ Error(t) \/ Close(t)
    \/ \E o \in Object : AheadArrives(o) \/ Expire(o)

Spec == Init /\ [][Next]_vars

(* Every fetch ends: its deadline is a timer. *)
FairSpec ==
    /\ Spec
    /\ \A t \in Tile : WF_vars(Arrive(t) \/ Error(t))
    /\ \A o \in Object : WF_vars(AheadArrives(o))

-----------------------------------------------------------------------------
Fetching == {t \in Tile : pc[t] = "fetching"}

(* The gate neither leaks nor invents a slot, through any mix of errors,   *)
(* aborts, read-ahead and hand-overs; it never exceeds the cap, and nobody *)
(* waits while a slot is free.                                             *)
SlotsAreExact ==
    /\ inFlight = Cardinality(Fetching) + Cardinality(prefetching)
    /\ inFlight <= Concurrency
    /\ queue # <<>> => inFlight = Concurrency
    /\ IsInjective(queue) /\ Range(queue) = {t \in Tile : pc[t] = "queued"}

(* The byte count is the cache's size, whatever was fetched twice, evicted *)
(* or expired, and it stays within the budget.                             *)
CacheIsWithinBudget == cachedBytes = Bytes(cache) /\ cachedBytes <= CacheBytes

(* A request that waits for a slot gets one. *)
WaitersAreServed == \A t \in Tile : (pc[t] = "queued") ~> (pc[t] # "queued")

(* The two limits of the relay hold: its slots and its cache.              *)
RelayIsWithinLimits == TypeOK /\ SlotsAreExact /\ CacheIsWithinBudget
=============================================================================
