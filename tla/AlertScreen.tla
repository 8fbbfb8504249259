---------------------------- MODULE AlertScreen ----------------------------
(***************************************************************************)
(* One officer's alert queue (packages/web/src/lib/alerts/queue.ts driven  *)
(* by alerts-screen.tsx) and everything that feeds it: the alert table,    *)
(* the in-process AlertBus, the NOTIFY bridge between processes, the SSE   *)
(* stream, list reads and transitions, each answered in its own time.      *)
(*                                                                         *)
(* An alert's record is its last_seen_at and its status.  The first grows  *)
(* with every sighting, so it also stands for sighting_count.              *)
(***************************************************************************)
EXTENDS Integers, FiniteSets, SequencesExt

CONSTANTS
    Alert,
    NoAlert,        \* a cursor on no row
    Rank,           \* the category rank of each alert
    Earlier,        \* alerts raised before the screen opened, newest last
    PageSize,
    InProcess,      \* TRUE when the engine runs inside the API process
    MaxSightings, MaxReads, MaxKeys, MaxDrops       \* bounds of the model

ScreenAssumption ==
    /\ NoAlert \notin Alert
    /\ Rank \in [Alert -> Nat]
    /\ Earlier \in Seq(Alert) /\ \A i, j \in DOMAIN Earlier : Earlier[i] = Earlier[j] => i = j
    /\ PageSize \in Nat \ {0}
    /\ InProcess \in BOOLEAN
    /\ {MaxSightings, MaxReads, MaxKeys, MaxDrops} \subseteq Nat

VARIABLES
    table,          \* the alerts table: [id, seen, status] per raised alert
    notices,        \* ids sent by pg_notify and not yet heard
    replays,        \* rows the bridge has re-read and not yet published
    recent,         \* AlertBus.recent: the keys published so far
    stream,         \* what the screen believes of its EventSource
    wire,           \* frames written to this screen and not yet handled
    screen, pending, cursor, inFlight,      \* QueueState
    more,           \* nextCursor of the last list read, 0 at the end of queue
    reads,          \* list and row reads on their way
    keys,           \* transitions on their way
    sightings, asked, pressed, drops        \* how much of each bound is used

feed == <<table, notices, replays, recent>>
queue == <<screen, pending, cursor, inFlight>>
used == <<sightings, asked, pressed, drops>>
vars == <<feed, stream, wire, queue, more, reads, keys, used>>

Status == {"new", "ack", "dismissed", "escalated"}
Record == [id : Alert, seen : Nat, status : Status]
Connected == stream = "live"

(* ALERT_TRANSITIONS. *)
CanTransition(from, to) ==
    /\ from # "dismissed"
    /\ to \in {"ack", "dismissed", "escalated"} \ {from}

Raised == {r.id : r \in table}
RowOf(a) == CHOOSE r \in table : r.id = a
Ids(s) == [i \in DOMAIN s |-> s[i].id]
On(a, s) == \E i \in DOMAIN s : s[i].id = a
Find(a, s) == s[CHOOSE i \in DOMAIN s : s[i].id = a /\ \A j \in DOMAIN s : s[j].id = a => i <= j]

(* The default order: category rank first, then the newest. *)
Before(r, q) ==
    \/ Rank[r.id] < Rank[q.id]
    \/ Rank[r.id] = Rank[q.id] /\ r.seen > q.seen

(* Sorting is stable. *)
Sorted(s) ==
    LET Ahead(i, j) == Before(s[i], s[j]) \/ (~Before(s[j], s[i]) /\ i < j)
        place == [i \in DOMAIN s |-> Cardinality({j \in DOMAIN s : Ahead(j, i)})]
    IN  [k \in DOMAIN s |-> s[CHOOSE i \in DOMAIN s : place[i] = k - 1]]

(* GET /alerts: the rows older than the cursor, in the screen's order. *)
Listed(from) == Sorted(SetToSeq({r \in table : from = 0 \/ r.seen < from}))

Page(from) ==
    LET all == Listed(from)
        page == SubSeq(all, 1, IF Len(all) < PageSize THEN Len(all) ELSE PageSize)
    IN  [rows |-> page, next |-> IF Len(all) > PageSize THEN Last(page).seen ELSE 0]

TypeOK ==
    /\ table \subseteq Record /\ \A q, r \in table : q.id = r.id => q = r
    /\ notices \subseteq Alert \X Nat
    /\ replays \subseteq Record
    /\ recent \subseteq Alert \X Nat
    /\ stream \in {"connecting", "live", "retrying", "fatal"}
    /\ {wire, screen, pending} \subseteq Seq(Record)
    /\ cursor = NoAlert \/ On(cursor, screen)
    /\ DOMAIN inFlight \subseteq Alert
    /\ \A a \in DOMAIN inFlight : inFlight[a] \in Record
    /\ more \in Nat

Init ==
    /\ table = {[id |-> Earlier[i], seen |-> i, status |-> "new"] : i \in DOMAIN Earlier}
    /\ notices = {} /\ replays = {} /\ recent = {}
    /\ stream = "connecting"
    /\ wire = <<>>
    /\ screen = Page(0).rows /\ more = Page(0).next
    /\ pending = <<>> /\ cursor = NoAlert /\ inFlight = <<>>
    /\ reads = {} /\ keys = {}
    /\ sightings = Len(Earlier) /\ asked = 0 /\ pressed = 0 /\ drops = 0

-----------------------------------------------------------------------------
(* The bus and its two feeds.                                              *)

(* publish: one frame per key to whoever listens, unless ten seconds have  *)
(* passed since the last one of that key.                                  *)
Publish(r) ==
    \/ /\ recent' = recent \union {<<r.id, r.seen>>}
       /\ wire' = IF Connected THEN Append(wire, r) ELSE wire
    \/ /\ <<r.id, r.seen>> \in recent
       /\ UNCHANGED <<recent, wire>>

(* A sighting raises an alert or is folded into it.  When the gate admits  *)
(* it, the engine publishes it here, and notifies the other processes as   *)
(* best it can.                                                            *)
Sight(a, admitted) ==
    LET r == [id |-> a, seen |-> sightings + 1,
              status |-> IF a \in Raised THEN RowOf(a).status ELSE "new"]
    IN  /\ sightings < MaxSightings
        /\ sightings' = sightings + 1
        /\ table' = {q \in table : q.id # a} \union {r}
        /\ IF admitted /\ InProcess THEN Publish(r) ELSE UNCHANGED <<recent, wire>>
        /\ notices' \in {notices} \union
              IF admitted THEN {notices \union {<<a, r.seen>>}} ELSE {}
        /\ UNCHANGED <<replays, stream, queue, more, reads, keys, asked, pressed, drops>>

(* AlertNotifyBridge: the row as it is now, read by id ... *)
Reread ==
    \E n \in notices :
        /\ notices' = notices \ {n}
        /\ replays' = replays \union {RowOf(n[1])}
        /\ UNCHANGED <<table, recent, stream, wire, queue, more, reads, keys, used>>

(* ... and published when the read returns, in no particular order. *)
Replay ==
    \E r \in replays :
        /\ replays' = replays \ {r}
        /\ Publish(r)
        /\ UNCHANGED <<table, notices, stream, queue, more, reads, keys, used>>

(* Another officer's transition.  Nothing is published. *)
OtherMoves(a, to) ==
    /\ drops < MaxDrops
    /\ drops' = drops + 1
    /\ a \in Raised /\ CanTransition(RowOf(a).status, to)
    /\ table' = {q \in table : q.id # a} \union {[RowOf(a) EXCEPT !.status = to]}
    /\ UNCHANGED <<notices, replays, recent, stream, wire, queue, more, reads, keys,
                   sightings, asked, pressed>>

-----------------------------------------------------------------------------
(* Changes of the queue (queue.ts).                                        *)

Put(r, s) == LET i == CHOOSE i \in DOMAIN s : s[i].id = r.id /\ \A j \in DOMAIN s : s[j].id = r.id => i <= j
             IN  [s EXCEPT ![i] = r]

(* receive: in place when it is already there, else merged or buffered. *)
Receive(r, idle) ==
    IF On(r.id, screen) THEN screen' = Put(r, screen) /\ UNCHANGED pending
    ELSE IF On(r.id, pending) THEN pending' = Put(r, pending) /\ UNCHANGED screen
    ELSE IF idle THEN screen' = Sorted(<<r>> \o screen) /\ UNCHANGED pending
    ELSE pending' = <<r>> \o pending /\ UNCHANGED screen

(* replace: the server's rows, under the transitions still on their way. *)
Replace(rows) ==
    LET merged == [i \in DOMAIN rows |->
                      IF rows[i].id \in DOMAIN inFlight /\ On(rows[i].id, screen)
                        THEN Find(rows[i].id, screen) ELSE rows[i]]
    IN  /\ screen' = Sorted(merged)
        /\ pending' = <<>>
        /\ cursor' = IF On(cursor, rows) THEN cursor ELSE NoAlert

(* The record each transition on its way has to put back.                  *)
Pinned(a, r) == [b \in DOMAIN inFlight \union {a} |-> IF b = a THEN r ELSE inFlight[b]]
Unpinned(a) == [b \in DOMAIN inFlight \ {a} |-> inFlight[b]]

(* Mutant of Rollback: nothing to put back when the row is gone. *)
RollbackIfShown(a) ==
    IF a \in DOMAIN inFlight /\ On(a, screen)
      THEN screen' = Put(inFlight[a], screen) /\ inFlight' = Unpinned(a)
      ELSE UNCHANGED <<screen, inFlight>>

(* rollbackTransition *)
Rollback(a) ==
    /\ inFlight' = Unpinned(a)
    /\ screen' = IF a \in DOMAIN inFlight /\ On(a, screen) THEN Put(inFlight[a], screen) ELSE screen

(* settleTransition: the server's record wins. *)
Settle(r) ==
    /\ inFlight' = Unpinned(r.id)
    /\ screen' = IF On(r.id, screen) THEN Put(r, screen) ELSE screen

Unserved == [rows |-> <<>>, next |-> 0]

(* A read is asked for, with the cursor it starts from. *)
Ask(kind, from) ==
    /\ asked < MaxReads
    /\ asked' = asked + 1
    /\ reads' = reads \union {[n |-> asked, kind |-> kind, from |-> from, served |-> FALSE,
                               page |-> Unserved]}
-----------------------------------------------------------------------------
(* The screen's handlers.                                                  *)

(* Nobody is mid-verdict. *)
Idle(atTop) == cursor = NoAlert /\ atTop

(* One frame off the stream, wherever the list is scrolled to. *)
Frame ==
    /\ wire # <<>>
    /\ \E atTop \in BOOLEAN : Receive(Head(wire), Idle(atTop))
    /\ wire' = Tail(wire)
    /\ UNCHANGED <<feed, stream, cursor, inFlight, more, reads, keys, used>>

(* onerror: the browser tries again by itself. *)
Drop ==
    /\ drops < MaxDrops
    /\ drops' = drops + 1
    /\ Connected
    /\ stream' = "retrying"
    /\ wire' = <<>>
    /\ UNCHANGED <<feed, queue, more, reads, keys, sightings, asked, pressed>>

(* onopen, answered by the API or by the proxy's one fatal frame.  Only a  *)
(* reconnection reads the list again.                                      *)
Open ==
    /\ stream \in {"connecting", "retrying"}
    /\ stream' \in {"live", "fatal"}
    /\ IF stream = "retrying" THEN Ask("list", 0) ELSE UNCHANGED <<reads, asked>>
    /\ UNCHANGED <<feed, wire, queue, more, keys, sightings, pressed, drops>>

(* A change of filter or sort. *)
Refetch ==
    /\ Ask("list", 0)
    /\ UNCHANGED <<feed, stream, wire, queue, more, keys, sightings, pressed, drops>>

(* "Load more", disabled while another list read is pending. *)
LoadMore ==
    /\ more # 0
    /\ \A d \in reads : d.kind = "row"
    /\ Ask("more", more)
    /\ UNCHANGED <<feed, stream, wire, queue, more, keys, sightings, pressed, drops>>

(* Expanding a row reads it again, for a fresh signed crop. *)
Expand ==
    /\ cursor # NoAlert
    /\ Ask("row", cursor)
    /\ UNCHANGED <<feed, stream, wire, queue, more, keys, sightings, pressed, drops>>

(* The API answers with what the table says now ... *)
Serve ==
    \E d \in reads :
        /\ ~d.served
        /\ reads' = (reads \ {d}) \union
              {[d EXCEPT !.served = TRUE,
                         !.page = IF d.kind = "row" THEN [rows |-> <<RowOf(d.from)>>, next |-> 0]
                                  ELSE Page(d.from)]}
        /\ UNCHANGED <<feed, stream, wire, queue, more, keys, used>>

(* ... and a list read that fails comes back as an empty page. *)
ServeError ==
    \E d \in reads :
        /\ ~d.served /\ d.kind # "row"
        /\ drops < MaxDrops
        /\ drops' = drops + 1
        /\ reads' = (reads \ {d}) \union {[d EXCEPT !.served = TRUE]}
        /\ UNCHANGED <<feed, stream, wire, queue, more, keys, sightings, asked, pressed>>

(* The answers return in any order. *)
Return ==
    \E d \in reads :
        /\ d.served
        /\ reads' = reads \ {d}
        /\ CASE d.kind = "list" ->
                  Replace(d.page.rows) /\ more' = d.page.next
             [] d.kind = "more" ->
                  Replace(screen \o d.page.rows) /\ more' = d.page.next
             [] d.kind = "row" ->
                  Receive(d.page.rows[1], FALSE) /\ UNCHANGED <<cursor, more>>
        /\ UNCHANGED <<feed, stream, wire, inFlight, keys, used>>

(* j, k or a click. *)
Focus ==
    /\ \E i \in DOMAIN screen : cursor' = screen[i].id
    /\ cursor' # cursor
    /\ UNCHANGED <<feed, stream, wire, screen, pending, inFlight, more, reads, keys, used>>

(* The "N new alerts" pill: mergePending. *)
Merge ==
    /\ pending # <<>>
    /\ screen' = Sorted(pending \o screen)
    /\ pending' = <<>>
    /\ UNCHANGED <<feed, stream, wire, cursor, inFlight, more, reads, keys, used>>

(* a, e, or d and a reason, on the focused row: applyTransition paints it  *)
(* at once.  The keyboard asks neither whether the row may move there nor  *)
(* whether it is busy.                                                     *)
Press(to) ==
    /\ cursor # NoAlert
    /\ pressed < MaxKeys
    /\ pressed' = pressed + 1
    /\ inFlight' = Pinned(cursor, Find(cursor, screen))
    /\ screen' = Put([Find(cursor, screen) EXCEPT !.status = to], screen)
    /\ keys' = keys \union {[n |-> pressed, id |-> cursor, to |-> to, answer |-> "none",
                             row |-> Find(cursor, screen)]}
    /\ UNCHANGED <<feed, stream, wire, pending, cursor, more, reads, sightings, asked, drops>>

(* transitionAlert commits or refuses (see AlertLifecycle); either way the *)
(* answer may be lost.                                                     *)
Decide ==
    \E k \in keys :
        /\ k.answer = "none"
        /\ LET was == RowOf(k.id)
               ok == CanTransition(was.status, k.to)
               now == IF ok THEN [was EXCEPT !.status = k.to] ELSE was
           IN  /\ table' = (table \ {was}) \union {now}
               /\ \E answer \in {IF ok THEN "ok" ELSE "conflict", "error"} :
                     keys' = (keys \ {k}) \union {[k EXCEPT !.answer = answer, !.row = now]}
        /\ UNCHANGED <<notices, replays, recent, stream, wire, queue, more, reads, used>>

(* A session that expired or an API that is away: nothing was decided. *)
Fail ==
    \E k \in keys :
        /\ k.answer = "none"
        /\ keys' = (keys \ {k}) \union {[k EXCEPT !.answer = "error"]}
        /\ UNCHANGED <<feed, stream, wire, queue, more, reads, used>>

(* The answer reaches the screen; a conflict also reads the list again. *)
Answer ==
    \E k \in keys :
        /\ k.answer # "none"
        /\ keys' = keys \ {k}
        /\ IF k.answer = "ok" THEN Settle(k.row) ELSE Rollback(k.id)
        /\ IF k.answer = "conflict" THEN Ask("list", 0) ELSE UNCHANGED <<reads, asked>>
        /\ UNCHANGED <<feed, stream, wire, pending, cursor, more, sightings, pressed, drops>>

Next ==
    \/ \E a \in Alert, admitted \in BOOLEAN : Sight(a, admitted)
    \/ \E a \in Alert, to \in Status : OtherMoves(a, to)
    \/ Reread \/ Replay
    \/ Frame \/ Drop \/ Open
    \/ Refetch \/ LoadMore \/ Expand \/ Serve \/ ServeError \/ Return
    \/ Focus \/ Merge
    \/ \E to \in {"ack", "dismissed", "escalated"} : Press(to)
    \/ Decide \/ Fail \/ Answer

Spec == Init /\ [][Next]_vars

-----------------------------------------------------------------------------
(* A live alert never moves the row under the cursor: while a row is       *)
(* focused the rows keep their places, unless the officer asked for the    *)
(* list or for the buffer.                                                 *)
FocusKeepsRows ==
    [][cursor # NoAlert /\ Ids(screen') # Ids(screen)
        => (\E d \in reads : d.kind # "row" /\ d \notin reads') \/ (pending # <<>> /\ pending' = <<>>)]_vars

(* An alert is on the list or in the buffer, never in both, and in the     *)
(* buffer once: merging never shows an alert twice.                        *)
ShownInOneList ==
    /\ \A i \in DOMAIN pending : ~On(pending[i].id, screen)
    /\ \A i, j \in DOMAIN pending : pending[i].id = pending[j].id => i = j

(* A row is pinned against the server's own record only while an answer    *)
(* for it is still to come.                                                *)
PinnedMeansAsked == \A a \in DOMAIN inFlight : \E k \in keys : k.id = a

(* The queue stays calm under live updates: no row moves under the cursor, *)
(* none is shown twice, none is pinned without an answer to come.          *)
QueueIsCalm == FocusKeepsRows /\ [](TypeOK /\ ShownInOneList /\ PinnedMeansAsked)
=============================================================================
