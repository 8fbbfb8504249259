--------------------------- MODULE DetectionOverlay ---------------------------
(***************************************************************************)
(* Detection boxes over a tile: the detections route (routes/streams.ts),  *)
(* the loader that pages through a window (detections-window.ts) and the   *)
(* overlay that keeps one window around the playhead.  Sightings of a new  *)
(* analytics run are stored row by row while windows are read; a load is   *)
(* one request per page, and two loads may be under way at once.           *)
(***************************************************************************)
EXTENDS Integers, FiniteSets, SequencesExt

CONSTANTS
    Rows,           \* sequence of sightings in the order they are stored: pts, ts (of the run), track
    Before,         \* how many of them are stored when the tile opens
    Frames,         \* presentation times the playhead may take
    Limit,          \* PAGE_LIMIT
    MaxPages,
    Window, Lead, Margin,
    Tolerance,
    MaxTicks,
    NA

VARIABLES
    stored,         \* rows stored so far
    enabled, playhead,
    buffer,         \* from, to, rows
    loads,          \* windows being loaded
    ticks

vars == <<stored, enabled, playhead, buffer, loads, ticks>>

(* A run reports a track at most once in a frame. *)
DetectionOverlayAssumption ==
    /\ Rows \in Seq([pts : Nat, ts : Nat, track : Nat])
    /\ \A i, j \in DOMAIN Rows : Rows[i] = Rows[j] => i = j
    /\ Before \in 0..Len(Rows) /\ 0 \in Frames /\ Frames \subseteq Nat
    /\ {Limit, MaxPages} \subseteq Nat \ {0}
    /\ {Window, Lead, Margin, Tolerance, MaxTicks} \subseteq Nat /\ NA \notin Nat

At(i) == Rows[i]
Table == 1..stored
Empty == [from |-> 0, to |-> -1, rows |-> {}, asof |-> 0]

TypeOK ==
    /\ stored \in Before..Len(Rows) /\ enabled \in BOOLEAN /\ playhead \in Frames
    /\ buffer.rows \subseteq DOMAIN Rows
    /\ \A l \in loads : l.rows \subseteq DOMAIN Rows /\ l.page < MaxPages /\ l.from <= l.cursor

-----------------------------------------------------------------------------
(* The route: of every frame in the window, the rows of the latest run.    *)
(* The ends of a window may be given in either order.                      *)
Between(p, a, b) == (a <= p /\ p <= b) \/ (b <= p /\ p <= a)

Latest(T, a, b) ==
    {i \in T : /\ Between(At(i).pts, a, b)
               /\ \A j \in T : At(j).pts = At(i).pts => At(j).ts <= At(i).ts}
Ahead(i, j) == At(i).pts < At(j).pts \/ (At(i).pts = At(j).pts /\ At(i).track < At(j).track)

(* Mutant of CutAtFrameBoundary: the page is cut at the limit. *)
CutAtLimit(S) ==
    LET rank == [i \in S |-> Cardinality({j \in S : Ahead(j, i)})]
    IN  IF Cardinality(S) <= Limit THEN [rows |-> S, next |-> NA]
        ELSE [rows |-> {i \in S : rank[i] < Limit},
              next |-> At(CHOOSE i \in S : rank[i] = Limit).pts]

(* A page ends between two frames, unless one frame alone is over it.      *)
CutAtFrameBoundary(S) ==
    LET rank == [i \in S |-> Cardinality({j \in S : Ahead(j, i)})]
        page == {i \in S : rank[i] < Limit}
    IN  IF Cardinality(S) <= Limit THEN [rows |-> S, next |-> NA]
        ELSE LET end == At(CHOOSE i \in S : rank[i] = Limit).pts
                 whole == {i \in page : At(i).pts < end}
             IN  IF whole # {} THEN [rows |-> whole, next |-> end] ELSE [rows |-> page, next |-> end + 1]

-----------------------------------------------------------------------------
(* tick: once at first and then every second, whether or not the last one  *)
(* has ended.                                                              *)
Inside == playhead >= buffer.from /\ playhead + Margin < buffer.to
Start == IF playhead > Lead THEN playhead - Lead ELSE 0

Tick ==
    /\ enabled /\ ~Inside /\ ticks < MaxTicks
    /\ ticks' = ticks + 1
    /\ loads' = loads \cup {[from |-> Start, to |-> Start + Window, cursor |-> Start, page |-> 0,
                             rows |-> {}, asof |-> stored]}
    /\ UNCHANGED <<stored, enabled, playhead, buffer>>

CoveredTo(l, next) ==
    IF next = NA THEN l.to ELSE IF next > l.cursor THEN next ELSE l.cursor

(* One request of loadDetectionWindow; the window is kept when it ends.    *)
FetchPage(l) ==
    LET cut == CutAtFrameBoundary(Latest(Table, l.cursor, l.to))
        rows == l.rows \cup cut.rows
        more == cut.next # NA /\ cut.next > l.cursor /\ l.page + 1 < MaxPages
    IN  /\ l \in loads
        /\ IF more
           THEN /\ loads' = (loads \ {l}) \cup {[l EXCEPT !.cursor = cut.next, !.page = @ + 1, !.rows = rows]}
                /\ UNCHANGED buffer
           ELSE /\ loads' = loads \ {l}
                /\ buffer' = [from |-> l.from, to |-> CoveredTo(l, cut.next), rows |-> rows, asof |-> l.asof]
        /\ UNCHANGED <<stored, enabled, playhead, ticks>>

(* A request fails: the boxes that are there stay.                         *)
LoadFails(l) ==
    /\ l \in loads
    /\ loads' = loads \ {l}
    /\ UNCHANGED <<stored, enabled, playhead, buffer, ticks>>

(* The overlay is switched off: loads are aborted and the boxes go.        *)
Toggle ==
    /\ enabled' = ~enabled
    /\ loads' = {}
    /\ buffer' = IF enabled THEN Empty ELSE buffer
    /\ UNCHANGED <<stored, playhead, ticks>>

Play ==
    /\ playhead' \in Frames
    /\ UNCHANGED <<stored, enabled, buffer, loads, ticks>>

(* The sightings consumer stores another row of the run under way.         *)
Store ==
    /\ stored < Len(Rows)
    /\ stored' = stored + 1
    /\ UNCHANGED <<enabled, playhead, buffer, loads, ticks>>

Init ==
    /\ stored = Before
    /\ enabled = TRUE /\ playhead = 0
    /\ buffer = Empty /\ loads = {} /\ ticks = 0

Next == Tick \/ (\E l \in loads : FetchPage(l) \/ LoadFails(l)) \/ Toggle \/ Play \/ Store

Spec == Init /\ [][Next]_vars

-----------------------------------------------------------------------------
(* detectionsAt: of each track, the row nearest to the playhead.           *)
Off(i) == IF At(i).pts > playhead THEN At(i).pts - playhead ELSE playhead - At(i).pts
Drawn ==
    {i \in buffer.rows : /\ enabled /\ Off(i) <= Tolerance
                         /\ \A j \in buffer.rows : At(j).track = At(i).track => Off(i) <= Off(j)}

Of(S, p) == {i \in S : At(i).pts = p}

FitsPage(i) ==
    Cardinality({j \in DOMAIN Rows : At(j).pts = At(i).pts /\ At(j).ts = At(i).ts}) <= Limit

(* Every frame in the buffer comes from one run, whatever was stored while *)
(* its window was paged through (routes/streams.ts, the latest run); only  *)
(* a frame with more boxes than a page holds may be asked for twice, when  *)
(* the window ends with it.                                                *)
FrameIsOneRun ==
    \A i, j \in buffer.rows :
      At(i).pts = At(j).pts /\ FitsPage(i) /\ FitsPage(j) => At(i).ts = At(j).ts

(* What the overlay takes for covered is drawn, and will not be asked for  *)
(* again: at a playhead inside the buffer, a frame shows every box it had  *)
(* when the load began, if the run they are of fits a page there, or boxes *)
(* of a newer run.                                                         *)
Shows(S, n, p) ==
    LET due == Of(Latest(1..n, p, p), p)
    IN  \/ \E i \in due : ~FitsPage(i)
        \/ due \subseteq S
        \/ \E i \in Of(S, p) : \A j \in due : At(i).ts > At(j).ts
CoveredIsDrawn ==
    enabled /\ buffer.from <= playhead /\ playhead < buffer.to =>
        Shows(Drawn, buffer.asof, playhead)

(* The boxes drawn over a frame are those of one run, and all of them.     *)
BoxesAreTheFrames == TypeOK /\ FrameIsOneRun /\ CoveredIsDrawn
=============================================================================
