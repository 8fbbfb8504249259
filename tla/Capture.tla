------------------------------ MODULE Capture ------------------------------
(***************************************************************************)
(* One camera of the analytics worker: sessions opened, lost and reopened  *)
(* with a growing delay (workers/analytics/pipeline.py), track ids that    *)
(* carry the session (track.py), one best shot per track (attributes.py)   *)
(* and one plate vote per track (anpr/engine.py).                          *)
(*                                                                         *)
(* A frame shows one tracked vehicle; several on one picture are several   *)
(* frames with the same PTS.  A crop, a detection or a read is its score.  *)
(***************************************************************************)
EXTENDS Integers, FiniteSets, Functions

CONSTANTS
    TrackerId,      \* what ByteTrack numbers vehicles with, anew each session
    Stride,         \* track_session_stride
    Pts,            \* presentation times of frames
    IdleFlush,      \* TRACK_IDLE_FLUSH_PTS_MS
    MaxTracks,      \* MAX_TRACKS_PER_CAMERA
    Score,
    TopN, MaxExamine, StaleAfter,   \* when a plate buffer is ready
    MaxFrames, MaxSessions, MaxAttempts     \* bounds of the model

CaptureAssumption ==
    /\ TrackerId \subseteq 0..Stride - 1 /\ Pts \subseteq Nat /\ Score \subseteq Nat
    /\ {Stride, MaxTracks, TopN, MaxExamine, StaleAfter, MaxAttempts} \subseteq Nat \ {0}
    /\ {IdleFlush, MaxFrames, MaxSessions} \subseteq Nat

VARIABLES
    pc,             \* "closed", "open" (decoding), "waiting" or "done"
    stop,           \* the worker's stop event
    attempt,        \* failures since a session last ended by itself
    session,        \* SessionTracker.session_index, -1 before the first decode
    held,           \* _by_camera: the candidate of each track
    lastPts,        \* _last_pts, -1 for none
    stored, dropped,    \* observations of the candidates flushed with, without a crop
    rewinds,        \* pts_rewind_flushes
    buffer,         \* AnprEngine._buffers
    reads,          \* the plate reads published, per track
    offers          \* frames so far

shots == <<held, lastPts, stored, dropped, rewinds>>
vars == <<pc, stop, attempt, session, shots, buffer, reads, offers>>

(* Mutant of TrackId: the tracker's own number. *)
TrackIdRaw(id) == id

TrackId(id) == session * Stride + id

Track == {s * Stride + id : s \in 0..MaxSessions, id \in TrackerId}
Candidate == [score : Score, crop : BOOLEAN, last : Pts, obs : 1..MaxFrames]
NoBuffer == [n |-> 0, examined |-> 0, stale |-> 0, emitted |-> FALSE, sessions |-> {}]

TypeOK ==
    /\ pc \in {"closed", "open", "waiting", "done"}
    /\ stop \in BOOLEAN
    /\ attempt \in 0..MaxAttempts
    /\ session \in -1..MaxSessions
    /\ DOMAIN held \subseteq Track /\ Cardinality(DOMAIN held) <= MaxTracks
    /\ \A t \in DOMAIN held : held[t] \in Candidate
    /\ lastPts \in Pts \union {-1}
    /\ {stored, dropped, rewinds, offers} \subseteq 0..MaxFrames
    /\ DOMAIN buffer \subseteq Track
    /\ \A t \in DOMAIN buffer : buffer[t].n <= TopN /\ buffer[t].examined <= MaxExamine
    /\ DOMAIN reads \subseteq DOMAIN buffer

Init ==
    /\ pc = "closed" /\ stop = FALSE /\ attempt = 0 /\ session = -1
    /\ held = <<>> /\ lastPts = -1 /\ stored = 0 /\ dropped = 0 /\ rewinds = 0
    /\ buffer = <<>> /\ reads = <<>> /\ offers = 0

-----------------------------------------------------------------------------
(* Best shots.                                                             *)

Obs(f, T) == SumFunctionOnSet([t \in T |-> f[t].obs], T)
With(f, t, x) == [u \in DOMAIN f \union {t} |-> IF u = t THEN x ELSE f[u]]
Without(f, T) == [t \in DOMAIN f \ T |-> f[t]]

(* _take: what has a crop is stored, what has none is counted. *)
Flushed(f, T) ==
    /\ stored' = stored + Obs(f, {t \in T : f[t].crop})
    /\ dropped' = dropped + Obs(f, {t \in T : ~f[t].crop})

(* end_session *)
EndSession ==
    /\ Flushed(held, DOMAIN held)
    /\ held' = <<>>
    /\ lastPts' = -1
    /\ UNCHANGED rewinds

Beats(score, c) == score > c.score

(* One more observation of a track that has a candidate. *)
Joined(c, score, crop, pts) ==
    LET last == IF pts > c.last THEN pts ELSE c.last
    IN  IF Beats(score, c)
          THEN [score |-> score, crop |-> crop, last |-> last, obs |-> c.obs + 1]
          ELSE [c EXCEPT !.last = last, !.obs = @ + 1]

(* _offer_best_shot and offer: the crop is encoded only if it beats the    *)
(* candidate held now; then a rewind flushes everything, the shot joins or *)
(* starts a candidate, idle tracks are flushed, and the oldest one when    *)
(* there are too many.                                                     *)
Offer(t, score, pts) ==
    LET crop == t \notin DOMAIN held \/ score > held[t].score
        rewound == lastPts # -1 /\ lastPts - pts > IdleFlush
        kept == IF rewound THEN <<>> ELSE held
        shot == IF t \in DOMAIN kept
                  THEN Joined(kept[t], score, crop, pts)
                  ELSE [score |-> score, crop |-> crop, last |-> pts, obs |-> 1]
        all == With(kept, t, shot)
        idle == {u \in DOMAIN all : pts - all[u].last > IdleFlush}
        rest == DOMAIN all \ idle
    IN  \E full \in IF Cardinality(rest) <= MaxTracks THEN {{}}
                    ELSE {{u} : u \in {v \in rest : \A w \in rest : all[v].last <= all[w].last}} :
            LET gone == (IF rewound THEN DOMAIN held ELSE {})
                out == idle \union full
            IN  /\ stored' = stored + Obs(held, {u \in gone : held[u].crop})
                                    + Obs(all, {u \in out : all[u].crop})
                /\ dropped' = dropped + Obs(held, {u \in gone : ~held[u].crop})
                                      + Obs(all, {u \in out : ~all[u].crop})
                /\ held' = Without(all, out)
                /\ lastPts' = pts
                /\ rewinds' = rewinds + (IF rewound THEN 1 ELSE 0)

-----------------------------------------------------------------------------
(* Plate reads.                                                            *)

Ready(b) ==
    \/ b.n >= TopN
    \/ b.examined >= MaxExamine
    \/ b.n > 0 /\ b.stale >= StaleAfter

(* observe: until its track was voted on, a frame is examined and its      *)
(* plate, if one was found, joins the buffer; a ready buffer is voted on   *)
(* once, whether or not the vote is above the floor.                       *)
Observe(t, plate, vote) ==
    LET b == IF t \in DOMAIN buffer THEN buffer[t] ELSE NoBuffer
        looked == IF plate
                    THEN [b EXCEPT !.examined = @ + 1, !.n = @ + 1, !.stale = 0,
                                   !.sessions = @ \union {session}]
                    ELSE [b EXCEPT !.examined = @ + 1, !.stale = @ + 1]
        ready == Ready(looked)
    IN  IF b.emitted THEN UNCHANGED <<buffer, reads>>
        ELSE /\ buffer' = With(buffer, t, [looked EXCEPT !.emitted = ready])
             /\ reads' = IF ready /\ looked.n > 0 /\ vote
                           THEN With(reads, t, IF t \in DOMAIN reads THEN reads[t] + 1 ELSE 1)
                           ELSE reads

(* A vehicle too small to read is only registered. *)
TooSmall(t) ==
    /\ buffer' = IF t \in DOMAIN buffer THEN buffer ELSE With(buffer, t, NoBuffer)
    /\ UNCHANGED reads

-----------------------------------------------------------------------------
(* The capture loop.                                                       *)

(* The stream opens; from the second time on the tracker starts a new      *)
(* session and what the last one held is stored.                           *)
Open ==
    /\ pc = "closed" /\ ~stop
    /\ session < MaxSessions
    /\ pc' = "open"
    /\ session' = session + 1
    /\ IF session = -1 THEN UNCHANGED shots ELSE EndSession
    /\ UNCHANGED <<stop, attempt, buffer, reads, offers>>

(* A frame the motion gate lets through. *)
See(id, score, pts) ==
    /\ pc = "open" /\ ~stop
    /\ offers < MaxFrames
    /\ offers' = offers + 1
    /\ \/ TooSmall(TrackId(id))
       \/ \E plate, vote \in BOOLEAN : Observe(TrackId(id), plate, vote)
    /\ Offer(TrackId(id), score, pts)
    /\ UNCHANGED <<pc, stop, attempt, session>>

(* A scene cut ends the tracking session. *)
Cut ==
    /\ pc = "open" /\ ~stop
    /\ session < MaxSessions
    /\ session' = session + 1
    /\ EndSession
    /\ UNCHANGED <<pc, stop, attempt, buffer, reads, offers>>

(* An exception, from the open or from the decoder. *)
Fail ==
    /\ pc \in {"closed", "open"} /\ ~stop
    /\ attempt < MaxAttempts
    /\ pc' = "waiting"
    /\ attempt' = attempt + 1
    /\ UNCHANGED <<stop, session, shots, buffer, reads, offers>>

(* The stream ends by itself: the ladder starts over. *)
EndOfStream ==
    /\ pc = "open"
    /\ IF stop THEN pc' = "closed" /\ attempt' = 0
               ELSE pc' = "waiting" /\ attempt' = 1
    /\ UNCHANGED <<stop, session, shots, buffer, reads, offers>>

Reopen ==
    /\ pc = "waiting" /\ ~stop
    /\ pc' = "closed"
    /\ UNCHANGED <<stop, attempt, session, shots, buffer, reads, offers>>

(* SIGTERM, or the end of the measured window. *)
Stop ==
    /\ ~stop
    /\ stop' = TRUE
    /\ UNCHANGED <<pc, attempt, session, shots, buffer, reads, offers>>

(* The loop ends and the tail is stored. *)
Finish ==
    /\ stop /\ pc \in {"closed", "waiting"}
    /\ pc' = "done"
    /\ EndSession
    /\ UNCHANGED <<stop, attempt, session, buffer, reads, offers>>

Next ==
    \/ Open \/ Cut \/ Fail \/ EndOfStream \/ Reopen \/ Stop \/ Finish
    \/ \E id \in TrackerId, score \in Score, pts \in Pts : See(id, score, pts)

Spec == Init /\ [][Next]_vars

-----------------------------------------------------------------------------
(* Every observation is accounted for: in a candidate that is held, or in  *)
(* one flushed with or without a crop; and at the end nothing is held.     *)
ObservationsAreCounted ==
    /\ stored + dropped + Obs(held, DOMAIN held) = offers
    /\ pc = "done" => held = <<>>

(* A best shot loses its crop only when the clock of the stream jumps back *)
(* within a session: the crop was not worth encoding beside a candidate    *)
(* that the jump then flushed.                                             *)
DropNeedsRewind == dropped > 0 \/ (\E t \in DOMAIN held : ~held[t].crop) => rewinds > 0

(* "Returns at most one entry per track for the whole life of that track", *)
(* and every crop that was voted on is of one session: a number ByteTrack  *)
(* uses again never joins two vehicles.                                    *)
OneReadPerTrack ==
    /\ \A t \in DOMAIN reads : reads[t] <= 1
    /\ \A t \in DOMAIN buffer : Cardinality(buffer[t].sessions) <= 1

(* What a track leaves behind: one read, from one session's crops, every   *)
(* observation in exactly one flush, and its crop unless the clock rewound.*)
TracksAreReadOnce == TypeOK /\ OneReadPerTrack /\ ObservationsAreCounted /\ DropNeedsRewind
=============================================================================
