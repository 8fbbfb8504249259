----------------------------- MODULE WorkerRun -----------------------------
(***************************************************************************)
(* One run of the analytics worker (workers/analytics/run.py): a pool of   *)
(* camera threads, the gate behind which they wait until the measured      *)
(* window opens, the deadline and the stop event that end them, the plate  *)
(* engine and the two sinks they share, the summary of the run and what a  *)
(* scrape reads meanwhile (workers/analytics/metrics.py).                  *)
(*                                                                         *)
(* A camera decodes a frame, may publish the plate of a track that was     *)
(* voted on, and publishes a sighting; other threads run in between.  Time *)
(* is two events: the connect deadline, which any wait may reach, and      *)
(* "late", the end of the window.  gate_timeout_s is the connect deadline  *)
(* counted from a later moment, so the gate is open before it runs out.    *)
(***************************************************************************)
EXTENDS Integers, FiniteSets, Sequences, Functions

CONSTANTS Sources,      \* the cameras, in the order they are submitted
          Pools,        \* the values of --pool
          MaxErrors,    \* failures whose message is kept
          MaxFrames, MaxFails   \* bounds: frames of a camera, failures of a run

Camera == Range(Sources)

WorkerRunAssumption ==
    /\ Sources \in Seq(Camera) /\ IsInjective(Sources)
    /\ Pools \subseteq Nat \ {0}
    /\ {MaxErrors, MaxFrames, MaxFails} \subseteq Nat

VARIABLES
    main,       \* "start", "connecting", "window", "collecting" or "done"
    pool,       \* max_workers
    bounded,    \* --minutes is positive
    stop, gate, \* the two events
    late,       \* the window's time is over
    tickets,    \* the semaphore "ready"
    connected,  \* cameras counted before the window opened
    thread,     \* the thread of each camera
    stats,      \* its CameraStats
    held,       \* AnprEngine._plate_evidence: whose plate each crop shows
    bus,        \* what the two sinks were given
    summary     \* of the finished run

vars == <<main, pool, bounded, stop, gate, late, tickets, connected, thread, stats,
          held, bus, summary>>

Idle == [pc |-> "queued", limit |-> FALSE, announced |-> FALSE, open |-> FALSE]
NoStats == [tries |-> 0, frames |-> 0, sightings |-> 0, reads |-> 0, crops |-> 0,
            reconnects |-> 0, errors |-> 0, retryable |-> 0]
NoSummary == [given |-> FALSE, late |-> FALSE, producing |-> {}, of |-> [c \in {} |-> NoStats]]

Init ==
    /\ main = "start" /\ pool = 1 /\ bounded = FALSE
    /\ stop = FALSE /\ gate = FALSE /\ late = FALSE
    /\ tickets = 0 /\ connected = 0
    /\ thread = [c \in Camera |-> Idle]
    /\ stats = [c \in Camera |-> NoStats]
    /\ held = <<>>
    /\ bus = [sightings |-> 0, crops |-> [c \in Camera |-> 0]]
    /\ summary = NoSummary

setup == <<main, pool, bounded>>
events == <<stop, gate, late>>
waits == <<tickets, connected>>
output == <<held, bus>>

Goto(c, pc) == thread' = [thread EXCEPT ![c].pc = pc]
Count(c, f) == stats' = [stats EXCEPT ![c] = f]
Over(c) == stop \/ (thread[c].limit /\ late)
Active == {c \in Camera : thread[c].pc \notin {"queued", "ended"}}
AllDone == \A c \in Camera : thread[c].pc = "ended"
Total(field) == SumFunction([c \in Camera |-> stats[c][field]])

-----------------------------------------------------------------------------
(* The main thread.                                                        *)

Launch(p, b) ==
    /\ main = "start"
    /\ main' = "connecting"
    /\ pool' = IF p < Len(Sources) THEN p ELSE Len(Sources)
    /\ bounded' = b
    /\ UNCHANGED <<events, waits, thread, stats, output, summary>>

(* One more camera is connected; after the last one the window opens. *)
Acquire ==
    /\ main = "connecting" /\ ~stop
    /\ connected < Len(Sources)
    /\ tickets > 0
    /\ tickets' = tickets - 1
    /\ connected' = connected + 1
    /\ UNCHANGED <<setup, events, thread, stats, output, summary>>

(* Every camera is connected, or the deadline passed, or a stop arrived. *)
OpenWindow ==
    /\ main = "connecting"
    /\ main' = "window"
    /\ gate' = TRUE
    /\ UNCHANGED <<pool, bounded, stop, late, waits, thread, stats, output, summary>>

Expire ==
    /\ main = "window" /\ bounded /\ ~late
    /\ late' = TRUE
    /\ UNCHANGED <<setup, stop, gate, waits, thread, stats, output, summary>>

CloseWindow ==
    /\ main = "window"
    /\ stop \/ late \/ AllDone
    /\ stop' = TRUE
    /\ main' = "collecting"
    /\ UNCHANGED <<pool, bounded, gate, late, waits, thread, stats, output, summary>>

(* Every result is in. *)
Collect ==
    /\ main = "collecting" /\ AllDone
    /\ main' = "done"
    /\ summary' = [given |-> TRUE, late |-> late, of |-> stats,
                   producing |-> {c \in Camera : stats[c].frames > 0}]
    /\ UNCHANGED <<pool, bounded, events, waits, thread, stats, output>>

(* A run no camera of which produced a frame has failed. *)
ExitCode == IF summary.producing # {} THEN 0 ELSE 1

(* SIGTERM or SIGINT. *)
Signal ==
    /\ main \in {"connecting", "window"} /\ ~stop
    /\ stop' = TRUE
    /\ UNCHANGED <<setup, gate, late, waits, thread, stats, output, summary>>

-----------------------------------------------------------------------------
(* The thread of a camera.                                                 *)

(* A slot is free: the first camera in the queue starts, with the deadline *)
(* if there is one by now.                                                 *)
Begin(c) ==
    /\ main # "start"
    /\ thread[c].pc = "queued"
    /\ \E i \in DOMAIN Sources :
          Sources[i] = c /\ \A j \in 1..i - 1 : thread[Sources[j]].pc # "queued"
    /\ Cardinality(Active) < pool
    /\ thread' = [thread EXCEPT ![c].pc = "top", ![c].limit = bounded /\ gate]
    /\ UNCHANGED <<setup, events, waits, stats, output, summary>>

(* The top of the loop: another session, or the end, where the best shots  *)
(* of the last session are stored.                                         *)
Connect(c) ==
    /\ thread[c].pc = "top"
    /\ IF Over(c) THEN Goto(c, "ended") /\ UNCHANGED stats
                  ELSE Goto(c, "opening") /\ Count(c, [stats[c] EXCEPT !.tries = @ + 1])
    /\ UNCHANGED <<setup, events, waits, output, summary>>

(* The stream opens; only the first time is announced. *)
Open(c) ==
    /\ thread[c].pc = "opening"
    /\ thread' = [thread EXCEPT ![c].pc = IF gate THEN "decode" ELSE "gated",
                                ![c].announced = TRUE, ![c].open = TRUE]
    /\ tickets' = IF thread[c].announced THEN tickets ELSE tickets + 1
    /\ UNCHANGED <<setup, events, connected, stats, output, summary>>

Pass(c) ==
    /\ thread[c].pc = "gated" /\ gate
    /\ Goto(c, "decode")
    /\ UNCHANGED <<setup, events, waits, stats, output, summary>>

(* A frame: dropped by the motion gate, or seen to show one vehicle, whose *)
(* track may be voted on now.                                              *)
Frame(c) ==
    /\ thread[c].pc = "decode" /\ ~Over(c)
    /\ stats[c].frames < MaxFrames
    /\ \/ /\ Count(c, [stats[c] EXCEPT !.frames = @ + 1])
          /\ UNCHANGED <<thread, held>>
       \/ /\ Count(c, [stats[c] EXCEPT !.frames = @ + 1])
          /\ Goto(c, "publish")
          /\ UNCHANGED held
       \/ /\ Count(c, [stats[c] EXCEPT !.frames = @ + 1, !.reads = @ + 1])
          /\ Goto(c, "drain")
          /\ held' = Append(held, c)
    /\ UNCHANGED <<setup, events, waits, bus, summary>>

(* Mutant of Drain: every crop is read, but only one is taken off the list. *)
DrainKeeps(c) ==
    /\ thread[c].pc = "drain"
    /\ Goto(c, "publish")
    /\ Count(c, [stats[c] EXCEPT !.crops = @ + Len(held)])
    /\ bus' = [bus EXCEPT !.crops = [d \in Camera |->
                  @[d] + Cardinality({i \in DOMAIN held : held[i] = d})]]
    /\ held' = SubSeq(held, 1, Len(held) - 1)
    /\ UNCHANGED <<setup, events, waits, summary>>

(* _emit_plate_evidence: whoever comes first takes every crop that waits,  *)
(* and counts it as his own.                                               *)
Drain(c) ==
    /\ thread[c].pc = "drain"
    /\ Goto(c, "publish")
    /\ Count(c, [stats[c] EXCEPT !.crops = @ + Len(held)])
    /\ bus' = [bus EXCEPT !.crops = [d \in Camera |->
                  @[d] + Cardinality({i \in DOMAIN held : held[i] = d})]]
    /\ held' = <<>>
    /\ UNCHANGED <<setup, events, waits, summary>>

(* The sink counts a sighting as published or as failed, this thread       *)
(* counts it in either case.                                               *)
Publish(c) ==
    /\ thread[c].pc = "publish"
    /\ Goto(c, "decode")
    /\ Count(c, [stats[c] EXCEPT !.sightings = @ + 1])
    /\ bus' = [bus EXCEPT !.sightings = @ + 1]
    /\ UNCHANGED <<setup, events, waits, held, summary>>

(* The stop, the deadline, or the end of the stream. *)
Leave(c) ==
    /\ thread[c].pc = "decode"
    /\ \/ /\ Over(c)
          /\ thread' = [thread EXCEPT ![c].pc = "ended", ![c].open = FALSE]
          /\ UNCHANGED stats
       \/ /\ ~Over(c)
          /\ Total("reconnects") < MaxFails
          /\ thread' = [thread EXCEPT ![c].pc = "waiting", ![c].open = FALSE]
          /\ Count(c, [stats[c] EXCEPT !.reconnects = @ + 1])
    /\ UNCHANGED <<setup, events, waits, output, summary>>

(* The open or the decoder raised. *)
Fail(c, retryable) ==
    /\ thread[c].pc \in {"opening", "decode"}
    /\ Total("reconnects") < MaxFails
    /\ thread' = [thread EXCEPT ![c].pc = "waiting", ![c].open = FALSE]
    /\ Count(c, [stats[c] EXCEPT !.reconnects = @ + 1,
                                 !.retryable = IF retryable THEN @ + 1 ELSE @,
                                 !.errors = IF @ < MaxErrors THEN @ + 1 ELSE @])
    /\ UNCHANGED <<setup, events, waits, output, summary>>

(* The delay before the next attempt ends, by itself or by the stop. *)
Wake(c) ==
    /\ thread[c].pc = "waiting"
    /\ Goto(c, IF stop THEN "ended" ELSE "top")
    /\ UNCHANGED <<setup, events, waits, stats, output, summary>>

Main ==
    \/ \E p \in Pools, b \in BOOLEAN : Launch(p, b)
    \/ Acquire \/ OpenWindow \/ Expire \/ CloseWindow \/ Collect \/ Signal

Step(c) ==
    \/ Begin(c) \/ Connect(c) \/ Open(c) \/ Pass(c) \/ Frame(c) \/ Drain(c) \/ Publish(c)
    \/ Leave(c) \/ Wake(c)
    \/ \E retryable \in BOOLEAN : Fail(c, retryable)

Next == Main \/ \E c \in Camera : Step(c)

Spec == Init /\ [][Next]_vars

-----------------------------------------------------------------------------
(* What a scrape reads.                                                    *)

Connected == {c \in Camera : thread[c].open}
Scrape(c) ==
    LET st == stats[c]
    IN  [connected |-> c \in Connected, frames |-> st.frames, reads |-> st.reads,
         sightings |-> st.sightings, reconnects |-> st.reconnects,
         retried |-> st.retryable,
         faults |-> IF st.errors > st.retryable THEN st.errors - st.retryable ELSE 0]

(* The gauge is set exactly while a stream is open; until the list of      *)
(* messages is full the two error series add up to the failures; and no    *)
(* series runs ahead of what it is a part of.                              *)
ScrapesAreTrue ==
    \A c \in Camera :
        LET now == Scrape(c)
        IN  /\ now.connected <=> thread[c].pc \in {"gated", "decode", "drain", "publish"}
            /\ stats[c].errors < MaxErrors => now.retried + now.faults = stats[c].errors
            /\ now.retried + now.faults <= now.reconnects
            /\ now.reads <= now.sightings + 1 /\ now.sightings <= now.frames

(* No camera counts as connected twice, and none decodes before the window *)
(* opens, or after the summary; a main thread that waits for results has   *)
(* opened the gate and set the stop, so that every thread can end.         *)
WindowHolds ==
    /\ connected + tickets = Cardinality({c \in Camera : thread[c].announced})
    /\ Total("frames") > 0 => gate
    /\ main \in {"window", "collecting"} => gate
    /\ main = "collecting" => stop
    /\ summary.given => AllDone /\ stats = summary.of /\ (ExitCode = 0 => gate)
    /\ Cardinality(Active) <= pool

(* Crops and sightings of all threads together are what the sinks were     *)
(* given: every vote's crop once, under its own camera.                    *)
OutputAddsUp ==
    /\ \A c \in Camera :
          stats[c].reads = bus.crops[c] + Cardinality({i \in DOMAIN held : held[i] = c})
    /\ Total("sightings") = bus.sightings
    /\ Total("crops") = Total("reads") - Len(held)
    /\ AllDone => held = <<>>

RunsAddUp == ScrapesAreTrue /\ WindowHolds /\ OutputAddsUp

(* "Runs every source concurrently for `minutes`" (run.py:75): when a      *)
(* whole window has passed, every camera was tried.                        *)
EveryCameraIsTried ==
    summary.given /\ summary.late => \A c \in Camera : summary.of[c].tries > 0
=============================================================================
