--------------------------- MODULE CameraAdapters ---------------------------
(***************************************************************************)
(* The federation contract (packages/api/src/adapters): every transport    *)
(* answers probe, open, close and health, whatever conversation it has to  *)
(* hold with the camera for it.  A conversation is a sequence of stages,   *)
(* each an HTTP request, a child process or a look at the disk, and each   *)
(* may fail in its own way; what the caller is told is a class of error or *)
(* a health sample, and the trust score branches on it.                    *)
(*                                                                         *)
(* One caller makes one call.  What the gateway, the device and ffmpeg     *)
(* answer is chosen freely at every stage; `met` remembers the fault, so   *)
(* that the answer can be compared with it.                                *)
(***************************************************************************)
EXTENDS Sequences

CONSTANT Caller        \* those who call an adapter, once each

VARIABLES call,        \* what each caller asked, and what it was told
          stages,      \* the stages of its conversation still ahead
          child,       \* its ffmpeg or ffprobe: none, running, told to stop
          session      \* its WHEP session at the gateway: none, open, lost

vars == <<call, stages, child, session>>

Kind == {"hls", "rtsp", "onvif", "whep", "file", "nvr"}
Op == {"probe", "open", "health"}
Error == {"none", "Auth", "Unreachable", "Decode", "Timeout",
          "NotImplemented", "other"}
Stage == {"endpoint", "playlist", "profiles", "uri", "offer", "teardown",
          "access", "header", "frames", "size", "stream"}

(* What the outside did to a call, as far as an operator would name it.    *)
Fault == {"none", "silent", "credentials", "refused", "slow", "unreadable",
          "missing", "unspawned"}

NoSample == [connectable |-> FALSE, decodable |-> FALSE, given |-> FALSE]
Idle == [pc |-> "idle", op |-> "probe", kind |-> "hls", error |-> "none",
         met |-> "none", listed |-> FALSE, sample |-> NoSample]

(* The conversation of each transport.  ONVIF asks the device for its      *)
(* profiles and for a stream URI and then is RTSP; WHEP negotiates and, in *)
(* a probe, ends the session again; health is a probe that reports.        *)
Unimplemented(kind) == kind = "nvr"
Media(op) == IF op = "open" THEN <<"stream">> ELSE <<"header", "frames">>
Conversation(kind, op) ==
    CASE kind = "hls"   -> (IF op = "open" THEN <<"endpoint">>
                            ELSE <<"endpoint", "playlist">>) \o Media(op)
      [] kind = "rtsp"  -> <<"endpoint">> \o Media(op)
      [] kind = "onvif" -> <<"endpoint", "profiles", "uri">> \o Media(op)
      [] kind = "whep"  -> <<"endpoint", "offer">>
                           \o (IF op = "open" THEN <<"stream">>
                               ELSE <<"teardown">>)
      [] kind = "file"  -> (IF op = "open" THEN <<"endpoint">>
                            ELSE <<"endpoint", "access">>) \o Media(op)
                           \o (IF op = "health" THEN <<"size">> ELSE <<>>)
      [] OTHER          -> <<>>

TypeOK ==
    /\ call \in [Caller -> [pc : {"idle", "talking", "held", "closing",
                                  "done"},
                            op : Op, kind : Kind, error : Error, met : Fault,
                            listed : BOOLEAN,
                            sample : [connectable : BOOLEAN,
                                      decodable : BOOLEAN,
                                      given : BOOLEAN]]]
    /\ stages \in [Caller -> Seq(Stage)]
    /\ child \in [Caller -> {"none", "running", "told"}]
    /\ session \in [Caller -> {"none", "open", "lost"}]

Init == /\ call = [i \in Caller |-> Idle]
        /\ stages = [i \in Caller |-> <<>>]
        /\ child = [i \in Caller |-> "none"]
        /\ session = [i \in Caller |-> "none"]

At(i, stage) == /\ call[i].pc = "talking"
                /\ stages[i] # <<>>
                /\ Head(stages[i]) = stage

(* ------------------------------------------------------- the answers -- *)

(* classifyFfmpegError: the deadline first, then the words of stderr, the  *)
(* ones that mean a dead path before the ones that mean credentials.       *)
Classified(killed, words) ==
    IF killed THEN "Timeout"
    ELSE IF "unreachable" \in words THEN "Unreachable"
    ELSE IF "auth" \in words THEN "Auth" ELSE "Decode"

(* health() of hls and rtsp calls everything connectable but an            *)
(* UnreachableError; whep, file and the discovery half of onvif call every *)
(* failure unconnectable; the nvr stub is never connectable.               *)
Connectable(kind, stage, error) ==
    /\ kind \in {"hls", "rtsp", "onvif"}
    /\ kind = "onvif" => stage \in {"header", "frames"}
    /\ error # "Unreachable"

Told(c, error, connectable, decodable) ==
    [c EXCEPT !.pc = "done",
              !.error = error,
              !.sample = IF c.op = "health"
                         THEN [connectable |-> connectable,
                               decodable |-> decodable, given |-> TRUE]
                         ELSE NoSample]

(* The stage goes wrong: probe and open throw, health reports.             *)
FailWith(i, error, fault) ==
    LET c == [call[i] EXCEPT !.met = IF @ = "none" THEN fault ELSE @]
    IN /\ call' = [call EXCEPT ![i] =
             Told(c, error,
                  Connectable(c.kind, Head(stages[i]), error), FALSE)]
       /\ stages' = [stages EXCEPT ![i] = <<>>]

(* The stage goes well; after the last one the capabilities are the answer.*)
Pass(i, c) ==
    LET left == Tail(stages[i])
    IN /\ stages' = [stages EXCEPT ![i] = left]
       /\ call' = [call EXCEPT ![i] =
             IF left = <<>> THEN Told(c, "none", TRUE, c.listed) ELSE c]

(* -------------------------------------------------------- the stages -- *)

Ask(i, op, kind) ==
    /\ call[i].pc = "idle"
    /\ LET c == [Idle EXCEPT !.pc = "talking", !.op = op, !.kind = kind]
       IN IF Unimplemented(kind)
          THEN /\ call' = [call EXCEPT ![i] =
                     Told(c, "NotImplemented", FALSE, FALSE)]
               /\ UNCHANGED stages
          ELSE /\ call' = [call EXCEPT ![i] = c]
               /\ stages' = [stages EXCEPT ![i] = Conversation(kind, op)]
    /\ UNCHANGED <<child, session>>

Endpoint(i) ==
    /\ At(i, "endpoint")
    /\ \/ Pass(i, call[i])
       \/ FailWith(i, "Unreachable", "missing")
    /\ UNCHANGED <<child, session>>

(* inspectPlaylist never throws: a playlist nobody answered for is left to *)
(* ffprobe, and any other status than 2xx is taken for a rejected cookie.  *)
Playlist(i) ==
    /\ At(i, "playlist")
    /\ \/ Pass(i, call[i])
       \/ Pass(i, [call[i] EXCEPT !.met = "silent"])
       \/ \E fault \in {"credentials", "refused"} : FailWith(i, "Auth", fault)
    /\ UNCHANGED <<child, session>>

(* The two SOAP requests of ONVIF discovery: every way not to get the      *)
(* answer is an UnreachableError.                                          *)
Discover(i) ==
    /\ At(i, "profiles") \/ At(i, "uri")
    /\ \/ Pass(i, call[i])
       \/ \E fault \in {"silent", "credentials", "refused", "missing"} :
             FailWith(i, "Unreachable", fault)
    /\ UNCHANGED <<child, session>>

Access(i) ==
    /\ At(i, "access")
    /\ \/ Pass(i, call[i])
       \/ FailWith(i, "Unreachable", "missing")
    /\ UNCHANGED <<child, session>>

(* negotiate: 201 with an SDP answer is a session; its URL is known only   *)
(* when a Location came with it.  A 201 that is not SDP, and an answer     *)
(* that came too late, leave a session whose URL nobody has.               *)
Offer(i) ==
    /\ At(i, "offer")
    /\ \/ \E state \in {"open", "lost"} :
             /\ session' = [session EXCEPT ![i] = state]
             /\ Pass(i, [call[i] EXCEPT !.listed = TRUE])
       \/ /\ session' = [session EXCEPT ![i] = "lost"]
          /\ \E fault \in {"unreadable", "silent"} :
                FailWith(i, "Unreachable", fault)
       \/ /\ UNCHANGED session
          /\ \E fault \in {"silent", "credentials", "refused"} :
                FailWith(i, "Unreachable", fault)
    /\ UNCHANGED child

(* Mutant: the session is left to expire.                                  *)
EndedByItself(s) == {s}

(* teardown: a DELETE, if there is a URL to send it to; one that fails is  *)
(* not surfaced.                                                           *)
Ended(s) == IF s = "open" THEN {"none", "lost"} ELSE {s}

Teardown(i) ==
    /\ At(i, "teardown")
    /\ \E s \in Ended(session[i]) : session' = [session EXCEPT ![i] = s]
    /\ Pass(i, call[i])
    /\ UNCHANGED child

(* run() for ffprobe and for the frame count: spawned, then closed.        *)
Spawn(i) ==
    /\ At(i, "header") \/ At(i, "frames")
    /\ child[i] = "none"
    /\ \/ /\ child' = [child EXCEPT ![i] = "running"]
          /\ UNCHANGED <<call, stages>>
       \/ /\ FailWith(i, "other", "unspawned")
          /\ UNCHANGED child
    /\ UNCHANGED session

Kill(i) ==
    /\ At(i, "header") \/ At(i, "frames")
    /\ child[i] = "running"
    /\ child' = [child EXCEPT ![i] = "told"]
    /\ UNCHANGED <<call, stages, session>>

(* What ffprobe printed decides; how the frame count ended does not.       *)
Header(i) ==
    /\ At(i, "header")
    /\ child[i] # "none"
    /\ child' = [child EXCEPT ![i] = "none"]
    /\ \/ /\ child[i] = "running"
          /\ \E listed \in BOOLEAN :
                Pass(i, [call[i] EXCEPT !.listed = listed])
       \/ \E words \in SUBSET {"unreachable", "auth"} :
             FailWith(i, Classified(child[i] = "told", words),
                      IF child[i] = "told" THEN "slow" ELSE "unreadable")
    /\ UNCHANGED session

Frames(i) ==
    /\ At(i, "frames")
    /\ child[i] # "none"
    /\ child' = [child EXCEPT ![i] = "none"]
    /\ Pass(i, call[i])
    /\ UNCHANGED session

(* health() of a file: its size is asked after the probe.                  *)
Size(i) ==
    /\ At(i, "size")
    /\ \/ \E some \in BOOLEAN :
             /\ call' = [call EXCEPT ![i] =
                   Told(@, "none", some, call[i].listed)]
             /\ stages' = [stages EXCEPT ![i] = <<>>]
       \/ FailWith(i, "other", "missing")
    /\ UNCHANGED <<child, session>>

(* open() hands out a handle: a child that writes frames, or for WHEP the  *)
(* session only.                                                           *)
Open(i) ==
    /\ At(i, "stream")
    /\ call' = [call EXCEPT ![i].pc = "held"]
    /\ stages' = [stages EXCEPT ![i] = <<>>]
    /\ child' = [child EXCEPT ![i] =
                    IF call[i].kind = "whep" THEN "none" ELSE "running"]
    /\ UNCHANGED session

(* A stream of frames ends by itself, or because it was told to.           *)
Exit(i) ==
    /\ call[i].pc \in {"held", "closing"}
    /\ child[i] # "none"
    /\ child' = [child EXCEPT ![i] = "none"]
    /\ UNCHANGED <<call, stages, session>>

Close(i) ==
    /\ call[i].pc = "held"
    /\ call' = [call EXCEPT ![i].pc = "closing"]
    /\ child' = [child EXCEPT ![i] = IF @ = "running" THEN "told" ELSE @]
    /\ UNCHANGED <<stages, session>>

(* close() resolves when the process is gone, or the DELETE answered.      *)
Gone(i) == child[i] = "none"

Closed(i) ==
    /\ call[i].pc = "closing"
    /\ Gone(i)
    /\ call' = [call EXCEPT ![i].pc = "done"]
    /\ \E s \in Ended(session[i]) : session' = [session EXCEPT ![i] = s]
    /\ UNCHANGED <<stages, child>>

Converse(i) ==
    \/ Endpoint(i) \/ Playlist(i) \/ Discover(i) \/ Access(i) \/ Offer(i)
    \/ Teardown(i) \/ Spawn(i) \/ Kill(i) \/ Header(i) \/ Frames(i)
    \/ Size(i) \/ Open(i)

Next == \E i \in Caller :
            \/ \E op \in Op, kind \in Kind : Ask(i, op, kind)
            \/ Converse(i)
            \/ Exit(i) \/ Close(i) \/ Closed(i)

Spec == Init /\ [][Next]_vars

-----------------------------------------------------------------------------
(* A call that has been answered leaves nothing behind it that it could    *)
(* have ended: no ffmpeg is running for it, and no WHEP session whose URL  *)
(* it was given is open, unless the gateway failed the DELETE.  However    *)
(* the conversation ended, and for an opened stream once it is closed.     *)
NothingIsLeftOpen ==
    \A i \in Caller : call[i].pc = "done" =>
        /\ child[i] = "none"
        /\ session[i] # "open"

(* A slow gateway is not a dead camera and not a broken stream: when a     *)
(* child was killed at its deadline, the health sample of the networked    *)
(* transports still says connectable and names the timeout, whatever the   *)
(* child had written before (TimeoutError's reason to exist).              *)
SlowIsNotDead ==
    \A i \in Caller :
        /\ call[i].met = "slow"
        /\ call[i].kind \in {"hls", "rtsp", "onvif"}
        /\ call[i].sample.given
        => call[i].sample.connectable /\ call[i].error = "Timeout"

(* A probe ends what it began, and does not take slow for dead.            *)
ProbesAreHonest == TypeOK /\ NothingIsLeftOpen /\ SlowIsNotDead
=============================================================================
