---------------------------- MODULE WorkerProofs ----------------------------
(***************************************************************************)
(* Proofs about what turns streams into rows: the camera adapters, the run *)
(* of the analytics worker, the capture of one camera and the scrapes of   *)
(* the metrics, each for any number of actors and any bounds.              *)
(*                                                                         *)
(* The arguments.  Adapters: a child runs and a session is open only at    *)
(* the stages that end them, so a conversation cannot finish without them. *)
(* Run: every counter of a thread is one ahead of the sink while a frame   *)
(* is on its way, and the sums over the threads move with it.  Scrapes: a  *)
(* reading is never older than its stamp, and while nothing spoilt it the  *)
(* request under way is alone.  Capture: a waiting buffer is not ready and *)
(* its plates are of the session whose numbers its track is one of; what   *)
(* was seen is held or flushed.                                            *)
(***************************************************************************)
EXTENDS MCWorker, SetLemmas, SequenceTheorems

-----------------------------------------------------------------------------
(* The adapters.                                                           *)

AClosing == {"teardown", "stream"}

(* What a conversation still ahead looks like: an offer is followed by the *)
(* stage that gives the session away or ends it.                           *)
Ahead(s) == \A k \in 1..Len(s) : s[k] = "offer" => k < Len(s) /\ s[k + 1] \in AClosing

CallType == [pc : {"idle", "talking", "held", "closing", "done"}, op : Adapters!Op, kind : Adapters!Kind,
             error : Adapters!Error, met : Adapters!Fault, listed : BOOLEAN,
             sample : [connectable : BOOLEAN, decodable : BOOLEAN, given : BOOLEAN]]

(* A call c whose stages s are ahead, with its child and its session: a    *)
(* child runs only under a stage that spawned it, a session is open only   *)
(* when the next stage ends it or hands it out, and the answer of a call   *)
(* that met a slow gateway says so.                                        *)
Proper(c, s, ch, se) ==
    /\ c \in CallType /\ s \in Seq(Adapters!Stage)
    /\ ch \in {"none", "running", "told"} /\ se \in {"none", "open", "lost"}
    /\ Ahead(s)
    /\ c.pc = "talking" <=> s # <<>>
    /\ c.pc # "done" => c.met # "slow" /\ ~ c.sample.given
    /\ c.pc \notin {"held", "closing"} /\ ch # "none" => c.pc = "talking" /\ Head(s) \in {"header", "frames"}
    /\ c.pc \notin {"held", "closing"} /\ se = "open" => c.pc = "talking" /\ Head(s) \in AClosing
    /\ c.met = "slow" /\ c.kind \in {"hls", "rtsp", "onvif"} /\ c.sample.given =>
          c.sample.connectable /\ c.error = "Timeout"

AdapterInv ==
    /\ Adapters!TypeOK
    /\ \A i \in Callers : Proper(adapter_call[i], adapter_stages[i], adapter_child[i], adapter_session[i])

NoOffer(s) == \A k \in 1..Len(s) : s[k] # "offer"

LEMMA Joining ==
    ASSUME NEW s \in Seq(Adapters!Stage), NEW t \in Seq(Adapters!Stage),
           Len(s) >= 1, s[1] = "endpoint", \A k \in 1..Len(s) - 1 : s[k] # "offer", NoOffer(t),
           s[Len(s)] = "offer" => Len(t) >= 1 /\ t[1] \in AClosing
    PROVE  /\ s \o t \in Seq(Adapters!Stage) /\ s \o t # <<>> /\ Len(s \o t) >= 1
           /\ (s \o t)[1] = "endpoint" /\ Head(s \o t) = "endpoint" /\ Ahead(s \o t)
           /\ NoOffer(s) => NoOffer(s \o t)
<1>1. /\ s \o t \in Seq(Adapters!Stage) /\ Len(s \o t) = Len(s) + Len(t)
      /\ \A k \in 1..Len(s) + Len(t) : (s \o t)[k] = IF k <= Len(s) THEN s[k] ELSE t[k - Len(s)]
  BY ConcatProperties
<1>2. Len(s) \in Nat /\ Len(t) \in Nat
  BY LenProperties
<1> DEFINE u == s \o t
<1>3. Len(u) \in Nat /\ Len(u) >= 1 /\ u[1] = "endpoint"
  BY <1>1, <1>2
<1>4. u # <<>> /\ Head(u) = "endpoint"
  BY <1>1, <1>3
<1>5. ASSUME NEW k \in 1..Len(u), u[k] = "offer"
      PROVE  k = Len(s)
  BY <1>1, <1>2, <1>5 DEF NoOffer
<1>6. Ahead(u)
  <2> SUFFICES ASSUME NEW k \in 1..Len(u), u[k] = "offer" PROVE k < Len(u) /\ u[k + 1] \in AClosing
    BY DEF Ahead
  <2>1. k = Len(s) /\ s[Len(s)] = "offer"
    BY <1>1, <1>2, <1>5
  <2> QED  BY <2>1, <1>1, <1>2
<1>7. NoOffer(s) => NoOffer(u)
  BY <1>1, <1>2 DEF NoOffer
<1> QED  BY <1>1, <1>3, <1>4, <1>6, <1>7

LEMMA Conversations ==
    ASSUME NEW kind \in Adapters!Kind, NEW op \in Adapters!Op, ~ Adapters!Unimplemented(kind)
    PROVE  LET s == Adapters!Conversation(kind, op)
           IN  s \in Seq(Adapters!Stage) /\ s # <<>> /\ Ahead(s) /\ Head(s) = "endpoint"
<1> DEFINE Piece(s) == s \in Seq(Adapters!Stage) /\ Len(s) >= 1 /\ s[1] = "endpoint" /\ NoOffer(s)
<1>1. Adapters!Media(op) \in Seq(Adapters!Stage) /\ NoOffer(Adapters!Media(op))
  <2>1. <<"stream">> \in Seq(Adapters!Stage) /\ NoOffer(<<"stream">>)
    BY DEF Adapters!Stage, NoOffer
  <2>2. <<"header", "frames">> \in Seq(Adapters!Stage) /\ NoOffer(<<"header", "frames">>)
    BY DEF Adapters!Stage, NoOffer
  <2> QED  BY <2>1, <2>2 DEF Adapters!Media
<1>2. /\ Piece(<<"endpoint">>) /\ Piece(<<"endpoint", "playlist">>) /\ Piece(<<"endpoint", "profiles", "uri">>)
      /\ Piece(<<"endpoint", "access">>)
  BY DEF Adapters!Stage, NoOffer
<1>3. \A s : Piece(s) => s[Len(s)] # "offer" /\ \A k \in 1..Len(s) - 1 : s[k] # "offer"
  BY DEF NoOffer
<1>4. ASSUME NEW s, Piece(s), NEW t \in Seq(Adapters!Stage), NoOffer(t)
      PROVE  Piece(s \o t) /\ s \o t # <<>> /\ Ahead(s \o t) /\ Head(s \o t) = "endpoint"
  BY <1>3, <1>4, Joining
<1> HIDE DEF Piece
<1>5. CASE kind \in {"hls", "rtsp", "onvif"}
  BY <1>1, <1>2, <1>4, <1>5 DEF Adapters!Conversation, Piece
<1>6. CASE kind = "whep"
  <2> DEFINE front == <<"endpoint", "offer">>
             Whole(s) == s \in Seq(Adapters!Stage) /\ s # <<>> /\ Ahead(s) /\ Head(s) = "endpoint"
  <2>1. front \in Seq(Adapters!Stage) /\ Len(front) = 2 /\ front[1] = "endpoint"
    BY DEF Adapters!Stage
  <2>2. Adapters!Conversation(kind, op) = IF op = "open" THEN front \o <<"stream">> ELSE front \o <<"teardown">>
    BY <1>6 DEF Adapters!Conversation
  <2>3. ASSUME NEW last \in AClosing
        PROVE  Whole(front \o <<last>>)
    <3> DEFINE t == <<last>>
    <3>1. t \in Seq(Adapters!Stage) /\ Len(t) = 1 /\ t[1] = last /\ NoOffer(t)
      BY DEF Adapters!Stage, NoOffer, AClosing
    <3> HIDE DEF front, t
    <3>2. \A k \in 1..Len(front) - 1 : front[k] # "offer"
      BY <2>1
    <3>3. Len(front) >= 1 /\ Len(t) >= 1 /\ t[1] \in AClosing /\ front \in Seq(Adapters!Stage)
      BY <2>1, <3>1
    <3> HIDE DEF Whole
    <3>4. /\ front \o t \in Seq(Adapters!Stage) /\ front \o t # <<>> /\ Len(front \o t) >= 1
          /\ (front \o t)[1] = "endpoint" /\ Head(front \o t) = "endpoint" /\ Ahead(front \o t)
      BY <2>1, <3>1, <3>2, <3>3, Joining
    <3>5. Whole(front \o t)
      BY <3>4 DEF Whole
    <3> QED  BY <3>5 DEF t
  <2> HIDE DEF front
  <2> QED  BY <2>2, <2>3 DEF AClosing
<1>7. CASE kind = "file"
  <2> DEFINE front == IF op = "open" THEN <<"endpoint">> ELSE <<"endpoint", "access">>
             last == IF op = "health" THEN <<"size">> ELSE <<>>
  <2>1. last \in Seq(Adapters!Stage) /\ NoOffer(last)
    <3>1. <<"size">> \in Seq(Adapters!Stage) /\ NoOffer(<<"size">>)
      BY DEF Adapters!Stage, NoOffer
    <3>2. <<>> \in Seq(Adapters!Stage) /\ NoOffer(<<>>)
      BY DEF Adapters!Stage, NoOffer
    <3> QED  BY <3>1, <3>2
  <2>2. Piece(front)
    BY <1>2
  <2> HIDE DEF front, last
  <2>3. Piece(front \o Adapters!Media(op))
    BY <1>1, <1>4, <2>2
  <2>4. /\ (front \o Adapters!Media(op)) \o last # <<>> /\ Ahead((front \o Adapters!Media(op)) \o last)
        /\ Head((front \o Adapters!Media(op)) \o last) = "endpoint"
        /\ Piece((front \o Adapters!Media(op)) \o last)
    BY <1>4, <2>1, <2>3
  <2>5. Adapters!Conversation(kind, op) = (front \o Adapters!Media(op)) \o last
    BY <1>7 DEF Adapters!Conversation, front, last
  <2> QED  BY <2>4, <2>5 DEF Piece
<1> QED  BY <1>5, <1>6, <1>7 DEF Adapters!Kind, Adapters!Unimplemented

LEMMA AdapterParts ==
    ASSUME AdapterInv
    PROVE  Adapters!ProbesAreHonest
  BY DEF AdapterInv, Proper, Adapters!ProbesAreHonest, Adapters!NothingIsLeftOpen, Adapters!SlowIsNotDead

LEMMA AdapterInit == Adapters!Init => AdapterInv
<1> SUFFICES ASSUME Adapters!Init PROVE AdapterInv
  OBVIOUS
<1>1. Adapters!Idle \in CallType /\ Adapters!Idle.pc = "idle" /\ Adapters!Idle.met = "none" /\ ~ Adapters!Idle.sample.given
  BY DEF Adapters!Idle, CallType, Adapters!NoSample, Adapters!Op, Adapters!Kind, Adapters!Error, Adapters!Fault
<1>2. <<>> \in Seq(Adapters!Stage) /\ Len(<<>>) = 0
  OBVIOUS
<1>3. Ahead(<<>>)
  BY <1>2 DEF Ahead
<1>4. Adapters!TypeOK
  BY <1>1, <1>2 DEF Adapters!Init, Adapters!TypeOK, CallType
<1>5. \A i \in Callers : Proper(adapter_call[i], adapter_stages[i], adapter_child[i], adapter_session[i])
  BY <1>1, <1>2, <1>3 DEF Adapters!Init, Proper
<1> QED  BY <1>4, <1>5 DEF AdapterInv

(* A step of one call leaves the others alone.                             *)
LEMMA OneCall ==
    ASSUME AdapterInv, NEW i \in Callers, NEW c, NEW s, NEW ch, NEW se, Proper(c, s, ch, se),
           adapter_call' = [adapter_call EXCEPT ![i] = c],
           adapter_stages' = [adapter_stages EXCEPT ![i] = s],
           adapter_child' = [adapter_child EXCEPT ![i] = ch],
           adapter_session' = [adapter_session EXCEPT ![i] = se]
    PROVE  AdapterInv'
<1>1. /\ adapter_call \in [Callers -> CallType] /\ adapter_stages \in [Callers -> Seq(Adapters!Stage)]
      /\ adapter_child \in [Callers -> {"none", "running", "told"}]
      /\ adapter_session \in [Callers -> {"none", "open", "lost"}]
  BY DEF AdapterInv, Adapters!TypeOK, CallType
<1>2. c \in CallType /\ s \in Seq(Adapters!Stage) /\ ch \in {"none", "running", "told"} /\ se \in {"none", "open", "lost"}
  BY DEF Proper
<1>3. /\ adapter_call' \in [Callers -> CallType] /\ adapter_stages' \in [Callers -> Seq(Adapters!Stage)]
      /\ adapter_child' \in [Callers -> {"none", "running", "told"}]
      /\ adapter_session' \in [Callers -> {"none", "open", "lost"}]
  BY <1>1, <1>2
<1>4. Adapters!TypeOK'
  BY <1>3 DEF Adapters!TypeOK, CallType
<1>5. ASSUME NEW j \in Callers
      PROVE  Proper(adapter_call'[j], adapter_stages'[j], adapter_child'[j], adapter_session'[j])
  <2>1. CASE j = i
    BY <1>1, <2>1
  <2>2. CASE j # i
    <3>1. /\ adapter_call'[j] = adapter_call[j] /\ adapter_stages'[j] = adapter_stages[j]
          /\ adapter_child'[j] = adapter_child[j] /\ adapter_session'[j] = adapter_session[j]
      BY <1>1, <2>2
    <3>2. Proper(adapter_call[j], adapter_stages[j], adapter_child[j], adapter_session[j])
      BY DEF AdapterInv
    <3> QED  BY <3>1, <3>2
  <2> QED  BY <2>1, <2>2
<1> QED  BY <1>4, <1>5 DEF AdapterInv

LEMMA Kept ==
    ASSUME AdapterInv, NEW i \in Callers
    PROVE  /\ adapter_call = [adapter_call EXCEPT ![i] = adapter_call[i]]
           /\ adapter_stages = [adapter_stages EXCEPT ![i] = adapter_stages[i]]
           /\ adapter_child = [adapter_child EXCEPT ![i] = adapter_child[i]]
           /\ adapter_session = [adapter_session EXCEPT ![i] = adapter_session[i]]
           /\ Proper(adapter_call[i], adapter_stages[i], adapter_child[i], adapter_session[i])
  BY DEF AdapterInv, Adapters!TypeOK

LEMMA ToldIs ==
    ASSUME NEW c \in CallType, NEW error \in Adapters!Error, NEW x \in BOOLEAN, NEW y \in BOOLEAN
    PROVE  /\ Adapters!Told(c, error, x, y) \in CallType
           /\ Adapters!Told(c, error, x, y).pc = "done"
           /\ Adapters!Told(c, error, x, y).error = error
           /\ Adapters!Told(c, error, x, y).met = c.met
           /\ Adapters!Told(c, error, x, y).kind = c.kind
           /\ Adapters!Told(c, error, x, y).sample.given => Adapters!Told(c, error, x, y).sample.connectable = x
<1> DEFINE sample == IF c.op = "health" THEN [connectable |-> x, decodable |-> y, given |-> TRUE] ELSE Adapters!NoSample
           d == [c EXCEPT !.pc = "done", !.error = error, !.sample = sample]
<1>1. sample \in [connectable : BOOLEAN, decodable : BOOLEAN, given : BOOLEAN] /\ (sample.given => sample.connectable = x)
  BY DEF Adapters!NoSample
<1> HIDE DEF sample
<1>2. d \in CallType /\ d.pc = "done" /\ d.error = error /\ d.met = c.met /\ d.kind = c.kind /\ d.sample = sample
  BY <1>1 DEF CallType
<1> QED  BY <1>1, <1>2 DEF Adapters!Told, sample

(* A stage that goes wrong ends the call; only a child told to stop makes  *)
(* it slow.                                                                *)
LEMMA Failing ==
    ASSUME AdapterInv, NEW i \in Callers, adapter_stages[i] # <<>>,
           NEW error \in Adapters!Error, NEW fault \in Adapters!Fault,
           fault = "slow" => error = "Timeout" /\ Head(adapter_stages[i]) \in {"header", "frames"},
           Adapters!FailWith(i, error, fault),
           adapter_child' = [adapter_child EXCEPT ![i] = "none"],
           NEW se \in {"none", "lost"}, adapter_session' = [adapter_session EXCEPT ![i] = se]
    PROVE  AdapterInv'
<1>1. Proper(adapter_call[i], adapter_stages[i], adapter_child[i], adapter_session[i])
  BY Kept
<1> DEFINE s == adapter_stages[i]
           c == [adapter_call[i] EXCEPT !.met = IF @ = "none" THEN fault ELSE @]
           x == Adapters!Connectable(c.kind, Head(s), error)
           d == Adapters!Told(c, error, x, FALSE)
<1>2. adapter_call[i] \in CallType /\ adapter_call[i].pc = "talking" /\ adapter_call[i].met # "slow" /\ ~ adapter_call[i].sample.given
  BY <1>1 DEF Proper
<1>3. /\ c \in CallType /\ c.kind = adapter_call[i].kind
      /\ c.met = "slow" => fault = "slow"
  BY <1>2 DEF CallType
<1>4. x \in BOOLEAN /\ (error = "Timeout" /\ Head(s) \in {"header", "frames"} /\ c.kind \in {"hls", "rtsp", "onvif"} => x)
  BY DEF Adapters!Connectable
<1>5. /\ adapter_call' = [adapter_call EXCEPT ![i] = d] /\ adapter_stages' = [adapter_stages EXCEPT ![i] = <<>>]
  BY DEF Adapters!FailWith
<1> HIDE DEF c, x
<1>0. ASSUME NEW e \in BOOLEAN, NEW f \in BOOLEAN
      PROVE  /\ Adapters!Told(c, error, e, f) \in CallType /\ Adapters!Told(c, error, e, f).pc = "done"
             /\ Adapters!Told(c, error, e, f).error = error /\ Adapters!Told(c, error, e, f).met = c.met
             /\ Adapters!Told(c, error, e, f).kind = c.kind
             /\ Adapters!Told(c, error, e, f).sample.given => Adapters!Told(c, error, e, f).sample.connectable = e
  BY <1>3, ToldIs
<1>6. /\ d \in CallType /\ d.pc = "done" /\ d.error = error /\ d.met = c.met /\ d.kind = c.kind
      /\ d.sample.given => d.sample.connectable = x
  BY <1>0, <1>4
<1> HIDE DEF d
<1>7. <<>> \in Seq(Adapters!Stage) /\ Ahead(<<>>)
  BY DEF Ahead
<1>8. Proper(d, <<>>, "none", se)
  BY <1>3, <1>4, <1>6, <1>7 DEF Proper
<1> QED  BY <1>5, <1>8, OneCall

LEMMA AheadTail ==
    ASSUME NEW s \in Seq(Adapters!Stage), s # <<>>, Ahead(s)
    PROVE  /\ Tail(s) \in Seq(Adapters!Stage) /\ Ahead(Tail(s))
           /\ Head(s) = "offer" => Tail(s) # <<>> /\ Head(Tail(s)) \in AClosing
<1>1. /\ Len(s) \in Nat \ {0} /\ Tail(s) \in Seq(Adapters!Stage) /\ Len(Tail(s)) = Len(s) - 1
      /\ \A k \in 1..Len(s) - 1 : Tail(s)[k] = s[k + 1]
      /\ Head(s) = s[1]
  OBVIOUS
<1>2. Ahead(Tail(s))
  BY <1>1 DEF Ahead
<1>3. ASSUME Head(s) = "offer" PROVE Tail(s) # <<>> /\ Head(Tail(s)) \in AClosing
  <2>1. 1 < Len(s) /\ s[2] \in AClosing
    BY <1>1, <1>3 DEF Ahead
  <2>2. Tail(s)[1] = s[2] /\ Len(Tail(s)) \in Nat \ {0}
    BY <1>1, <2>1
  <2>3. \A t \in Seq(Adapters!Stage) : Len(t) \in Nat \ {0} => t # <<>> /\ Head(t) = t[1]
    OBVIOUS
  <2> QED  BY <1>1, <2>1, <2>2, <2>3
<1> QED  BY <1>1, <1>2, <1>3

(* A stage that goes well leaves no child; a session is open after it only *)
(* when the next stage knows of it.                                        *)
LEMMA Passing ==
    ASSUME AdapterInv, NEW i \in Callers, adapter_stages[i] # <<>>,
           NEW c \in CallType, c.pc = "talking", c.met # "slow", ~ c.sample.given,
           Adapters!Pass(i, c),
           adapter_child' = [adapter_child EXCEPT ![i] = "none"],
           NEW se \in {"none", "open", "lost"}, adapter_session' = [adapter_session EXCEPT ![i] = se],
           se = "open" => Head(adapter_stages[i]) = "offer"
    PROVE  AdapterInv'
<1>1. Proper(adapter_call[i], adapter_stages[i], adapter_child[i], adapter_session[i])
  BY Kept
<1> DEFINE s == adapter_stages[i]
           left == Tail(s)
           told == Adapters!Told(c, "none", TRUE, c.listed)
           d == IF left = <<>> THEN told ELSE c
<1>2. s \in Seq(Adapters!Stage) /\ Ahead(s)
  BY <1>1 DEF Proper
<1>3. /\ left \in Seq(Adapters!Stage) /\ Ahead(left)
      /\ se = "open" => left # <<>> /\ Head(left) \in AClosing
  BY <1>2, AheadTail
<1>4. adapter_call' = [adapter_call EXCEPT ![i] = d] /\ adapter_stages' = [adapter_stages EXCEPT ![i] = left]
  BY DEF Adapters!Pass
<1>5. /\ told \in CallType /\ told.pc = "done" /\ told.met = c.met
  <2>1. "none" \in Adapters!Error /\ c.listed \in BOOLEAN
    BY DEF Adapters!Error, CallType
  <2>2. ASSUME NEW x \in BOOLEAN, NEW y \in BOOLEAN
        PROVE  LET e == Adapters!Told(c, "none", x, y) IN e \in CallType /\ e.pc = "done" /\ e.met = c.met
    BY <2>1, ToldIs
  <2> QED  BY <2>1, <2>2
<1> HIDE DEF told, left
<1>6. Proper(d, left, "none", se)
  BY <1>3, <1>5 DEF Proper
<1> QED  BY <1>4, <1>6, OneCall

LEMMA AdapterStep == AdapterInv /\ [Adapters!Next]_adapterVars => AdapterInv'
<1> SUFFICES ASSUME AdapterInv, [Adapters!Next]_adapterVars PROVE AdapterInv'
  OBVIOUS
<1>1. CASE UNCHANGED adapterVars
  BY <1>1 DEF AdapterInv, adapterVars, Proper, Adapters!TypeOK
<1>2. CASE Adapters!Next
  <2>1. PICK i \in Callers :
          \/ \E op \in Adapters!Op, kind \in Adapters!Kind : Adapters!Ask(i, op, kind)
          \/ Adapters!Converse(i) \/ Adapters!Exit(i) \/ Adapters!Close(i) \/ Adapters!Closed(i)
    BY <1>2 DEF Adapters!Next
  <2> DEFINE c == adapter_call[i]
             s == adapter_stages[i]
             ch == adapter_child[i]
             se == adapter_session[i]
  <2>2. /\ Proper(c, s, ch, se)
        /\ adapter_call = [adapter_call EXCEPT ![i] = c] /\ adapter_stages = [adapter_stages EXCEPT ![i] = s]
        /\ adapter_child = [adapter_child EXCEPT ![i] = ch] /\ adapter_session = [adapter_session EXCEPT ![i] = se]
    BY Kept
  <2>3. c \in CallType /\ se \in {"none", "open", "lost"} /\ ch \in {"none", "running", "told"}
    BY <2>2 DEF Proper
  (* At a stage that has no child and does not follow an offer. *)
  <2>4. ASSUME NEW stage, Adapters!At(i, stage)
        PROVE  /\ c.pc = "talking" /\ s # <<>> /\ Head(s) = stage /\ c.met # "slow" /\ ~ c.sample.given
               /\ stage \notin {"header", "frames"} => ch = "none"
               /\ stage \notin AClosing => se \in {"none", "lost"}
    BY <2>2, <2>4 DEF Adapters!At, Proper
  <2>5. CASE \E op \in Adapters!Op, kind \in Adapters!Kind : Adapters!Ask(i, op, kind)
    <3>1. PICK op \in Adapters!Op, kind \in Adapters!Kind : Adapters!Ask(i, op, kind)
      BY <2>5
    <3> DEFINE new == [Adapters!Idle EXCEPT !.pc = "talking", !.op = op, !.kind = kind]
    <3>2. /\ new \in CallType /\ new.pc = "talking" /\ new.met = "none" /\ ~ new.sample.given
      BY DEF Adapters!Idle, CallType, Adapters!NoSample, Adapters!Error, Adapters!Fault
    <3>3. c.pc = "idle" /\ ch = "none" /\ se \in {"none", "lost"} /\ s = <<>>
      BY <2>2, <3>1 DEF Adapters!Ask, Proper
    <3>4. CASE Adapters!Unimplemented(kind)
      <4> DEFINE d == Adapters!Told(new, "NotImplemented", FALSE, FALSE)
      <4>1. d \in CallType /\ d.pc = "done" /\ d.met = "none"
        <5>1. "NotImplemented" \in Adapters!Error
          BY DEF Adapters!Error
        <5> HIDE DEF new
        <5> QED  BY <3>2, <5>1, ToldIs
      <4>2. adapter_call' = [adapter_call EXCEPT ![i] = d] /\ UNCHANGED <<adapter_stages, adapter_child, adapter_session>>
        BY <3>1, <3>4 DEF Adapters!Ask
      <4> HIDE DEF d
      <4>3. Proper(d, s, ch, se)
        BY <2>2, <3>3, <4>1 DEF Proper
      <4>4. /\ adapter_stages' = [adapter_stages EXCEPT ![i] = s] /\ adapter_child' = [adapter_child EXCEPT ![i] = ch]
            /\ adapter_session' = [adapter_session EXCEPT ![i] = se]
        BY <2>2, <4>2
      <4> HIDE DEF c, s, ch, se
      <4> QED  BY <4>2, <4>3, <4>4, OneCall
    <3>5. CASE ~ Adapters!Unimplemented(kind)
      <4> DEFINE conversation == Adapters!Conversation(kind, op)
      <4>1. /\ adapter_call' = [adapter_call EXCEPT ![i] = new]
            /\ adapter_stages' = [adapter_stages EXCEPT ![i] = conversation]
            /\ UNCHANGED <<adapter_child, adapter_session>>
        BY <3>1, <3>5 DEF Adapters!Ask
      <4>2. conversation \in Seq(Adapters!Stage) /\ conversation # <<>> /\ Ahead(conversation)
        BY <3>5, Conversations
      <4> HIDE DEF new, conversation
      <4>3. Proper(new, conversation, ch, se)
        BY <2>2, <3>2, <3>3, <4>2 DEF Proper
      <4> QED  BY <2>2, <4>1, <4>3, OneCall
    <3> QED  BY <3>4, <3>5
  <2> HIDE DEF c, s, ch, se
  <2>6. CASE Adapters!Endpoint(i) \/ Adapters!Access(i) \/ Adapters!Discover(i)
    <3>1. PICK stage \in {"endpoint", "access", "profiles", "uri"} : Adapters!At(i, stage)
      BY <2>6 DEF Adapters!Endpoint, Adapters!Access, Adapters!Discover
    <3>2. /\ \/ Adapters!Pass(i, c)
             \/ \E fault \in {"silent", "credentials", "refused", "missing"} : Adapters!FailWith(i, "Unreachable", fault)
          /\ UNCHANGED <<adapter_child, adapter_session>>
      BY <2>6 DEF Adapters!Endpoint, Adapters!Access, Adapters!Discover, c
    <3>3. ch = "none" /\ se \in {"none", "lost"} /\ s # <<>> /\ c.pc = "talking" /\ c.met # "slow" /\ ~ c.sample.given
      BY <2>4, <3>1 DEF AClosing
    <3>4. "Unreachable" \in Adapters!Error /\ {"silent", "credentials", "refused", "missing"} \subseteq Adapters!Fault
      BY DEF Adapters!Error, Adapters!Fault
    <3>5. adapter_child' = [adapter_child EXCEPT ![i] = "none"] /\ adapter_session' = [adapter_session EXCEPT ![i] = se]
      BY <2>2, <3>2, <3>3
    <3>6. CASE Adapters!Pass(i, c)
      BY <2>3, <3>3, <3>5, <3>6, Passing DEF s
    <3>7. CASE \E fault \in {"silent", "credentials", "refused", "missing"} : Adapters!FailWith(i, "Unreachable", fault)
      <4>1. PICK fault \in {"silent", "credentials", "refused", "missing"} : Adapters!FailWith(i, "Unreachable", fault)
        BY <3>7
      <4> QED  BY <3>3, <3>4, <3>5, <4>1, Failing DEF s
    <3> QED  BY <3>2, <3>6, <3>7
  <2>7. CASE Adapters!Playlist(i)
    <3>1. Adapters!At(i, "playlist") /\ UNCHANGED <<adapter_child, adapter_session>>
      BY <2>7 DEF Adapters!Playlist
    <3>2. ch = "none" /\ se \in {"none", "lost"} /\ s # <<>> /\ c.pc = "talking" /\ c.met # "slow" /\ ~ c.sample.given
      BY <2>4, <3>1 DEF AClosing
    <3>3. adapter_child' = [adapter_child EXCEPT ![i] = "none"] /\ adapter_session' = [adapter_session EXCEPT ![i] = se]
      BY <2>2, <3>1, <3>2
    <3> DEFINE silent == [c EXCEPT !.met = "silent"]
    <3>4. silent \in CallType /\ silent.pc = "talking" /\ silent.met # "slow" /\ ~ silent.sample.given
      BY <2>3, <3>2 DEF CallType, Adapters!Fault
    <3>5. \/ Adapters!Pass(i, c) \/ Adapters!Pass(i, silent)
          \/ \E fault \in {"credentials", "refused"} : Adapters!FailWith(i, "Auth", fault)
      BY <2>7 DEF Adapters!Playlist, c
    <3> HIDE DEF silent
    <3>6. CASE Adapters!Pass(i, c)
      BY <2>3, <3>2, <3>3, <3>6, Passing DEF s
    <3>7. CASE Adapters!Pass(i, silent)
      BY <2>3, <3>2, <3>3, <3>4, <3>7, Passing DEF s
    <3>8. CASE \E fault \in {"credentials", "refused"} : Adapters!FailWith(i, "Auth", fault)
      <4>1. PICK fault \in {"credentials", "refused"} : Adapters!FailWith(i, "Auth", fault)
        BY <3>8
      <4>2. "Auth" \in Adapters!Error /\ fault \in Adapters!Fault
        BY DEF Adapters!Error, Adapters!Fault
      <4> QED  BY <3>2, <3>3, <4>1, <4>2, Failing DEF s
    <3> QED  BY <3>5, <3>6, <3>7, <3>8
  <2>8. CASE Adapters!Offer(i)
    <3>1. Adapters!At(i, "offer") /\ UNCHANGED adapter_child
      BY <2>8 DEF Adapters!Offer
    <3>2. /\ ch = "none" /\ se \in {"none", "lost"} /\ s # <<>> /\ c.pc = "talking" /\ c.met # "slow" /\ ~ c.sample.given
          /\ Head(s) = "offer"
      BY <2>4, <3>1 DEF AClosing
    <3>3. adapter_child' = [adapter_child EXCEPT ![i] = "none"]
      BY <2>2, <3>1, <3>2
    <3> DEFINE listed == [c EXCEPT !.listed = TRUE]
    <3>4. listed \in CallType /\ listed.pc = "talking" /\ listed.met # "slow" /\ ~ listed.sample.given
      BY <2>3, <3>2 DEF CallType
    <3>5. \/ \E state \in {"open", "lost"} :
               adapter_session' = [adapter_session EXCEPT ![i] = state] /\ Adapters!Pass(i, listed)
          \/ \E state \in {"none", "lost"}, fault \in {"unreadable", "silent", "credentials", "refused"} :
               adapter_session' = [adapter_session EXCEPT ![i] = state] /\ Adapters!FailWith(i, "Unreachable", fault)
      BY <2>2, <2>8, <3>2 DEF Adapters!Offer, c
    <3> HIDE DEF listed
    <3>6. CASE \E state \in {"open", "lost"} :
                 adapter_session' = [adapter_session EXCEPT ![i] = state] /\ Adapters!Pass(i, listed)
      BY <3>2, <3>3, <3>4, <3>6, Passing DEF s
    <3>7. CASE \E state \in {"none", "lost"}, fault \in {"unreadable", "silent", "credentials", "refused"} :
                 adapter_session' = [adapter_session EXCEPT ![i] = state] /\ Adapters!FailWith(i, "Unreachable", fault)
      <4>1. PICK state \in {"none", "lost"}, fault \in {"unreadable", "silent", "credentials", "refused"} :
              adapter_session' = [adapter_session EXCEPT ![i] = state] /\ Adapters!FailWith(i, "Unreachable", fault)
        BY <3>7
      <4>2. "Unreachable" \in Adapters!Error /\ fault \in Adapters!Fault
        BY DEF Adapters!Error, Adapters!Fault
      <4> QED  BY <3>2, <3>3, <4>1, <4>2, Failing DEF s
    <3> QED  BY <3>5, <3>6, <3>7
  <2>9. CASE Adapters!Teardown(i)
    <3>1. Adapters!At(i, "teardown") /\ UNCHANGED adapter_child /\ Adapters!Pass(i, c)
      BY <2>9 DEF Adapters!Teardown, c
    <3>2. ch = "none" /\ s # <<>> /\ c.pc = "talking" /\ c.met # "slow" /\ ~ c.sample.given
      BY <2>4, <3>1
    <3>3. PICK state \in Adapters!Ended(se) : adapter_session' = [adapter_session EXCEPT ![i] = state]
      BY <2>9 DEF Adapters!Teardown, se
    <3>4. state \in {"none", "lost"}
      BY <2>3, <3>3 DEF Adapters!Ended
    <3>5. adapter_child' = [adapter_child EXCEPT ![i] = "none"]
      BY <2>2, <3>1, <3>2
    <3> QED  BY <2>3, <3>1, <3>2, <3>3, <3>4, <3>5, Passing DEF s
  <2>10. CASE Adapters!Spawn(i) \/ Adapters!Kill(i)
    <3>1. (Adapters!At(i, "header") \/ Adapters!At(i, "frames")) /\ UNCHANGED adapter_session
      BY <2>10 DEF Adapters!Spawn, Adapters!Kill
    <3>2. /\ se \in {"none", "lost"} /\ s # <<>> /\ c.pc = "talking" /\ c.met # "slow" /\ ~ c.sample.given
          /\ Head(s) \in {"header", "frames"}
      BY <2>4, <3>1 DEF AClosing
    <3>3. adapter_session' = [adapter_session EXCEPT ![i] = se]
      BY <2>2, <3>1
    <3>4. CASE \E next \in {"running", "told"} :
                 adapter_child' = [adapter_child EXCEPT ![i] = next] /\ UNCHANGED <<adapter_call, adapter_stages>>
      <4>1. PICK next \in {"running", "told"} :
              adapter_child' = [adapter_child EXCEPT ![i] = next] /\ UNCHANGED <<adapter_call, adapter_stages>>
        BY <3>4
      <4>2. Proper(c, s, next, se)
        BY <2>2, <3>2 DEF Proper
      <4>3. adapter_call' = [adapter_call EXCEPT ![i] = c] /\ adapter_stages' = [adapter_stages EXCEPT ![i] = s]
        BY <2>2, <4>1
      <4> QED  BY <3>3, <4>1, <4>2, <4>3, OneCall
    <3>5. CASE ch = "none" /\ UNCHANGED adapter_child /\ Adapters!FailWith(i, "other", "unspawned")
      <4>1. "other" \in Adapters!Error /\ "unspawned" \in Adapters!Fault
        BY DEF Adapters!Error, Adapters!Fault
      <4>2. adapter_child' = [adapter_child EXCEPT ![i] = "none"]
        BY <2>2, <3>5
      <4> QED  BY <3>2, <3>3, <3>5, <4>1, <4>2, Failing DEF s
    <3> QED  BY <2>10, <3>4, <3>5 DEF Adapters!Spawn, Adapters!Kill, ch
  <2>11. CASE Adapters!Header(i) \/ Adapters!Frames(i)
    <3>1. /\ Adapters!At(i, "header") \/ Adapters!At(i, "frames")
          /\ adapter_child' = [adapter_child EXCEPT ![i] = "none"] /\ UNCHANGED adapter_session
      BY <2>11 DEF Adapters!Header, Adapters!Frames
    <3>2. /\ se \in {"none", "lost"} /\ s # <<>> /\ c.pc = "talking" /\ c.met # "slow" /\ ~ c.sample.given
          /\ Head(s) \in {"header", "frames"}
      BY <2>4, <3>1 DEF AClosing
    <3>3. adapter_session' = [adapter_session EXCEPT ![i] = se]
      BY <2>2, <3>1
    <3>4. CASE Adapters!Pass(i, c)
      BY <2>3, <3>1, <3>2, <3>3, <3>4, Passing DEF s
    <3>5. CASE \E listed \in BOOLEAN : Adapters!Pass(i, [c EXCEPT !.listed = listed])
      <4>1. PICK listed \in BOOLEAN : Adapters!Pass(i, [c EXCEPT !.listed = listed])
        BY <3>5
      <4> DEFINE d == [c EXCEPT !.listed = listed]
      <4>2. d \in CallType /\ d.pc = "talking" /\ d.met # "slow" /\ ~ d.sample.given
        BY <2>3, <3>2 DEF CallType
      <4>3. Adapters!Pass(i, d)
        BY <4>1
      <4> HIDE DEF d
      <4> QED  BY <3>1, <3>2, <3>3, <4>2, <4>3, Passing DEF s
    <3>6. CASE \E words : Adapters!FailWith(i, Adapters!Classified(ch = "told", words), IF ch = "told" THEN "slow" ELSE "unreadable")
      <4>1. PICK words : Adapters!FailWith(i, Adapters!Classified(ch = "told", words), IF ch = "told" THEN "slow" ELSE "unreadable")
        BY <3>6
      <4>2. PICK error \in Adapters!Error, fault \in {"slow", "unreadable"} :
              (fault = "slow" => error = "Timeout") /\ Adapters!FailWith(i, error, fault)
        <5>1. CASE ch = "told"
          BY <4>1, <5>1 DEF Adapters!Classified, Adapters!Error
        <5>2. CASE ch # "told"
          BY <4>1, <5>2 DEF Adapters!Classified, Adapters!Error
        <5> QED  BY <5>1, <5>2
      <4>3. fault \in Adapters!Fault
        BY DEF Adapters!Fault
      <4> QED  BY <3>1, <3>2, <3>3, <4>2, <4>3, Failing DEF s
    <3> QED  BY <2>11, <3>4, <3>5, <3>6 DEF Adapters!Header, Adapters!Frames, c, ch
  <2>12. CASE Adapters!Size(i)
    <3>1. Adapters!At(i, "size") /\ UNCHANGED <<adapter_child, adapter_session>>
      BY <2>12 DEF Adapters!Size
    <3>2. ch = "none" /\ se \in {"none", "lost"} /\ s # <<>> /\ c.pc = "talking" /\ c.met # "slow" /\ ~ c.sample.given
      BY <2>4, <3>1 DEF AClosing
    <3>3. adapter_child' = [adapter_child EXCEPT ![i] = "none"] /\ adapter_session' = [adapter_session EXCEPT ![i] = se]
      BY <2>2, <3>1, <3>2
    <3>4. CASE Adapters!FailWith(i, "other", "missing")
      <4>1. "other" \in Adapters!Error /\ "missing" \in Adapters!Fault
        BY DEF Adapters!Error, Adapters!Fault
      <4> QED  BY <3>2, <3>3, <3>4, <4>1, Failing DEF s
    <3>5. CASE \E some \in BOOLEAN :
                 /\ adapter_call' = [adapter_call EXCEPT ![i] = Adapters!Told(c, "none", some, c.listed)]
                 /\ adapter_stages' = [adapter_stages EXCEPT ![i] = <<>>]
      <4>1. PICK some \in BOOLEAN :
                 /\ adapter_call' = [adapter_call EXCEPT ![i] = Adapters!Told(c, "none", some, c.listed)]
                 /\ adapter_stages' = [adapter_stages EXCEPT ![i] = <<>>]
        BY <3>5
      <4> DEFINE d == Adapters!Told(c, "none", some, c.listed)
      <4>2. d \in CallType /\ d.pc = "done" /\ d.met = c.met
        <5>1. "none" \in Adapters!Error /\ c.listed \in BOOLEAN
          BY <2>3 DEF Adapters!Error, CallType
        <5>2. ASSUME NEW x \in BOOLEAN, NEW y \in BOOLEAN
              PROVE  LET e == Adapters!Told(c, "none", x, y) IN e \in CallType /\ e.pc = "done" /\ e.met = c.met
          BY <2>3, <5>1, ToldIs
        <5> QED  BY <5>1, <5>2
      <4>3. adapter_call' = [adapter_call EXCEPT ![i] = d]
        BY <4>1
      <4> HIDE DEF d
      <4>4. <<>> \in Seq(Adapters!Stage) /\ Ahead(<<>>)
        BY DEF Ahead
      <4>5. Proper(d, <<>>, "none", se)
        BY <3>2, <4>2, <4>4 DEF Proper
      <4> QED  BY <3>3, <4>1, <4>3, <4>5, OneCall
    <3> QED  BY <2>12, <2>2, <3>4, <3>5 DEF Adapters!Size, c
  <2>13. CASE Adapters!Open(i)
    <3>1. Adapters!At(i, "stream") /\ UNCHANGED adapter_session
      BY <2>13 DEF Adapters!Open
    <3> DEFINE d == [c EXCEPT !.pc = "held"]
               next == IF c.kind = "whep" THEN "none" ELSE "running"
    <3>2. c.met # "slow" /\ ~ c.sample.given
      BY <2>4, <3>1
    <3>3. d \in CallType /\ d.pc = "held" /\ d.met # "slow" /\ ~ d.sample.given
      BY <2>3, <3>2 DEF CallType
    <3>4. /\ adapter_call' = [adapter_call EXCEPT ![i] = d] /\ adapter_stages' = [adapter_stages EXCEPT ![i] = <<>>]
          /\ adapter_child' = [adapter_child EXCEPT ![i] = next]
      BY <2>13 DEF Adapters!Open, c
    <3>5. adapter_session' = [adapter_session EXCEPT ![i] = se]
      BY <2>2, <3>1
    <3>6. <<>> \in Seq(Adapters!Stage) /\ Ahead(<<>>)
      BY DEF Ahead
    <3> HIDE DEF d
    <3>7. Proper(d, <<>>, next, se)
      BY <2>3, <3>3, <3>6 DEF Proper
    <3> HIDE DEF next
    <3> QED  BY <3>4, <3>5, <3>7, OneCall
  <2>14. CASE Adapters!Exit(i)
    <3>1. /\ c.pc \in {"held", "closing"} /\ adapter_child' = [adapter_child EXCEPT ![i] = "none"]
          /\ UNCHANGED <<adapter_call, adapter_stages, adapter_session>>
      BY <2>14 DEF Adapters!Exit, c
    <3>2. Proper(c, s, "none", se)
      BY <2>2, <3>1 DEF Proper
    <3>3. /\ adapter_call' = [adapter_call EXCEPT ![i] = c] /\ adapter_stages' = [adapter_stages EXCEPT ![i] = s]
          /\ adapter_session' = [adapter_session EXCEPT ![i] = se]
      BY <2>2, <3>1
    <3> QED  BY <3>1, <3>2, <3>3, OneCall
  <2>15. CASE Adapters!Close(i)
    <3> DEFINE d == [c EXCEPT !.pc = "closing"]
               next == IF ch = "running" THEN "told" ELSE ch
    <3>1. /\ c.pc = "held" /\ adapter_call' = [adapter_call EXCEPT ![i] = d]
          /\ adapter_child' = [adapter_child EXCEPT ![i] = next] /\ UNCHANGED <<adapter_stages, adapter_session>>
      BY <2>2, <2>15 DEF Adapters!Close, c, ch
    <3>2. d \in CallType /\ d.pc = "closing" /\ d.met = c.met /\ d.sample = c.sample
      BY <2>3 DEF CallType
    <3> HIDE DEF d
    <3>3. Proper(d, s, next, se)
      BY <2>2, <2>3, <3>1, <3>2 DEF Proper
    <3>4. adapter_stages' = [adapter_stages EXCEPT ![i] = s] /\ adapter_session' = [adapter_session EXCEPT ![i] = se]
      BY <2>2, <3>1
    <3> HIDE DEF next
    <3> QED  BY <3>1, <3>3, <3>4, OneCall
  <2>16. CASE Adapters!Closed(i)
    <3> DEFINE d == [c EXCEPT !.pc = "done"]
    <3>1. /\ c.pc = "closing" /\ ch = "none" /\ adapter_call' = [adapter_call EXCEPT ![i] = d]
          /\ UNCHANGED <<adapter_stages, adapter_child>>
      BY <2>16 DEF Adapters!Closed, Adapters!Gone, c, ch
    <3>2. d \in CallType /\ d.pc = "done" /\ d.met = c.met /\ d.sample = c.sample
      BY <2>3 DEF CallType
    <3>3. PICK state \in Adapters!Ended(se) : adapter_session' = [adapter_session EXCEPT ![i] = state]
      BY <2>16 DEF Adapters!Closed, se
    <3>4. state \in {"none", "lost"}
      BY <2>3, <3>3 DEF Adapters!Ended
    <3> HIDE DEF d
    <3>5. Proper(d, s, ch, state)
      BY <2>2, <3>1, <3>2, <3>4 DEF Proper
    <3>6. adapter_stages' = [adapter_stages EXCEPT ![i] = s] /\ adapter_child' = [adapter_child EXCEPT ![i] = ch]
      BY <2>2, <3>1
    <3> QED  BY <3>1, <3>3, <3>5, <3>6, OneCall
  <2> QED  BY <2>1, <2>5, <2>6, <2>7, <2>8, <2>9, <2>10, <2>11, <2>12, <2>13, <2>14, <2>15, <2>16 DEF Adapters!Converse
<1> QED  BY <1>1, <1>2 DEF adapterVars

(* However the conversations of the callers are interleaved and whatever a *)
(* camera, a gateway or a child does, an answered call leaves no child and *)
(* no session it could have ended, and slow is never taken for dead        *)
(* (packages/api/src/adapters).                                            *)
THEOREM ProbesHold == WorkerSpec => []ProbesAreHonest
<1>1. WorkerInit => AdapterInv
  BY AdapterInit DEF WorkerInit
<1>2. AdapterInv /\ [WorkerNext]_workerVars => AdapterInv'
  <2> SUFFICES ASSUME AdapterInv, [WorkerNext]_workerVars PROVE AdapterInv'
    OBVIOUS
  <2>1. CASE UNCHANGED adapterVars
    BY <2>1, AdapterStep
  <2>2. CASE Adapters!Next
    BY <2>2, AdapterStep
  <2> QED  BY <2>1, <2>2 DEF WorkerNext, workerVars
<1>3. AdapterInv => ProbesAreHonest
  BY AdapterParts DEF ProbesAreHonest
<1> QED  BY <1>1, <1>2, <1>3, PTL DEF WorkerSpec

-----------------------------------------------------------------------------
(* The run of the worker.                                                  *)

Threads == Run!Camera

PcType == {"queued", "top", "opening", "gated", "decode", "drain", "publish", "waiting", "ended"}
ThreadType == [pc : PcType, limit : BOOLEAN, announced : BOOLEAN, open : BOOLEAN]
StatsType == [tries : Nat, frames : Nat, sightings : Nat, reads : Nat, crops : Nat,
              reconnects : Nat, errors : Nat, retryable : Nat]

(* A thread t with the counts s, behind the gate g: a stream is open where *)
(* frames are decoded, which is after the gate; a frame that is not yet    *)
(* published stands between the counts of two stages; a failure is counted *)
(* before its message is kept.                                             *)
Owing(t) == IF t.pc \in {"drain", "publish"} THEN 1 ELSE 0
Sane(t, s, g) ==
    /\ t \in ThreadType /\ s \in StatsType
    /\ t.open <=> t.pc \in {"gated", "decode", "drain", "publish"}
    /\ t.pc \in {"decode", "drain", "publish"} \/ s.frames > 0 => g
    /\ s.reads <= s.sightings + Owing(t) /\ s.sightings + Owing(t) <= s.frames
    /\ s.errors <= s.reconnects /\ s.retryable <= s.reconnects
    /\ s.errors < MaxErrors => s.retryable <= s.errors

Waits(h, c) == {k \in DOMAIN h : h[k] = c}
Announced(th) == {c \in Threads : th[c].announced}
Working(th) == {c \in Threads : th[c].pc \notin {"queued", "ended"}}
CountOf(st, field) == SumFunctionOnSet([c \in Threads |-> st[c][field]], Threads)

RunTypes ==
    /\ run_main \in {"start", "connecting", "window", "collecting", "done"}
    /\ run_pool \in Nat /\ run_bounded \in BOOLEAN
    /\ run_stop \in BOOLEAN /\ run_gate \in BOOLEAN /\ run_late \in BOOLEAN
    /\ run_tickets \in Nat /\ run_connected \in Nat
    /\ run_thread \in [Threads -> ThreadType] /\ run_stats \in [Threads -> StatsType]
    /\ run_held \in Seq(Threads)
    /\ run_bus \in [sightings : Nat, crops : [Threads -> Nat]]

(* Where the main thread is tells what it has set.                         *)
RunFlags ==
    /\ run_main \in {"window", "collecting", "done"} => run_gate
    /\ run_main \in {"collecting", "done"} => run_stop
    /\ run_main = "start" => \A c \in Threads : run_thread[c].pc = "queued"
    /\ run_main = "done" => \A c \in Threads : run_thread[c].pc = "ended"
    /\ run_summary.given => run_main = "done" /\ run_stats = run_summary.of

RunOutput ==
    /\ \A c \in Threads : run_stats[c].reads = run_bus.crops[c] + Cardinality(Waits(run_held, c))
    /\ CountOf(run_stats, "sightings") = run_bus.sightings
    /\ CountOf(run_stats, "crops") = CountOf(run_stats, "reads") - Len(run_held)
    /\ run_held # <<>> => \E c \in Threads : run_thread[c].pc = "drain"

RunInv ==
    /\ RunTypes /\ RunFlags /\ RunOutput
    /\ \A c \in Threads : Sane(run_thread[c], run_stats[c], run_gate)
    /\ run_connected + run_tickets = Cardinality(Announced(run_thread))
    /\ Cardinality(Working(run_thread)) <= run_pool

LEMMA RunNumber == \A S : Run!Cardinality(S) = Cardinality(S)
  BY DEF Run!Cardinality, Cardinality

LEMMA RunSum == \A f, S : Run!SumFunctionOnSet(f, S) = SumFunctionOnSet(f, S)
  BY DEF Run!SumFunctionOnSet, SumFunctionOnSet, Run!FoldFunctionOnSet, FoldFunctionOnSet,
         Run!MapThenFoldSet, MapThenFoldSet

LEMMA TotalIs == \A field : Run!Total(field) = CountOf(run_stats, field)
<1> SUFFICES ASSUME NEW field PROVE Run!Total(field) = CountOf(run_stats, field)
  OBVIOUS
<1> DEFINE f == [c \in Threads |-> run_stats[c][field]]
<1>1. Run!Total(field) = Run!SumFunction(f)
  BY DEF Run!Total, Threads
<1>2. Run!SumFunction(f) = Run!SumFunctionOnSet(f, DOMAIN f)
  BY DEF Run!SumFunction
<1>3. DOMAIN f = Threads
  OBVIOUS
<1> QED  BY <1>1, <1>2, <1>3, RunSum DEF CountOf

LEMMA ThreadsAreFinite == IsFiniteSet(Threads) /\ Cardinality(Threads) <= Len(Sources) /\ Len(Sources) \in Nat
<1>1. Sources \in Seq(Threads) /\ Threads = {Sources[k] : k \in 1..Len(Sources)} /\ Len(Sources) \in Nat
  BY RunConstants DEF Run!WorkerRunAssumption, Threads, Run!Camera, Run!Range
<1>2. Sources \in Surjection(1..Len(Sources), Threads)
  BY <1>1 DEF Surjection
<1>3. IsFiniteSet(1..Len(Sources)) /\ Cardinality(1..Len(Sources)) = Len(Sources)
  <2> DEFINE n == Len(Sources)
  <2>1. n \in Nat /\ n \in Int /\ 1 \in Int
    BY <1>1
  <2> HIDE DEF n
  <2>2. IsFiniteSet(1..n) /\ Cardinality(1..n) = IF 1 > n THEN 0 ELSE n - 1 + 1
    BY <2>1, FS_Interval
  <2>3. Cardinality(1..n) = n
    BY <2>1, <2>2
  <2> QED  BY <2>2, <2>3 DEF n
<1> QED  BY <1>1, <1>2, <1>3, FS_Surjection

LEMMA SumIs ==
    ASSUME NEW st \in [Threads -> StatsType], NEW c \in Threads, NEW s \in StatsType,
           NEW field \in {"sightings", "crops", "reads", "frames"}
    PROVE  CountOf([st EXCEPT ![c] = s], field) = CountOf(st, field) - st[c][field] + s[field]
           /\ CountOf(st, field) \in Nat /\ s[field] \in Nat /\ st[c][field] \in Nat
<1> DEFINE f == [d \in Threads |-> st[d][field]]
           next == [st EXCEPT ![c] = s]
           g == [d \in Threads |-> next[d][field]]
<1>1. \A d \in Threads : st[d][field] \in Nat
  BY DEF StatsType
<1>2. s[field] \in Nat
  BY DEF StatsType
<1>3. \A d \in Threads : next[d] = IF d = c THEN s ELSE st[d]
  OBVIOUS
<1> HIDE DEF next
<1>4. \A d \in Threads : f[d] \in Nat /\ g[d] \in Nat /\ (d # c => f[d] = g[d])
  BY <1>1, <1>2, <1>3
<1>5. f[c] = st[c][field] /\ g[c] = s[field]
  BY <1>3
<1> HIDE DEF f, g
<1>6. SumFunctionOnSet(g, Threads) = SumFunctionOnSet(f, Threads) - f[c] + g[c]
  BY <1>4, ThreadsAreFinite, SumChange
<1>7. SumFunctionOnSet(f, Threads) \in Nat
  BY <1>4, ThreadsAreFinite, SumNat
<1> QED  BY <1>1, <1>2, <1>5, <1>6, <1>7 DEF CountOf, f, g, next

LEMMA WaitsAre ==
    ASSUME NEW h \in Seq(Threads), NEW c \in Threads
    PROVE  /\ Cardinality(Waits(h, c)) \in Nat
           /\ Waits(<<>>, c) = {} /\ Cardinality(Waits(<<>>, c)) = 0
           /\ Cardinality(Waits(Append(h, c), c)) = Cardinality(Waits(h, c)) + 1
           /\ \A d \in Threads : d # c => Waits(Append(h, d), c) = Waits(h, c)
<1>1. IsFiniteSet(Waits(h, c)) /\ Len(h) \in Nat /\ DOMAIN h = 1..Len(h) /\ Len(h) + 1 \notin Waits(h, c)
  <2>1. Len(h) \in Nat /\ DOMAIN h = 1..Len(h)
    OBVIOUS
  <2>2. IsFiniteSet(1..Len(h))
    BY <2>1, FS_Interval
  <2>3. Waits(h, c) \subseteq 1..Len(h)
    BY <2>1 DEF Waits
  <2> QED  BY <2>1, <2>2, <2>3, FS_Subset
<1>2. \A d \in Threads : /\ DOMAIN Append(h, d) = 1..(Len(h) + 1)
                         /\ \A k \in 1..Len(h) : Append(h, d)[k] = h[k]
                         /\ Append(h, d)[Len(h) + 1] = d
  OBVIOUS
<1>3. Waits(Append(h, c), c) = Waits(h, c) \cup {Len(h) + 1}
  BY <1>1, <1>2 DEF Waits
<1>4. \A d \in Threads : d # c => Waits(Append(h, d), c) = Waits(h, c)
  BY <1>1, <1>2 DEF Waits
<1>5. Waits(<<>>, c) = {}
  BY DEF Waits
<1>6. Cardinality(Waits(<<>>, c)) = 0
  BY <1>5, FS_EmptySet
<1>7. Cardinality(Waits(h, c)) \in Nat
  BY <1>1, FS_CardinalityType
<1>8. Cardinality(Waits(Append(h, c), c)) = Cardinality(Waits(h, c)) + 1
  BY <1>1, <1>3, FS_AddElement
<1> QED  BY <1>4, <1>5, <1>6, <1>7, <1>8

(* How the two counts of threads change with one thread.                   *)
LEMMA OneThread ==
    ASSUME NEW th \in [Threads -> ThreadType], NEW c \in Threads, NEW t \in ThreadType
    PROVE  LET next == [th EXCEPT ![c] = t]
           IN  /\ next \in [Threads -> ThreadType] /\ \A d \in Threads : next[d] = IF d = c THEN t ELSE th[d]
               /\ Cardinality(Announced(th)) \in Nat /\ Cardinality(Working(th)) \in Nat
               /\ th[c].announced = t.announced => Announced(next) = Announced(th)
               /\ ~ th[c].announced /\ t.announced => Cardinality(Announced(next)) = Cardinality(Announced(th)) + 1
               /\ th[c].pc \notin {"queued", "ended"} => Cardinality(Working(next)) <= Cardinality(Working(th))
               /\ Cardinality(Working(next)) <= Cardinality(Working(th)) + 1
<1> DEFINE next == [th EXCEPT ![c] = t]
<1>1. /\ next \in [Threads -> ThreadType]
      /\ \A d \in Threads : next[d] = IF d = c THEN t ELSE th[d]
  OBVIOUS
<1> HIDE DEF next
<1>2. IsFiniteSet(Announced(th)) /\ IsFiniteSet(Working(th)) /\ IsFiniteSet(Working(next))
  BY ThreadsAreFinite, FS_Subset DEF Announced, Working
<1>3. th[c].announced = t.announced => Announced(next) = Announced(th)
  BY <1>1 DEF Announced
<1>4. ASSUME ~ th[c].announced, t.announced
      PROVE  Cardinality(Announced(next)) = Cardinality(Announced(th)) + 1
  <2>1. Announced(next) = Announced(th) \cup {c} /\ c \notin Announced(th)
    BY <1>1, <1>4 DEF Announced
  <2> QED  BY <1>2, <2>1, FS_AddElement
<1>5. ASSUME th[c].pc \notin {"queued", "ended"}
      PROVE  Cardinality(Working(next)) <= Cardinality(Working(th))
  <2>1. Working(next) \subseteq Working(th)
    BY <1>1, <1>5 DEF Working
  <2> QED  BY <1>2, <2>1, FS_Subset
<1>6. Cardinality(Working(next)) <= Cardinality(Working(th)) + 1
  <2>1. Working(next) \subseteq Working(th) \cup {c}
    BY <1>1 DEF Working
  <2>2. /\ IsFiniteSet(Working(th) \cup {c}) /\ Cardinality(Working(th)) \in Nat
        /\ \/ Cardinality(Working(th) \cup {c}) = Cardinality(Working(th))
           \/ Cardinality(Working(th) \cup {c}) = Cardinality(Working(th)) + 1
    <3>1. IsFiniteSet(Working(th) \cup {c}) /\ Cardinality(Working(th)) \in Nat
      BY <1>2, FS_AddElement, FS_CardinalityType
    <3>2. c \in Working(th) => Working(th) \cup {c} = Working(th)
      OBVIOUS
    <3>3. c \notin Working(th) => Cardinality(Working(th) \cup {c}) = Cardinality(Working(th)) + 1
      BY <1>2, FS_AddElement
    <3> QED  BY <3>1, <3>2, <3>3
  <2>3. Cardinality(Working(next)) <= Cardinality(Working(th) \cup {c}) /\ Cardinality(Working(next)) \in Nat
    BY <1>2, <2>1, <2>2, FS_Subset, FS_CardinalityType
  <2> QED  BY <2>2, <2>3
<1>7. Cardinality(Announced(th)) \in Nat /\ Cardinality(Working(th)) \in Nat
  BY <1>2, FS_CardinalityType
<1> QED  BY <1>1, <1>3, <1>4, <1>5, <1>6, <1>7 DEF next

RunFrame == <<run_main, run_pool, run_bounded, run_stop, run_gate, run_late, run_connected, run_summary>>

LEMMA OutputKept ==
    ASSUME RunInv, NEW c \in Threads, NEW t \in ThreadType, NEW s \in StatsType,
           run_thread' = [run_thread EXCEPT ![c] = t], run_stats' = [run_stats EXCEPT ![c] = s],
           UNCHANGED <<run_held, run_bus>>,
           s.reads = run_stats[c].reads, s.crops = run_stats[c].crops, s.sightings = run_stats[c].sightings,
           run_thread[c].pc = "drain" => t.pc = "drain"
    PROVE  RunOutput'
<1>1. run_thread \in [Threads -> ThreadType] /\ run_stats \in [Threads -> StatsType]
  BY DEF RunInv, RunTypes
<1>2. \A d \in Threads : /\ run_thread'[d] = IF d = c THEN t ELSE run_thread[d]
                         /\ run_stats'[d] = IF d = c THEN s ELSE run_stats[d]
  BY <1>1
<1>3. \A field \in {"sightings", "crops", "reads", "frames"} :
         /\ CountOf(run_stats', field) = CountOf(run_stats, field) - run_stats[c][field] + s[field]
         /\ CountOf(run_stats, field) \in Nat /\ s[field] \in Nat /\ run_stats[c][field] \in Nat
  BY <1>1, SumIs
<1>4. /\ CountOf(run_stats', "sightings") = CountOf(run_stats, "sightings")
      /\ CountOf(run_stats', "crops") = CountOf(run_stats, "crops")
      /\ CountOf(run_stats', "reads") = CountOf(run_stats, "reads")
  BY <1>3
<1>5. \A d \in Threads : run_stats'[d].reads = run_stats[d].reads
  BY <1>2
<1>6. run_held # <<>> => \E d \in Threads : run_thread'[d].pc = "drain"
  BY <1>2 DEF RunInv, RunOutput
<1> QED  BY <1>4, <1>5, <1>6 DEF RunInv, RunOutput

(* The thread of one camera moves.                                         *)
LEMMA ThreadMoves ==
    ASSUME RunInv, NEW c \in Threads, NEW t, NEW s, Sane(t, s, run_gate),
           run_thread' = [run_thread EXCEPT ![c] = t], run_stats' = [run_stats EXCEPT ![c] = s],
           UNCHANGED RunFrame, run_main # "start", run_thread[c].pc # "ended",
           \/ t.announced = run_thread[c].announced /\ UNCHANGED run_tickets
           \/ ~ run_thread[c].announced /\ t.announced /\ run_tickets' = run_tickets + 1,
           run_thread[c].pc = "queued" => Cardinality(Working(run_thread)) < run_pool,
           run_held' \in Seq(Threads), run_bus' \in [sightings : Nat, crops : [Threads -> Nat]],
           RunOutput'
    PROVE  RunInv'
<1>1. run_thread \in [Threads -> ThreadType] /\ run_stats \in [Threads -> StatsType] /\ run_tickets \in Nat
  BY DEF RunInv, RunTypes
<1>2. t \in ThreadType /\ s \in StatsType
  BY DEF Sane
<1>3. /\ run_thread' \in [Threads -> ThreadType] /\ run_stats' \in [Threads -> StatsType]
      /\ \A d \in Threads : /\ run_thread'[d] = IF d = c THEN t ELSE run_thread[d]
                            /\ run_stats'[d] = IF d = c THEN s ELSE run_stats[d]
  BY <1>1, <1>2
<1>4. /\ Cardinality(Announced(run_thread)) \in Nat /\ Cardinality(Working(run_thread)) \in Nat
      /\ run_thread[c].announced = t.announced => Announced(run_thread') = Announced(run_thread)
      /\ ~ run_thread[c].announced /\ t.announced =>
            Cardinality(Announced(run_thread')) = Cardinality(Announced(run_thread)) + 1
      /\ run_thread[c].pc \notin {"queued", "ended"} => Cardinality(Working(run_thread')) <= Cardinality(Working(run_thread))
      /\ Cardinality(Working(run_thread')) <= Cardinality(Working(run_thread)) + 1
  BY <1>1, <1>2, OneThread
<1>5. Cardinality(Working(run_thread')) <= run_pool
  <2>1. CASE run_thread[c].pc = "queued"
    <3>1. Cardinality(Working(run_thread')) \in Nat
      BY <1>3, ThreadsAreFinite, FS_Subset, FS_CardinalityType DEF Working
    <3> QED  BY <2>1, <3>1, <1>4 DEF RunInv, RunTypes
  <2>2. CASE run_thread[c].pc # "queued"
    <3>1. Cardinality(Working(run_thread')) \in Nat
      BY <1>3, ThreadsAreFinite, FS_Subset, FS_CardinalityType DEF Working
    <3> QED  BY <2>2, <3>1, <1>4 DEF RunInv, RunTypes
  <2> QED  BY <2>1, <2>2
<1>6. run_connected + run_tickets' = Cardinality(Announced(run_thread'))
  BY <1>1, <1>4 DEF RunInv, RunTypes
<1>7. run_tickets' \in Nat
  BY <1>1
<1>8. RunTypes'
  BY <1>3, <1>7 DEF RunInv, RunTypes, RunFrame
<1>9. RunFlags'
  BY DEF RunInv, RunFlags, RunFrame
<1>10. \A d \in Threads : Sane(run_thread'[d], run_stats'[d], run_gate)
  BY <1>3 DEF RunInv
<1> QED  BY <1>5, <1>6, <1>8, <1>9, <1>10 DEF RunInv, RunFrame

(* A step of a thread that publishes nothing, and one that a thread makes  *)
(* between its first and its last.                                         *)
LEMMA QuietMove ==
    ASSUME RunInv, NEW c \in Threads, NEW t, NEW s, Sane(t, s, run_gate),
           run_thread' = [run_thread EXCEPT ![c] = t], run_stats' = [run_stats EXCEPT ![c] = s],
           UNCHANGED <<RunFrame, run_held, run_bus>>,
           run_thread[c].pc \notin {"queued", "ended", "drain"},
           \/ t.announced = run_thread[c].announced /\ UNCHANGED run_tickets
           \/ ~ run_thread[c].announced /\ t.announced /\ run_tickets' = run_tickets + 1,
           s.reads = run_stats[c].reads, s.crops = run_stats[c].crops, s.sightings = run_stats[c].sightings
    PROVE  RunInv'
<1>1. t \in ThreadType /\ s \in StatsType
  BY DEF Sane
<1>2. RunOutput'
  BY <1>1, OutputKept
<1>3. run_main # "start"
  BY DEF RunInv, RunFlags
<1>4. run_held' \in Seq(Threads) /\ run_bus' \in [sightings : Nat, crops : [Threads -> Nat]]
  BY DEF RunInv, RunTypes
<1> QED  BY <1>2, <1>3, <1>4, ThreadMoves

LEMMA ThreadIs ==
    ASSUME RunInv, NEW c \in Threads
    PROVE  /\ Sane(run_thread[c], run_stats[c], run_gate)
           /\ run_thread[c] \in ThreadType /\ run_stats[c] \in StatsType /\ MaxErrors \in Nat
           /\ run_gate \in BOOLEAN /\ run_bounded \in BOOLEAN
           /\ run_thread = [run_thread EXCEPT ![c] = run_thread[c]]
           /\ run_stats = [run_stats EXCEPT ![c] = run_stats[c]]
  BY RunConstants DEF RunInv, RunTypes, Run!WorkerRunAssumption

LEMMA MovesStep ==
    ASSUME RunInv, NEW c \in Threads,
           Run!Connect(c) \/ Run!Open(c) \/ Run!Pass(c) \/ Run!Leave(c) \/ Run!Wake(c)
             \/ \E retryable \in BOOLEAN : Run!Fail(c, retryable)
    PROVE  RunInv'
<1> DEFINE t == run_thread[c]
           s == run_stats[c]
<1>1. /\ Sane(t, s, run_gate) /\ t \in ThreadType /\ s \in StatsType /\ MaxErrors \in Nat /\ run_gate \in BOOLEAN
      /\ run_thread = [run_thread EXCEPT ![c] = t] /\ run_stats = [run_stats EXCEPT ![c] = s]
  BY ThreadIs
<1>3. CASE Run!Connect(c)
  <2>1. /\ t.pc = "top" /\ UNCHANGED <<RunFrame, run_tickets, run_held, run_bus>>
        /\ \/ run_thread' = [run_thread EXCEPT ![c] = [t EXCEPT !.pc = "ended"]] /\ UNCHANGED run_stats
           \/ /\ run_thread' = [run_thread EXCEPT ![c] = [t EXCEPT !.pc = "opening"]]
              /\ run_stats' = [run_stats EXCEPT ![c] = [s EXCEPT !.tries = @ + 1]]
    BY <1>1, <1>3 DEF Run!Connect, Run!Goto, Run!Count, Run!setup, Run!events, Run!waits, Run!output, RunFrame
  <2>2. CASE run_thread' = [run_thread EXCEPT ![c] = [t EXCEPT !.pc = "ended"]] /\ UNCHANGED run_stats
    <3> DEFINE n == [t EXCEPT !.pc = "ended"]
    <3>1. n \in ThreadType /\ n.pc = "ended" /\ n.open = t.open /\ n.announced = t.announced
      BY <1>1 DEF ThreadType, PcType
    <3>2. run_thread' = [run_thread EXCEPT ![c] = n] /\ run_stats' = [run_stats EXCEPT ![c] = s]
      BY <1>1, <2>2
    <3> HIDE DEF n
    <3>3. Sane(n, s, run_gate)
      BY <1>1, <2>1, <3>1 DEF Sane, Owing
    <3> QED  BY <2>1, <3>1, <3>2, <3>3, QuietMove
  <2>3. CASE /\ run_thread' = [run_thread EXCEPT ![c] = [t EXCEPT !.pc = "opening"]]
             /\ run_stats' = [run_stats EXCEPT ![c] = [s EXCEPT !.tries = @ + 1]]
    <3> DEFINE n == [t EXCEPT !.pc = "opening"]
               m == [s EXCEPT !.tries = @ + 1]
    <3>1. n \in ThreadType /\ n.pc = "opening" /\ n.open = t.open /\ n.announced = t.announced
      BY <1>1 DEF ThreadType, PcType
    <3>2. /\ m \in StatsType /\ m.frames = s.frames /\ m.sightings = s.sightings /\ m.reads = s.reads /\ m.crops = s.crops
          /\ m.errors = s.errors /\ m.reconnects = s.reconnects /\ m.retryable = s.retryable
      BY <1>1 DEF StatsType
    <3>3. run_thread' = [run_thread EXCEPT ![c] = n] /\ run_stats' = [run_stats EXCEPT ![c] = m]
      BY <2>3
    <3> HIDE DEF n, m
    <3>4. Sane(n, m, run_gate)
      BY <1>1, <2>1, <3>1, <3>2 DEF Sane, Owing
    <3> QED  BY <2>1, <3>1, <3>2, <3>3, <3>4, QuietMove
  <2> QED  BY <2>1, <2>2, <2>3
<1>4. CASE Run!Open(c)
  <2> DEFINE pc == IF run_gate THEN "decode" ELSE "gated"
             n == [t EXCEPT !.pc = pc, !.announced = TRUE, !.open = TRUE]
  <2>1. /\ t.pc = "opening" /\ UNCHANGED <<RunFrame, run_stats, run_held, run_bus>>
        /\ run_thread' = [run_thread EXCEPT ![c] = n]
        /\ run_tickets' = IF t.announced THEN run_tickets ELSE run_tickets + 1
    BY <1>1, <1>4 DEF Run!Open, Run!setup, Run!events, Run!output, RunFrame
  <2>2. pc \in {"decode", "gated"} /\ (pc = "decode" => run_gate)
    OBVIOUS
  <2> HIDE DEF pc
  <2>3. n \in ThreadType /\ n.pc = pc /\ n.open = TRUE /\ n.announced = TRUE
    BY <1>1, <2>2 DEF ThreadType, PcType
  <2>4. run_stats' = [run_stats EXCEPT ![c] = s] /\ t.announced \in BOOLEAN
    BY <1>1, <2>1 DEF ThreadType
  <2> HIDE DEF n
  <2>5. Sane(n, s, run_gate)
    BY <1>1, <2>1, <2>2, <2>3 DEF Sane, Owing
  <2> QED  BY <2>1, <2>3, <2>4, <2>5, QuietMove
<1>5. CASE Run!Pass(c)
  <2> DEFINE n == [t EXCEPT !.pc = "decode"]
  <2>1. /\ t.pc = "gated" /\ run_gate /\ UNCHANGED <<RunFrame, run_tickets, run_stats, run_held, run_bus>>
        /\ run_thread' = [run_thread EXCEPT ![c] = n]
    BY <1>1, <1>5 DEF Run!Pass, Run!Goto, Run!setup, Run!events, Run!waits, Run!output, RunFrame
  <2>2. n \in ThreadType /\ n.pc = "decode" /\ n.open = t.open /\ n.announced = t.announced
    BY <1>1 DEF ThreadType, PcType
  <2>3. run_stats' = [run_stats EXCEPT ![c] = s]
    BY <1>1, <2>1
  <2> HIDE DEF n
  <2>4. Sane(n, s, run_gate)
    BY <1>1, <2>1, <2>2 DEF Sane, Owing
  <2> QED  BY <2>1, <2>2, <2>3, <2>4, QuietMove
<1>6. CASE Run!Leave(c)
  <2>1. /\ t.pc = "decode" /\ UNCHANGED <<RunFrame, run_tickets, run_held, run_bus>>
        /\ \/ /\ run_thread' = [run_thread EXCEPT ![c] = [t EXCEPT !.pc = "ended", !.open = FALSE]] /\ UNCHANGED run_stats
           \/ /\ run_thread' = [run_thread EXCEPT ![c] = [t EXCEPT !.pc = "waiting", !.open = FALSE]]
              /\ run_stats' = [run_stats EXCEPT ![c] = [s EXCEPT !.reconnects = @ + 1]]
    BY <1>1, <1>6 DEF Run!Leave, Run!Count, Run!setup, Run!events, Run!waits, Run!output, RunFrame
  <2>2. PICK pc \in {"ended", "waiting"}, more \in {0, 1} :
           /\ run_thread' = [run_thread EXCEPT ![c] = [t EXCEPT !.pc = pc, !.open = FALSE]]
           /\ run_stats' = [run_stats EXCEPT ![c] = [s EXCEPT !.reconnects = @ + more]]
    <3>1. s = [s EXCEPT !.reconnects = @ + 0]
      BY <1>1 DEF StatsType
    <3>2. CASE run_thread' = [run_thread EXCEPT ![c] = [t EXCEPT !.pc = "ended", !.open = FALSE]] /\ UNCHANGED run_stats
      BY <1>1, <3>1, <3>2
    <3>3. CASE /\ run_thread' = [run_thread EXCEPT ![c] = [t EXCEPT !.pc = "waiting", !.open = FALSE]]
               /\ run_stats' = [run_stats EXCEPT ![c] = [s EXCEPT !.reconnects = @ + 1]]
      BY <3>3
    <3> QED  BY <2>1, <3>2, <3>3
  <2> DEFINE n == [t EXCEPT !.pc = pc, !.open = FALSE]
             m == [s EXCEPT !.reconnects = @ + more]
  <2>3. n \in ThreadType /\ n.pc = pc /\ n.open = FALSE /\ n.announced = t.announced
    BY <1>1 DEF ThreadType, PcType
  <2>4. /\ m \in StatsType /\ m.frames = s.frames /\ m.sightings = s.sightings /\ m.reads = s.reads /\ m.crops = s.crops
        /\ m.errors = s.errors /\ m.reconnects >= s.reconnects /\ m.retryable = s.retryable
    BY <1>1 DEF StatsType
  <2>5. run_thread' = [run_thread EXCEPT ![c] = n] /\ run_stats' = [run_stats EXCEPT ![c] = m]
    BY <2>2
  <2> HIDE DEF n, m
  <2>6. Sane(n, m, run_gate)
    BY <1>1, <2>1, <2>3, <2>4 DEF Sane, Owing, StatsType
  <2> QED  BY <2>1, <2>3, <2>4, <2>5, <2>6, QuietMove
<1>7. CASE Run!Wake(c)
  <2> DEFINE pc == IF run_stop THEN "ended" ELSE "top"
             n == [t EXCEPT !.pc = pc]
  <2>1. /\ t.pc = "waiting" /\ UNCHANGED <<RunFrame, run_tickets, run_stats, run_held, run_bus>>
        /\ run_thread' = [run_thread EXCEPT ![c] = n]
    BY <1>1, <1>7 DEF Run!Wake, Run!Goto, Run!setup, Run!events, Run!waits, Run!output, RunFrame
  <2>2. pc \in {"ended", "top"}
    OBVIOUS
  <2> HIDE DEF pc
  <2>3. n \in ThreadType /\ n.pc = pc /\ n.open = t.open /\ n.announced = t.announced
    BY <1>1, <2>2 DEF ThreadType, PcType
  <2>4. run_stats' = [run_stats EXCEPT ![c] = s]
    BY <1>1, <2>1
  <2> HIDE DEF n
  <2>5. Sane(n, s, run_gate)
    BY <1>1, <2>1, <2>2, <2>3 DEF Sane, Owing
  <2> QED  BY <2>1, <2>3, <2>4, <2>5, QuietMove
<1>8. CASE \E retryable \in BOOLEAN : Run!Fail(c, retryable)
  <2>1. PICK retryable \in BOOLEAN : Run!Fail(c, retryable)
    BY <1>8
  <2> DEFINE n == [t EXCEPT !.pc = "waiting", !.open = FALSE]
             retried == IF retryable THEN s.retryable + 1 ELSE s.retryable
             kept == IF s.errors < MaxErrors THEN s.errors + 1 ELSE s.errors
             m == [s EXCEPT !.reconnects = s.reconnects + 1, !.retryable = retried, !.errors = kept]
  <2>2. /\ t.pc \in {"opening", "decode"} /\ UNCHANGED <<RunFrame, run_tickets, run_held, run_bus>>
        /\ run_thread' = [run_thread EXCEPT ![c] = n] /\ run_stats' = [run_stats EXCEPT ![c] = m]
    <3>1. /\ t.pc \in {"opening", "decode"} /\ UNCHANGED <<RunFrame, run_tickets, run_held, run_bus>>
          /\ run_thread' = [run_thread EXCEPT ![c] = n]
      BY <2>1 DEF Run!Fail, Run!setup, Run!events, Run!waits, Run!output, RunFrame
    <3>2. run_stats' = [run_stats EXCEPT ![c] = [s EXCEPT !.reconnects = @ + 1,
                                                          !.retryable = IF retryable THEN @ + 1 ELSE @,
                                                          !.errors = IF @ < MaxErrors THEN @ + 1 ELSE @]]
      BY <2>1 DEF Run!Fail, Run!Count
    <3> QED  BY <3>1, <3>2
  <2>3. n \in ThreadType /\ n.pc = "waiting" /\ n.open = FALSE /\ n.announced = t.announced
    BY <1>1 DEF ThreadType, PcType
  <2>4. /\ retried \in Nat /\ retried <= s.retryable + 1 /\ kept \in Nat /\ kept <= s.errors + 1
        /\ kept < MaxErrors => s.errors < MaxErrors /\ kept = s.errors + 1
    BY <1>1 DEF StatsType
  <2> HIDE DEF retried, kept
  <2>5. /\ m \in StatsType /\ m.frames = s.frames /\ m.sightings = s.sightings /\ m.reads = s.reads /\ m.crops = s.crops
        /\ m.errors = kept /\ m.reconnects = s.reconnects + 1 /\ m.retryable = retried
    <3> DEFINE up == s.reconnects + 1
    <3>1. up \in Nat /\ s \in StatsType
      BY <1>1 DEF StatsType
    <3>2. m = [s EXCEPT !.reconnects = up, !.retryable = retried, !.errors = kept]
      OBVIOUS
    <3> HIDE DEF up, s
    <3>3. /\ m \in StatsType /\ m.frames = s.frames /\ m.sightings = s.sightings /\ m.reads = s.reads /\ m.crops = s.crops
          /\ m.errors = kept /\ m.reconnects = up /\ m.retryable = retried
      BY <2>4, <3>1, <3>2 DEF StatsType
    <3> QED  BY <3>3 DEF up
  <2> HIDE DEF n, m
  <2>6. Sane(n, m, run_gate)
    BY <1>1, <2>2, <2>3, <2>4, <2>5 DEF Sane, Owing, StatsType
  <2> QED  BY <2>2, <2>3, <2>5, <2>6, QuietMove
<1> QED  BY <1>3, <1>4, <1>5, <1>6, <1>7, <1>8

LEMMA BeginStep == ASSUME RunInv, NEW c \in Threads, Run!Begin(c) PROVE RunInv'
<1> DEFINE t == run_thread[c]
           s == run_stats[c]
           limit == run_bounded /\ run_gate
           n == [t EXCEPT !.pc = "top", !.limit = limit]
<1>1. /\ Sane(t, s, run_gate) /\ t \in ThreadType /\ s \in StatsType
      /\ run_stats = [run_stats EXCEPT ![c] = s] /\ limit \in BOOLEAN
  BY ThreadIs
<1>2. /\ t.pc = "queued" /\ run_main # "start"
      /\ UNCHANGED <<RunFrame, run_tickets, run_stats, run_held, run_bus>> /\ run_thread' = [run_thread EXCEPT ![c] = n]
  BY DEF Run!Begin, Run!setup, Run!events, Run!waits, Run!output, RunFrame
<1>3. Cardinality(Working(run_thread)) < run_pool
  BY RunNumber DEF Run!Begin, Run!Active, Working, Threads
<1> HIDE DEF limit
<1>4. n \in ThreadType /\ n.pc = "top" /\ n.open = t.open /\ n.announced = t.announced
  BY <1>1 DEF ThreadType, PcType
<1>5. run_stats' = [run_stats EXCEPT ![c] = s]
  BY <1>1, <1>2
<1> HIDE DEF n
<1>6. Sane(n, s, run_gate)
  BY <1>1, <1>2, <1>4 DEF Sane, Owing
<1>7. RunOutput'
  BY <1>1, <1>2, <1>4, <1>5, OutputKept
<1>8. run_held' \in Seq(Threads) /\ run_bus' \in [sightings : Nat, crops : [Threads -> Nat]]
  BY <1>2 DEF RunInv, RunTypes
<1> QED  BY <1>1, <1>2, <1>3, <1>4, <1>5, <1>6, <1>7, <1>8, ThreadMoves

(* A frame that is dropped or shows a vehicle, and one whose track is      *)
(* voted on.                                                               *)
LEMMA FrameStep == ASSUME RunInv, NEW c \in Threads, Run!Frame(c) PROVE RunInv'
<1> DEFINE t == run_thread[c]
           s == run_stats[c]
<1>1. /\ Sane(t, s, run_gate) /\ t \in ThreadType /\ s \in StatsType
      /\ run_thread = [run_thread EXCEPT ![c] = t]
  BY ThreadIs
<1>2. t.pc = "decode" /\ UNCHANGED <<RunFrame, run_tickets, run_bus>>
  BY DEF Run!Frame, Run!setup, Run!events, Run!waits, RunFrame
<1>3. CASE \E pc \in {"decode", "publish"} :
             /\ run_thread' = [run_thread EXCEPT ![c] = [t EXCEPT !.pc = pc]]
             /\ run_stats' = [run_stats EXCEPT ![c] = [s EXCEPT !.frames = @ + 1]]
             /\ UNCHANGED run_held
  <2>1. PICK pc \in {"decode", "publish"} :
             /\ run_thread' = [run_thread EXCEPT ![c] = [t EXCEPT !.pc = pc]]
             /\ run_stats' = [run_stats EXCEPT ![c] = [s EXCEPT !.frames = @ + 1]]
             /\ UNCHANGED run_held
    BY <1>3
  <2> DEFINE n == [t EXCEPT !.pc = pc]
             m == [s EXCEPT !.frames = @ + 1]
  <2>2. n \in ThreadType /\ n.pc = pc /\ n.open = t.open /\ n.announced = t.announced
    BY <1>1 DEF ThreadType, PcType
  <2>3. /\ m \in StatsType /\ m.frames = s.frames + 1 /\ m.sightings = s.sightings /\ m.reads = s.reads
        /\ m.crops = s.crops /\ m.errors = s.errors /\ m.reconnects = s.reconnects /\ m.retryable = s.retryable
    BY <1>1 DEF StatsType
  <2>4. run_thread' = [run_thread EXCEPT ![c] = n] /\ run_stats' = [run_stats EXCEPT ![c] = m]
    BY <2>1
  <2> HIDE DEF n, m
  <2>5. Sane(n, m, run_gate)
    BY <1>1, <1>2, <2>2, <2>3 DEF Sane, Owing, StatsType
  <2> QED  BY <1>2, <2>1, <2>2, <2>3, <2>4, <2>5, QuietMove
<1>4. CASE /\ run_thread' = [run_thread EXCEPT ![c] = [t EXCEPT !.pc = "drain"]]
           /\ run_stats' = [run_stats EXCEPT ![c] = [s EXCEPT !.frames = @ + 1, !.reads = @ + 1]]
           /\ run_held' = Append(run_held, c)
  <2> DEFINE n == [t EXCEPT !.pc = "drain"]
             m == [s EXCEPT !.frames = @ + 1, !.reads = @ + 1]
  <2>1. n \in ThreadType /\ n.pc = "drain" /\ n.open = t.open /\ n.announced = t.announced
    BY <1>1 DEF ThreadType, PcType
  <2>2. /\ m \in StatsType /\ m.frames = s.frames + 1 /\ m.sightings = s.sightings /\ m.reads = s.reads + 1
        /\ m.crops = s.crops /\ m.errors = s.errors /\ m.reconnects = s.reconnects /\ m.retryable = s.retryable
    <3> DEFINE f == s.frames + 1
               r == s.reads + 1
    <3>1. f \in Nat /\ r \in Nat /\ s \in StatsType
      BY <1>1 DEF StatsType
    <3>2. m = [s EXCEPT !.frames = f, !.reads = r]
      OBVIOUS
    <3> HIDE DEF s, f, r, m
    <3>3. /\ m \in StatsType /\ m.frames = f /\ m.sightings = s.sightings /\ m.reads = r
          /\ m.crops = s.crops /\ m.errors = s.errors /\ m.reconnects = s.reconnects /\ m.retryable = s.retryable
      BY <3>1, <3>2 DEF StatsType
    <3> QED  BY <3>3 DEF f, r
  <2>3. run_thread' = [run_thread EXCEPT ![c] = n] /\ run_stats' = [run_stats EXCEPT ![c] = m]
    BY <1>4
  <2> HIDE DEF n, m
  <2>4. Sane(n, m, run_gate)
    BY <1>1, <1>2, <2>1, <2>2 DEF Sane, Owing, StatsType
  <2>5. /\ run_stats \in [Threads -> StatsType] /\ run_held \in Seq(Threads) /\ run_thread \in [Threads -> ThreadType]
        /\ run_bus \in [sightings : Nat, crops : [Threads -> Nat]]
    BY DEF RunInv, RunTypes
  <2>6. \A field \in {"sightings", "crops", "reads", "frames"} :
         /\ CountOf(run_stats', field) = CountOf(run_stats, field) - s[field] + m[field]
         /\ CountOf(run_stats, field) \in Nat /\ m[field] \in Nat /\ s[field] \in Nat
    BY <2>2, <2>3, <2>5, SumIs
  <2>7. /\ CountOf(run_stats', "sightings") = CountOf(run_stats, "sightings")
        /\ CountOf(run_stats', "crops") = CountOf(run_stats, "crops")
        /\ CountOf(run_stats', "reads") = CountOf(run_stats, "reads") + 1
        /\ CountOf(run_stats, "reads") \in Nat /\ CountOf(run_stats, "crops") \in Nat
    BY <2>2, <2>6 DEF StatsType
  <2>8. /\ run_held' \in Seq(Threads) /\ Len(run_held') = Len(run_held) + 1 /\ Len(run_held) \in Nat
        /\ run_held' = Append(run_held, c)
    BY <1>4, <2>5
  <2>9. ASSUME NEW d \in Threads
        PROVE  run_stats'[d].reads = run_bus'.crops[d] + Cardinality(Waits(run_held', d))
    <3>1. /\ run_stats[d].reads = run_bus.crops[d] + Cardinality(Waits(run_held, d)) /\ run_bus.crops[d] \in Nat
          /\ Cardinality(Waits(run_held, d)) \in Nat
      BY <2>5, WaitsAre DEF RunInv, RunOutput
    <3>2. CASE d = c
      <4>1. Cardinality(Waits(run_held', d)) = Cardinality(Waits(run_held, d)) + 1
        BY <2>5, <2>8, <3>2, WaitsAre
      <4>2. run_stats'[d].reads = run_stats[d].reads + 1
        BY <2>2, <2>3, <2>5, <3>2
      <4> QED  BY <1>2, <3>1, <4>1, <4>2
    <3>3. CASE d # c
      <4>1. Waits(run_held', d) = Waits(run_held, d)
        BY <2>5, <2>8, <3>3, WaitsAre
      <4>2. run_stats'[d].reads = run_stats[d].reads
        BY <2>2, <2>3, <2>5, <3>3
      <4> QED  BY <1>2, <3>1, <4>1, <4>2
    <3> QED  BY <3>2, <3>3
  <2>10. run_thread'[c].pc = "drain"
    BY <2>1, <2>3, <2>5
  <2>11. RunOutput'
    BY <1>2, <2>7, <2>8, <2>9, <2>10 DEF RunInv, RunOutput
  <2>12. run_main # "start"
    BY <1>2 DEF RunInv, RunFlags
  <2> QED  BY <1>2, <2>1, <2>3, <2>4, <2>5, <2>8, <2>11, <2>12, ThreadMoves
<1>5. \/ \E pc \in {"decode", "publish"} :
             /\ run_thread' = [run_thread EXCEPT ![c] = [t EXCEPT !.pc = pc]]
             /\ run_stats' = [run_stats EXCEPT ![c] = [s EXCEPT !.frames = @ + 1]]
             /\ UNCHANGED run_held
      \/ /\ run_thread' = [run_thread EXCEPT ![c] = [t EXCEPT !.pc = "drain"]]
         /\ run_stats' = [run_stats EXCEPT ![c] = [s EXCEPT !.frames = @ + 1, !.reads = @ + 1]]
         /\ run_held' = Append(run_held, c)
  <2>1. t = [t EXCEPT !.pc = "decode"]
    BY <1>1, <1>2 DEF ThreadType
  <2>2. CASE run_stats' = [run_stats EXCEPT ![c] = [s EXCEPT !.frames = @ + 1]] /\ UNCHANGED <<run_thread, run_held>>
    BY <1>1, <2>1, <2>2
  <2>3. CASE /\ run_thread' = [run_thread EXCEPT ![c].pc = "publish"] /\ UNCHANGED run_held
             /\ run_stats' = [run_stats EXCEPT ![c] = [s EXCEPT !.frames = @ + 1]]
    BY <2>3
  <2> QED  BY <2>2, <2>3 DEF Run!Frame, Run!Goto, Run!Count
<1> QED  BY <1>3, <1>4, <1>5

LEMMA DrainStep == ASSUME RunInv, NEW c \in Threads, Run!Drain(c) PROVE RunInv'
<1> DEFINE t == run_thread[c]
           s == run_stats[c]
           more == s.crops + Len(run_held)
           n == [t EXCEPT !.pc = "publish"]
           m == [s EXCEPT !.crops = more]
           crops == [d \in Threads |-> run_bus.crops[d] + Cardinality(Waits(run_held, d))]
<1>1. /\ Sane(t, s, run_gate) /\ t \in ThreadType /\ s \in StatsType
      /\ run_thread = [run_thread EXCEPT ![c] = t]
  BY ThreadIs
<1>2. /\ run_stats \in [Threads -> StatsType] /\ run_held \in Seq(Threads) /\ run_thread \in [Threads -> ThreadType]
      /\ run_bus \in [sightings : Nat, crops : [Threads -> Nat]] /\ Len(run_held) \in Nat
  BY DEF RunInv, RunTypes
<1>3. /\ t.pc = "drain" /\ UNCHANGED <<RunFrame, run_tickets>> /\ run_held' = <<>>
      /\ run_thread' = [run_thread EXCEPT ![c] = n] /\ run_stats' = [run_stats EXCEPT ![c] = m]
  BY DEF Run!Drain, Run!Goto, Run!Count, Run!setup, Run!events, Run!waits, RunFrame
<1>4. run_bus' = [run_bus EXCEPT !.crops = crops]
  <2>1. run_bus' = [run_bus EXCEPT !.crops = [d \in Threads |-> run_bus.crops[d] + Run!Cardinality({k \in DOMAIN run_held : run_held[k] = d})]]
    BY DEF Run!Drain, Threads
  <2>2. \A d \in Threads : Run!Cardinality({k \in DOMAIN run_held : run_held[k] = d}) = Cardinality(Waits(run_held, d))
    BY RunNumber DEF Waits
  <2> QED  BY <2>1, <2>2
<1>5. crops \in [Threads -> Nat] /\ \A d \in Threads : crops[d] = run_bus.crops[d] + Cardinality(Waits(run_held, d))
  BY <1>2, WaitsAre
<1> HIDE DEF crops
<1>6. run_bus' \in [sightings : Nat, crops : [Threads -> Nat]] /\ run_bus'.crops = crops /\ run_bus'.sightings = run_bus.sightings
  BY <1>2, <1>4, <1>5
<1>7. n \in ThreadType /\ n.pc = "publish" /\ n.open = t.open /\ n.announced = t.announced
  BY <1>1 DEF ThreadType, PcType
<1>8. more \in Nat
  BY <1>1, <1>2 DEF StatsType
<1>9. more = s.crops + Len(run_held)
  OBVIOUS
<1> HIDE DEF more
<1>10. /\ m \in StatsType /\ m.frames = s.frames /\ m.sightings = s.sightings /\ m.reads = s.reads
       /\ m.crops = more /\ m.errors = s.errors /\ m.reconnects = s.reconnects /\ m.retryable = s.retryable
  BY <1>1, <1>8 DEF StatsType
<1> HIDE DEF n, m
<1>11. Sane(n, m, run_gate)
  BY <1>1, <1>3, <1>7, <1>10 DEF Sane, Owing
<1>12. \A field \in {"sightings", "crops", "reads", "frames"} :
          /\ CountOf(run_stats', field) = CountOf(run_stats, field) - s[field] + m[field]
          /\ CountOf(run_stats, field) \in Nat /\ m[field] \in Nat /\ s[field] \in Nat
  BY <1>2, <1>3, <1>10, SumIs
<1>13. /\ CountOf(run_stats', "sightings") = CountOf(run_stats, "sightings")
       /\ CountOf(run_stats', "crops") = CountOf(run_stats, "crops") + Len(run_held)
       /\ CountOf(run_stats', "reads") = CountOf(run_stats, "reads")
       /\ CountOf(run_stats, "reads") \in Nat /\ CountOf(run_stats, "crops") \in Nat
  <2>1. s["crops"] = s.crops /\ m["crops"] = more /\ m["sightings"] = s["sightings"] /\ m["reads"] = s["reads"]
    BY <1>10
  <2>2. CountOf(run_stats', "crops") = CountOf(run_stats, "crops") - s["crops"] + m["crops"]
    BY <1>12
  <2>3. CountOf(run_stats, "crops") \in Nat /\ s["crops"] \in Nat /\ more \in Nat
    BY <1>12, <1>8
  <2>4. CountOf(run_stats', "crops") = CountOf(run_stats, "crops") + Len(run_held)
    BY <1>2, <1>9, <2>1, <2>2, <2>3
  <2>5. /\ CountOf(run_stats', "sightings") = CountOf(run_stats, "sightings")
        /\ CountOf(run_stats', "reads") = CountOf(run_stats, "reads")
    BY <1>12, <2>1
  <2> QED  BY <1>12, <2>4, <2>5
<1>14. ASSUME NEW d \in Threads
       PROVE  run_stats'[d].reads = run_bus'.crops[d] + Cardinality(Waits(run_held', d))
  <2>1. run_stats[d].reads = crops[d] /\ crops[d] \in Nat
    BY <1>5 DEF RunInv, RunOutput
  <2>2. run_stats'[d].reads = run_stats[d].reads
    BY <1>2, <1>3, <1>10
  <2>3. Cardinality(Waits(run_held', d)) = 0
    BY <1>2, <1>3, WaitsAre
  <2> QED  BY <1>6, <2>1, <2>2, <2>3
<1>15. run_held' \in Seq(Threads) /\ Len(run_held') = 0
  BY <1>3
<1>16. RunOutput'
  BY <1>3, <1>6, <1>13, <1>14, <1>15, <1>2 DEF RunInv, RunOutput
<1>17. run_main # "start"
  BY <1>3 DEF RunInv, RunFlags
<1> QED  BY <1>3, <1>6, <1>7, <1>11, <1>15, <1>16, <1>17, ThreadMoves

LEMMA PublishStep == ASSUME RunInv, NEW c \in Threads, Run!Publish(c) PROVE RunInv'
<1> DEFINE t == run_thread[c]
           s == run_stats[c]
           n == [t EXCEPT !.pc = "decode"]
           m == [s EXCEPT !.sightings = @ + 1]
<1>1. /\ Sane(t, s, run_gate) /\ t \in ThreadType /\ s \in StatsType
  BY ThreadIs
<1>2. /\ run_stats \in [Threads -> StatsType] /\ run_held \in Seq(Threads) /\ run_thread \in [Threads -> ThreadType]
      /\ run_bus \in [sightings : Nat, crops : [Threads -> Nat]]
  BY DEF RunInv, RunTypes
<1>3. /\ t.pc = "publish" /\ UNCHANGED <<RunFrame, run_tickets, run_held>>
      /\ run_thread' = [run_thread EXCEPT ![c] = n] /\ run_stats' = [run_stats EXCEPT ![c] = m]
      /\ run_bus' = [run_bus EXCEPT !.sightings = @ + 1]
  BY DEF Run!Publish, Run!Goto, Run!Count, Run!setup, Run!events, Run!waits, RunFrame
<1>4. /\ run_bus' \in [sightings : Nat, crops : [Threads -> Nat]] /\ run_bus'.crops = run_bus.crops
      /\ run_bus'.sightings = run_bus.sightings + 1
  BY <1>2, <1>3
<1>5. n \in ThreadType /\ n.pc = "decode" /\ n.open = t.open /\ n.announced = t.announced
  BY <1>1 DEF ThreadType, PcType
<1>6. /\ m \in StatsType /\ m.frames = s.frames /\ m.sightings = s.sightings + 1 /\ m.reads = s.reads
      /\ m.crops = s.crops /\ m.errors = s.errors /\ m.reconnects = s.reconnects /\ m.retryable = s.retryable
  BY <1>1 DEF StatsType
<1> HIDE DEF n, m
<1>7. Sane(n, m, run_gate)
  BY <1>1, <1>3, <1>5, <1>6 DEF Sane, Owing, StatsType
<1>8. \A field \in {"sightings", "crops", "reads", "frames"} :
         /\ CountOf(run_stats', field) = CountOf(run_stats, field) - s[field] + m[field]
         /\ CountOf(run_stats, field) \in Nat /\ m[field] \in Nat /\ s[field] \in Nat
  BY <1>2, <1>3, <1>6, SumIs
<1>9. /\ CountOf(run_stats', "sightings") = CountOf(run_stats, "sightings") + 1
      /\ CountOf(run_stats', "crops") = CountOf(run_stats, "crops")
      /\ CountOf(run_stats', "reads") = CountOf(run_stats, "reads")
  BY <1>6, <1>8
<1>10. \A d \in Threads : run_stats'[d].reads = run_stats[d].reads
  BY <1>2, <1>3, <1>6
<1>11. run_held # <<>> => \E d \in Threads : run_thread'[d].pc = "drain"
  <2>1. \A d \in Threads : run_thread[d].pc = "drain" => run_thread'[d].pc = "drain"
    BY <1>2, <1>3
  <2> QED  BY <2>1 DEF RunInv, RunOutput
<1>12. RunOutput'
  BY <1>3, <1>4, <1>9, <1>10, <1>11 DEF RunInv, RunOutput
<1>13. run_main # "start"
  BY <1>3 DEF RunInv, RunFlags
<1> QED  BY <1>2, <1>3, <1>4, <1>5, <1>7, <1>12, <1>13, ThreadMoves

LEMMA MainStep == ASSUME RunInv, Run!Main PROVE RunInv'
<1>1. CASE \E p \in Pools, b \in BOOLEAN : Run!Launch(p, b)
  <2>1. PICK p \in Pools, b \in BOOLEAN : Run!Launch(p, b)
    BY <1>1
  <2>2. /\ run_main = "start" /\ run_main' = "connecting" /\ run_bounded' \in BOOLEAN /\ run_pool' \in Nat
        /\ UNCHANGED <<run_stop, run_gate, run_late, run_tickets, run_connected, run_thread, run_stats, run_held,
                        run_bus, run_summary>>
    BY <2>1, RunConstants, ThreadsAreFinite DEF Run!Launch, Run!events, Run!waits, Run!output, Run!WorkerRunAssumption
  <2>3. Working(run_thread) = {}
    BY <2>2 DEF RunInv, RunFlags, Working
  <2>4. Cardinality(Working(run_thread)) = 0
    BY <2>3, FS_EmptySet
  <2> QED  BY <2>2, <2>4 DEF RunInv, RunTypes, RunFlags, RunOutput
<1>2. CASE Run!Acquire
  <2>1. /\ run_tickets > 0 /\ run_tickets' = run_tickets - 1 /\ run_connected' = run_connected + 1
        /\ UNCHANGED <<run_main, run_pool, run_bounded, run_stop, run_gate, run_late, run_thread, run_stats, run_held,
                        run_bus, run_summary>>
    BY <1>2 DEF Run!Acquire, Run!setup, Run!events, Run!output
  <2>2. /\ run_tickets' \in Nat /\ run_connected' \in Nat
        /\ run_connected' + run_tickets' = run_connected + run_tickets
    BY <2>1 DEF RunInv, RunTypes
  <2> QED  BY <2>1, <2>2 DEF RunInv, RunTypes, RunFlags, RunOutput
<1>3. CASE Run!OpenWindow
  <2>1. /\ run_main = "connecting" /\ run_main' = "window" /\ run_gate' = TRUE
        /\ UNCHANGED <<run_pool, run_bounded, run_stop, run_late, run_tickets, run_connected, run_thread, run_stats,
                        run_held, run_bus, run_summary>>
    BY <1>3 DEF Run!OpenWindow, Run!waits, Run!output
  <2>2. \A c \in Threads : Sane(run_thread[c], run_stats[c], TRUE)
    BY DEF RunInv, Sane
  <2> QED  BY <2>1, <2>2 DEF RunInv, RunTypes, RunFlags, RunOutput
<1>4. CASE Run!Expire \/ Run!Signal
  <2>1. /\ run_late' \in BOOLEAN /\ run_stop' \in BOOLEAN /\ (run_stop => run_stop')
        /\ UNCHANGED <<run_main, run_pool, run_bounded, run_gate, run_tickets, run_connected, run_thread, run_stats,
                        run_held, run_bus, run_summary>>
    BY <1>4 DEF Run!Expire, Run!Signal, Run!setup, Run!waits, Run!output, RunInv, RunTypes
  <2> QED  BY <2>1 DEF RunInv, RunTypes, RunFlags, RunOutput
<1>5. CASE Run!CloseWindow
  <2>1. /\ run_main = "window" /\ run_main' = "collecting" /\ run_stop' = TRUE
        /\ UNCHANGED <<run_pool, run_bounded, run_gate, run_late, run_tickets, run_connected, run_thread, run_stats,
                        run_held, run_bus, run_summary>>
    BY <1>5 DEF Run!CloseWindow, Run!waits, Run!output
  <2> QED  BY <2>1 DEF RunInv, RunTypes, RunFlags, RunOutput
<1>6. CASE Run!Collect
  <2>1. /\ run_main = "collecting" /\ run_main' = "done" /\ run_summary'.of = run_stats
        /\ \A c \in Threads : run_thread[c].pc = "ended"
        /\ UNCHANGED <<run_pool, run_bounded, run_stop, run_gate, run_late, run_tickets, run_connected, run_thread, run_stats,
                        run_held, run_bus>>
    BY <1>6 DEF Run!Collect, Run!AllDone, Run!events, Run!waits, Run!output, Threads
  <2> QED  BY <2>1 DEF RunInv, RunTypes, RunFlags, RunOutput
<1> QED  BY <1>1, <1>2, <1>3, <1>4, <1>5, <1>6 DEF Run!Main

LEMMA RunInit == Run!Init => RunInv
<1> SUFFICES ASSUME Run!Init PROVE RunInv
  OBVIOUS
<1>1. /\ run_main = "start" /\ run_pool = 1 /\ run_bounded = FALSE /\ run_stop = FALSE /\ run_gate = FALSE /\ run_late = FALSE
      /\ run_tickets = 0 /\ run_connected = 0 /\ run_held = <<>> /\ ~ run_summary.given
      /\ run_thread = [c \in Threads |-> Run!Idle] /\ run_stats = [c \in Threads |-> Run!NoStats]
      /\ run_bus = [sightings |-> 0, crops |-> [c \in Threads |-> 0]]
  BY DEF Run!Init, Run!NoSummary, Threads
<1>2. Run!Idle \in ThreadType /\ Run!Idle.pc = "queued" /\ ~ Run!Idle.open /\ ~ Run!Idle.announced
  BY DEF Run!Idle, ThreadType, PcType
<1>3. /\ Run!NoStats \in StatsType /\ Run!NoStats.frames = 0 /\ Run!NoStats.sightings = 0 /\ Run!NoStats.reads = 0
      /\ Run!NoStats.crops = 0 /\ Run!NoStats.errors = 0 /\ Run!NoStats.reconnects = 0 /\ Run!NoStats.retryable = 0
  BY DEF Run!NoStats, StatsType
<1>4. RunTypes
  <2>1. run_thread \in [Threads -> ThreadType] /\ run_stats \in [Threads -> StatsType]
    BY <1>1, <1>2, <1>3
  <2>2. run_bus \in [sightings : Nat, crops : [Threads -> Nat]] /\ run_held \in Seq(Threads)
    BY <1>1
  <2>3. run_tickets \in Nat /\ run_connected \in Nat /\ run_pool \in Nat
    BY <1>1
  <2> QED  BY <1>1, <2>1, <2>2, <2>3 DEF RunTypes
<1>5. Announced(run_thread) = {} /\ Working(run_thread) = {}
  BY <1>1, <1>2 DEF Announced, Working
<1>6. Cardinality(Announced(run_thread)) = 0 /\ Cardinality(Working(run_thread)) = 0
  BY <1>5, FS_EmptySet
<1>7. \A c \in Threads : Sane(run_thread[c], run_stats[c], run_gate)
  BY <1>1, <1>2, <1>3, RunConstants DEF Sane, Owing, Run!WorkerRunAssumption
<1>8. /\ CountOf(run_stats, "sightings") = 0 /\ CountOf(run_stats, "crops") = 0 /\ CountOf(run_stats, "reads") = 0
  BY <1>1, <1>3, ThreadsAreFinite, SumZero DEF CountOf
<1>9. \A c \in Threads : Cardinality(Waits(run_held, c)) = 0
  <2>1. run_held \in Seq(Threads)
    BY <1>4 DEF RunTypes
  <2> QED  BY <1>1, <2>1, WaitsAre
<1>10. RunOutput
  BY <1>1, <1>3, <1>8, <1>9 DEF RunOutput
<1> QED  BY <1>1, <1>2, <1>4, <1>6, <1>7, <1>10 DEF RunInv, RunFlags

LEMMA RunStep == RunInv /\ [Run!Next]_runVars => RunInv'
<1>1. ASSUME RunInv, UNCHANGED runVars PROVE RunInv'
  BY <1>1 DEF runVars, RunInv, RunTypes, RunFlags, RunOutput
<1>2. ASSUME RunInv, Run!Next PROVE RunInv'
  <2>1. CASE Run!Main
    BY <1>2, <2>1, MainStep
  <2>2. CASE \E c \in Threads : Run!Step(c)
    BY <1>2, <2>2, BeginStep, MovesStep, FrameStep, DrainStep, PublishStep DEF Run!Step
  <2> QED  BY <1>2, <2>1, <2>2 DEF Run!Next, Threads
<1> QED  BY <1>1, <1>2

LEMMA RunParts == RunInv => Run!RunsAddUp
<1> SUFFICES ASSUME RunInv PROVE Run!RunsAddUp
  OBVIOUS
<1>1. Run!ScrapesAreTrue
  <2> SUFFICES ASSUME NEW c \in Threads, NEW now, now = Run!Scrape(c)
               PROVE  /\ now.connected <=> run_thread[c].pc \in {"gated", "decode", "drain", "publish"}
                      /\ run_stats[c].errors < MaxErrors => now.retried + now.faults = run_stats[c].errors
                      /\ now.retried + now.faults <= now.reconnects
                      /\ now.reads <= now.sightings + 1 /\ now.sightings <= now.frames
    BY DEF Run!ScrapesAreTrue, Threads
  <2> DEFINE s == run_stats[c]
  <2>1. /\ Sane(run_thread[c], s, run_gate) /\ s \in StatsType
    BY DEF RunInv, RunTypes
  <2>2. /\ now.connected <=> run_thread[c].open
        /\ now.frames = s.frames /\ now.reads = s.reads /\ now.sightings = s.sightings /\ now.reconnects = s.reconnects
        /\ now.retried = s.retryable
        /\ now.faults = IF s.errors > s.retryable THEN s.errors - s.retryable ELSE 0
    BY DEF Run!Scrape, Run!Connected, Threads
  <2> QED  BY <2>1, <2>2, ThreadIs DEF Sane, Owing, StatsType
<1>2. Run!WindowHolds
  <2>1. run_connected + run_tickets = Run!Cardinality({c \in Threads : run_thread[c].announced})
    BY RunNumber DEF RunInv, Announced
  <2>2. Run!Total("frames") > 0 => run_gate
    <3> SUFFICES ASSUME ~ run_gate PROVE Run!Total("frames") = 0
      BY DEF RunInv, RunTypes
    <3>1. \A c \in Threads : run_stats[c].frames = 0
      BY DEF RunInv, RunTypes, Sane, StatsType
    <3> QED  BY <3>1, TotalIs, ThreadsAreFinite, SumZero DEF CountOf
  <2>3. Run!Cardinality(Run!Active) <= run_pool
    BY RunNumber DEF RunInv, Working, Run!Active, Threads
  <2>4. run_summary.given => Run!AllDone /\ run_stats = run_summary.of /\ run_gate
    BY DEF RunInv, RunFlags, Run!AllDone, Threads
  <2> QED  BY <2>1, <2>2, <2>3, <2>4 DEF Run!WindowHolds, RunInv, RunFlags, Threads
<1>3. Run!OutputAddsUp
  <2>1. \A c \in Threads : run_stats[c].reads = run_bus.crops[c] + Run!Cardinality({k \in DOMAIN run_held : run_held[k] = c})
    BY RunNumber DEF RunInv, RunOutput, Waits
  <2>2. /\ Run!Total("sightings") = run_bus.sightings
        /\ Run!Total("crops") = Run!Total("reads") - Len(run_held)
    BY TotalIs DEF RunInv, RunOutput
  <2>3. Run!AllDone => run_held = <<>>
    BY DEF RunInv, RunOutput, Run!AllDone, Threads
  <2> QED  BY <2>1, <2>2, <2>3 DEF Run!OutputAddsUp, Threads
<1> QED  BY <1>1, <1>2, <1>3 DEF Run!RunsAddUp

(* However the threads of a run interleave with its window and its sinks,  *)
(* what its cameras counted is what the sinks were given, nothing is       *)
(* decoded before the gate, and the summary is of a run that has ended     *)
(* (workers/analytics/run.py).                                             *)
THEOREM RunsHold == WorkerSpec => []RunsAddUp
<1>1. WorkerInit => RunInv
  BY RunInit DEF WorkerInit
<1>2. RunInv /\ [WorkerNext]_workerVars => RunInv'
  <2> SUFFICES ASSUME RunInv, [WorkerNext]_workerVars PROVE RunInv'
    OBVIOUS
  <2>1. CASE UNCHANGED runVars
    BY <2>1, RunStep
  <2>2. CASE Run!Next
    BY <2>2, RunStep
  <2> QED  BY <2>1, <2>2 DEF WorkerNext, workerVars
<1>3. RunInv => RunsAddUp
  BY RunParts DEF RunsAddUp
<1> QED  BY <1>1, <1>2, <1>3, PTL DEF WorkerSpec

-----------------------------------------------------------------------------
(* The scrapes.                                                            *)

Under == {"estate", "pipeline", "baseline", "length", "groups", "render"}
Estate == UNION {[S -> Reports] : S \in SUBSET Cameras}
Answers == [at : Nat, of : Estate]
ScrapeType == [at : Under \cup {"idle", "done"}, k : Nat, rows : Answers \cup {NA}, began : Nat, alone : BOOLEAN,
               failed : BOOLEAN, refreshed : SUBSET Scrape!Readings]

Steps == Len(Statements)
Buses == Len(Streams)
Known(n) == {Streams[k] : k \in 1..n}

FamilySets == {Scrape!Families(rows) : rows \in Estate}
GaugeType == [families : FamilySets, estate : Nat \cup {NA}, pipeline : [1..Steps -> Nat \cup {NA}],
              baseline : Nat \cup {NA}, length : SUBSET Known(Buses), groups : SUBSET Known(Buses),
              db : BOOLEAN \cup {NA}, bus : BOOLEAN \cup {NA}]
StampType == [estate : Nat, baseline : Nat]

(* Both readings, since their stamps.                                      *)
EstateRead(g, st) ==
    /\ g.estate \in Nat /\ g.estate >= st.estate
    /\ \A k \in 1..Steps : g.pipeline[k] \in Nat /\ g.pipeline[k] >= g.estate
BaselineRead(g, st) == g.baseline \in Nat /\ g.baseline >= st.baseline

(* Where a scrape may be.                                                  *)
Placed(r, now) ==
    /\ r \in ScrapeType
    /\ r.at = "pipeline" => r.k \in 1..Steps
    /\ r.at \in {"length", "groups"} => r.k \in 1..Buses
    /\ r.began <= now
    /\ r.rows # NA => r.rows.at <= now

(* What a scrape r that nobody overlapped knows of the gauges and stamps:  *)
(* the reading under way is after its stamp, a reading that is over, or    *)
(* was not due, is fresh, and the gauges of reachability are its own.      *)
LoneReading(r, g, st, now, tr) ==
    /\ r.at \in {"estate", "pipeline", "baseline"} => ~ r.failed
    /\ r.at = "estate" => r.began - st.estate < Ttl /\ (r.rows # NA => r.rows.at >= st.estate)
    /\ r.at = "pipeline" =>
          /\ r.began - st.estate < Ttl
          /\ g.estate \in Nat /\ g.estate >= st.estate /\ g.estate <= now
          /\ r.rows # NA => r.rows.at >= g.estate
          /\ \A j \in 1..r.k - 1 : g.pipeline[j] \in Nat /\ g.pipeline[j] >= g.estate
    /\ r.at = "baseline" => r.began - st.baseline < BaselineTtl /\ (r.rows # NA => r.rows.at >= st.baseline)
    /\ r.at \in {"estate", "pipeline"} => r.refreshed = {}
    /\ r.at = "baseline" => r.refreshed \subseteq {"estate"}
    /\ /\ r.at \in {"baseline", "length", "groups", "render"} /\ ~ r.failed
       /\ "estate" \in r.refreshed \/ "estate" \notin tr
       => r.began - st.estate < Ttl /\ EstateRead(g, st)
    /\ /\ r.at \in {"length", "groups", "render"} /\ ~ r.failed
       /\ "baseline" \in r.refreshed \/ "baseline" \notin tr
       => r.began - st.baseline < BaselineTtl /\ BaselineRead(g, st)
LoneBus(r, g) ==
    /\ r.at \in {"length", "groups", "render"} => g.db = ~ r.failed
    /\ r.at = "length" => g.length = Known(r.k - 1) /\ g.groups = Known(r.k - 1)
    /\ r.at = "groups" => g.length = Known(r.k) /\ g.groups = Known(r.k - 1)
    /\ r.at = "render" =>
          \/ g.bus = TRUE /\ g.length = Known(Buses) /\ g.groups = Known(Buses)
          \/ g.bus = FALSE /\ g.groups # Known(Buses)

(* A reading that is not spoilt is fresh until it is due.                  *)
Resting ==
    /\ "estate" \notin scrape_trouble /\ (\A q \in Scrapers : scrape_request[q].at \notin {"estate", "pipeline"}) =>
          scrape_clock - scrape_stamp.estate >= Ttl \/ EstateRead(scrape_gauges, scrape_stamp)
    /\ "baseline" \notin scrape_trouble /\ (\A q \in Scrapers : scrape_request[q].at # "baseline") =>
          scrape_clock - scrape_stamp.baseline >= BaselineTtl \/ BaselineRead(scrape_gauges, scrape_stamp)

(* Nobody is beside a scrape that is alone; while a reading is not spoilt, *)
(* whoever is under way is alone and has not failed.                       *)
InTurn ==
    \A q \in Scrapers : scrape_request[q].at \in Under =>
       /\ scrape_request[q].alone => \A o \in Scrapers : scrape_request[o].at \in Under => o = q
       /\ scrape_trouble # Scrape!Readings => scrape_request[q].alone /\ ~ scrape_request[q].failed

ScrapeTypes ==
    /\ scrape_clock \in 0..MaxTime /\ scrape_events \in 0..Changes
    /\ scrape_estate \in Estate
    /\ scrape_stamp \in StampType
    /\ scrape_stamp.estate <= scrape_clock /\ scrape_stamp.baseline <= scrape_clock
    /\ scrape_trouble \subseteq Scrape!Readings
    /\ scrape_gauges \in GaugeType
    /\ scrape_request \in [Scrapers -> ScrapeType]

Answered ==
    scrape_response # NA =>
       /\ Scrape!EstateAddsUp(scrape_response.shown)
       /\ scrape_response.to.alone => Scrape!OwnFindings(scrape_response) /\ Scrape!Fresh(scrape_response)

ScrapeInv ==
    /\ ScrapeTypes
    /\ \A q \in Scrapers :
          /\ Placed(scrape_request[q], scrape_clock)
          /\ scrape_request[q].alone =>
                /\ LoneReading(scrape_request[q], scrape_gauges, scrape_stamp, scrape_clock, scrape_trouble)
                /\ LoneBus(scrape_request[q], scrape_gauges)
    /\ InTurn /\ Resting /\ Answered

LEMMA ScrapeFacts ==
    /\ IsFiniteSet(Cameras) /\ Ttl \in Nat \ {0} /\ BaselineTtl \in Nat \ {0}
    /\ MaxTime \in Nat /\ Ttl + BaselineTtl <= MaxTime /\ Changes \in Nat
    /\ Steps \in Nat \ {0} /\ DOMAIN Statements = 1..Steps
    /\ Buses \in Nat \ {0} /\ DOMAIN Streams = 1..Buses
    /\ \A i, j \in 1..Buses : Streams[i] = Streams[j] => i = j
    /\ NA \notin Nat /\ NA \notin BOOLEAN
    /\ NA \notin {"high", "middle", "low", "trusted", "degraded", "untrusted", "dead"}
  BY MetricsConstants DEF Scrape!MetricsAssumption, Scrape!IsFiniteSet, IsFiniteSet, Scrape!IsInjective, Steps, Buses

LEMMA ReportsAre ==
    \A row \in Reports : /\ row.score \in {NA, "high", "middle", "low"} /\ row.connectable \in {NA, TRUE, FALSE}
                         /\ row.fps \in BOOLEAN /\ row.retention \in BOOLEAN
  BY MetricsConstants DEF Scrape!MetricsAssumption

LEMMA ScrapeNumber == \A S : Scrape!Cardinality(S) = Cardinality(S)
  BY DEF Scrape!Cardinality, Cardinality

LEMMA BandIs ==
    ASSUME NEW row \in Reports
    PROVE  /\ Scrape!Band(row) \in {NA, "trusted", "degraded", "untrusted", "dead"}
           /\ Scrape!Band(row) = NA <=> row.score = NA
<1>1. CASE row.score = NA
  <2>1. Scrape!Band(row) = NA
    BY <1>1, Zenon DEF Scrape!Band
  <2> QED  BY <1>1, <2>1
<1>2. CASE row.score # NA /\ row.connectable = FALSE
  <2>1. Scrape!Band(row) = "dead"
    BY <1>2, Zenon DEF Scrape!Band
  <2> QED  BY <1>2, <2>1, ScrapeFacts
<1>3. CASE row.score # NA /\ row.connectable # FALSE
  <2> DEFINE colour == CASE row.score = "high" -> "trusted" [] row.score = "middle" -> "degraded"
                         [] row.score = "low" -> "untrusted"
  <2>1. Scrape!Band(row) = colour
    BY <1>3, Zenon DEF Scrape!Band
  <2>2. row.score \in {"high", "middle", "low"}
    BY <1>3, ReportsAre
  <2>3. colour \in {"trusted", "degraded", "untrusted"}
    BY <2>2
  <2> HIDE DEF colour
  <2> QED  BY <1>3, <2>1, <2>3, ScrapeFacts
<1> QED  BY <1>1, <1>2, <1>3

LEMMA TwoParts ==
    ASSUME NEW D, IsFiniteSet(D), NEW S, S \subseteq D
    PROVE  /\ Cardinality(S) \in Nat /\ Cardinality(D \ S) \in Nat /\ Cardinality(D) \in Nat
           /\ Cardinality(S) + Cardinality(D \ S) = Cardinality(D)
<1>1. D \cap S = S /\ IsFiniteSet(S) /\ IsFiniteSet(D \ S)
  BY FS_Subset
<1>2. Cardinality(S) \in Nat /\ Cardinality(D \ S) \in Nat /\ Cardinality(D) \in Nat
  BY <1>1, FS_CardinalityType
<1>3. Cardinality(D \ S) = Cardinality(D) - Cardinality(D \cap S)
  BY FS_Difference
<1>4. Cardinality(D \ S) = Cardinality(D) - Cardinality(S)
  BY <1>1, <1>3
<1> QED  BY <1>2, <1>4

(* Every family is of one reading.                                         *)
LEMMA FamiliesAddUp ==
    ASSUME NEW rows \in Estate, NEW g, g.families = Scrape!Families(rows)
    PROVE  Scrape!EstateAddsUp(g)
<1> DEFINE D == DOMAIN rows
           f == g.families
           InBand(b) == {c \in D : Scrape!Band(rows[c]) = b}
           Scored == {c \in D : rows[c].score # NA}
           Probed == {c \in D : rows[c].connectable # NA}
           Declared == {c \in D : rows[c].retention}
           Yes == {c \in Probed : rows[c].connectable}
           Dark == {c \in D : Scrape!Unmeasurable(rows[c])}
<1>1. D \subseteq Cameras /\ IsFiniteSet(D) /\ \A c \in D : rows[c] \in Reports
  <2>1. PICK S \in SUBSET Cameras : rows \in [S -> Reports]
    BY DEF Estate
  <2> QED  BY <2>1, ScrapeFacts, FS_Subset
<1>2. /\ f.status = D /\ f.unbanded = D \ Scored
      /\ DOMAIN f.band = Scored /\ DOMAIN f.connectable = Probed /\ DOMAIN f.unmeasurable = Dark
      /\ \A c \in Probed : f.connectable[c] = rows[c].connectable
      /\ \A c \in Dark : f.unmeasurable[c] = Scrape!Reason(rows[c])
      /\ f.retention.declared = Cardinality(Declared) /\ f.retention.unknown = Cardinality(D \ Declared)
      /\ f.unscored = Cardinality(D \ Scored)
      /\ f.answering = Cardinality(Yes) /\ f.probed = Cardinality(Probed)
  BY ScrapeNumber DEF Scrape!Families
<1>3. /\ f.byBand["trusted"] = Cardinality(InBand("trusted")) /\ f.byBand["degraded"] = Cardinality(InBand("degraded"))
      /\ f.byBand["untrusted"] = Cardinality(InBand("untrusted")) /\ f.byBand["dead"] = Cardinality(InBand("dead"))
  BY ScrapeNumber DEF Scrape!Families
<1> HIDE DEF f
<1>4. Dark \subseteq Probed
  BY <1>1, ReportsAre DEF Scrape!Unmeasurable
<1>5. \A c \in Dark : f.unmeasurable[c] = "unreachable" <=> f.connectable[c] = FALSE
  BY <1>2, <1>4 DEF Scrape!Reason
<1>6. Cardinality(Declared) + Cardinality(D \ Declared) = Cardinality(D)
  BY <1>1, TwoParts
<1>7. Cardinality(Yes) <= Cardinality(Probed)
  <2>1. IsFiniteSet(Probed) /\ Yes \subseteq Probed
    BY <1>1, FS_Subset
  <2> QED  BY <2>1, FS_Subset
<1>8. Cardinality(D \ Scored) + Cardinality(InBand("trusted")) + Cardinality(InBand("degraded"))
        + Cardinality(InBand("untrusted")) + Cardinality(InBand("dead")) = Cardinality(D)
  <2> DEFINE A == InBand("trusted")
             B == InBand("degraded")
             C == InBand("untrusted")
             E == InBand("dead")
  <2>1. Scored \subseteq D /\ A \subseteq Scored /\ B \subseteq Scored \ A /\ C \subseteq (Scored \ A) \ B
        /\ E = ((Scored \ A) \ B) \ C
    BY <1>1, BandIs, ScrapeFacts
  <2> HIDE DEF D, Scored, A, B, C, E
  <2>2. /\ Cardinality(Scored) + Cardinality(D \ Scored) = Cardinality(D) /\ Cardinality(D \ Scored) \in Nat
        /\ Cardinality(Scored) \in Nat /\ IsFiniteSet(Scored)
    BY <1>1, <2>1, TwoParts, FS_Subset
  <2>3. /\ Cardinality(A) + Cardinality(Scored \ A) = Cardinality(Scored) /\ Cardinality(A) \in Nat
        /\ Cardinality(Scored \ A) \in Nat /\ IsFiniteSet(Scored \ A)
    BY <2>1, <2>2, TwoParts, FS_Subset
  <2>4. /\ Cardinality(B) + Cardinality((Scored \ A) \ B) = Cardinality(Scored \ A) /\ Cardinality(B) \in Nat
        /\ Cardinality((Scored \ A) \ B) \in Nat /\ IsFiniteSet((Scored \ A) \ B)
    BY <2>1, <2>3, TwoParts, FS_Subset
  <2>5. /\ Cardinality(C) + Cardinality(E) = Cardinality((Scored \ A) \ B) /\ Cardinality(C) \in Nat
        /\ Cardinality(E) \in Nat
    BY <2>1, <2>4, TwoParts
  <2>6. Cardinality(D \ Scored) + Cardinality(A) + Cardinality(B) + Cardinality(C) + Cardinality(E) = Cardinality(D)
    BY <2>2, <2>3, <2>4, <2>5
  <2> QED  BY <2>6 DEF A, B, C, E
<1>9. Scored \subseteq D /\ D \ (D \ Scored) = Scored
  OBVIOUS
<1> HIDE DEF D, Scored, Probed, Declared, Yes, Dark, InBand
<1>10. /\ DOMAIN f.band = f.status \ f.unbanded
       /\ DOMAIN f.unmeasurable \subseteq DOMAIN f.connectable
       /\ \A c \in DOMAIN f.unmeasurable : f.unmeasurable[c] = "unreachable" <=> f.connectable[c] = FALSE
       /\ f.retention.declared + f.retention.unknown = Scrape!Cardinality(f.status)
       /\ f.unscored + f.byBand["trusted"] + f.byBand["degraded"] + f.byBand["untrusted"] + f.byBand["dead"]
            = Scrape!Cardinality(f.status)
       /\ f.answering <= f.probed /\ f.probed = Scrape!Cardinality(DOMAIN f.connectable)
  BY <1>2, <1>3, <1>4, <1>5, <1>6, <1>7, <1>8, <1>9, ScrapeNumber
<1> QED  BY <1>10 DEF Scrape!EstateAddsUp, f

LEMMA GaugesAddUp == \A g \in GaugeType : Scrape!EstateAddsUp(g)
<1> SUFFICES ASSUME NEW g \in GaugeType PROVE Scrape!EstateAddsUp(g)
  OBVIOUS
<1>1. PICK rows \in Estate : g.families = Scrape!Families(rows)
  BY DEF GaugeType, FamilySets
<1> QED  BY <1>1, FamiliesAddUp

LEMMA KnownAre ==
    /\ \A n \in Nat : n <= Buses => Known(n) \subseteq Known(Buses)
    /\ Known(0) = {}
    /\ \A n \in 1..Buses : Known(n) = Known(n - 1) \cup {Streams[n]} /\ Known(n - 1) # Known(Buses)
<1>1. \A n \in 1..Buses : Streams[n] \notin Known(n - 1) /\ Streams[n] \in Known(Buses)
  BY ScrapeFacts DEF Known
<1>2. \A n \in 1..Buses : Known(n) = Known(n - 1) \cup {Streams[n]}
  <2> SUFFICES ASSUME NEW n \in 1..Buses PROVE Known(n) = Known(n - 1) \cup {Streams[n]}
    OBVIOUS
  <2>1. 1..n = (1..(n - 1)) \cup {n}
    BY ScrapeFacts
  <2> QED  BY <2>1 DEF Known
<1>3. \A n \in Nat : n <= Buses => Known(n) \subseteq Known(Buses)
  BY ScrapeFacts DEF Known
<1>4. Known(0) = {}
  BY DEF Known
<1> QED  BY <1>1, <1>2, <1>3, <1>4

LEMMA ScrapeInit == Scrape!Init => ScrapeInv
<1> SUFFICES ASSUME Scrape!Init PROVE ScrapeInv
  OBVIOUS
<1>1. /\ scrape_clock = Ttl + BaselineTtl /\ scrape_estate \in [Cameras -> Reports] /\ scrape_events = 0
      /\ scrape_stamp = [estate |-> 0, baseline |-> 0] /\ scrape_gauges = Scrape!Unset
      /\ scrape_request = [q \in Scrapers |-> Scrape!Waiting] /\ scrape_response = NA /\ scrape_trouble = {}
  BY DEF Scrape!Init
<1>2. Scrape!Unset \in GaugeType
  <2>1. [c \in {} |-> NA] \in Estate
    <3>1. {} \in SUBSET Cameras /\ [c \in {} |-> NA] \in [{} -> Reports]
      OBVIOUS
    <3> QED  BY <3>1 DEF Estate
  <2>2. Scrape!Families([c \in {} |-> NA]) \in FamilySets
    BY <2>1 DEF FamilySets
  <2>3. [k \in 1..Steps |-> NA] \in [1..Steps -> Nat \cup {NA}]
    OBVIOUS
  <2>4. DOMAIN Statements = 1..Steps
    BY ScrapeFacts
  <2> QED  BY <2>2, <2>3, <2>4 DEF Scrape!Unset, GaugeType
<1>3. /\ Scrape!Waiting \in ScrapeType /\ Scrape!Waiting.at = "idle" /\ Scrape!Waiting.began = 0
      /\ Scrape!Waiting.rows = NA
  BY DEF Scrape!Waiting, ScrapeType
<1>4. ScrapeTypes
  <2>1. scrape_estate \in Estate
    BY <1>1 DEF Estate
  <2> QED  BY <1>1, <1>2, <1>3, <2>1, ScrapeFacts DEF ScrapeTypes, StampType
<1>5. \A q \in Scrapers : scrape_request[q] = Scrape!Waiting
  BY <1>1
<1>6. \A q \in Scrapers : Placed(scrape_request[q], scrape_clock)
  BY <1>1, <1>3, <1>5, ScrapeFacts DEF Placed
<1>7. \A q \in Scrapers : /\ LoneReading(scrape_request[q], scrape_gauges, scrape_stamp, scrape_clock, scrape_trouble)
                          /\ LoneBus(scrape_request[q], scrape_gauges)
  BY <1>3, <1>5 DEF LoneReading, LoneBus
<1>8. InTurn
  BY <1>3, <1>5 DEF InTurn, Under
<1>9. Resting
  BY <1>1, ScrapeFacts DEF Resting
<1> QED  BY <1>1, <1>4, <1>6, <1>7, <1>8, <1>9 DEF ScrapeInv, Answered

(* A scrape that is under way moves on and has not responded yet.          *)
LEMMA ScrapeMoves ==
    ASSUME ScrapeInv, NEW q \in Scrapers, scrape_request[q].at \in Under,
           NEW r, Placed(r, scrape_clock), r.at \in Under, r.alone = scrape_request[q].alone,
           scrape_request' = [scrape_request EXCEPT ![q] = r],
           UNCHANGED <<scrape_clock, scrape_estate, scrape_events>>, scrape_response' = NA,
           scrape_stamp' \in StampType,
           scrape_stamp'.estate <= scrape_clock /\ scrape_stamp'.baseline <= scrape_clock,
           scrape_gauges' \in GaugeType,
           scrape_trouble' = Scrape!Readings \/ (UNCHANGED scrape_trouble /\ r.failed = scrape_request[q].failed),
           r.alone => /\ LoneReading(r, scrape_gauges', scrape_stamp', scrape_clock, scrape_trouble')
                      /\ LoneBus(r, scrape_gauges'),
           r.at \in {"estate", "pipeline"} => /\ scrape_gauges'.baseline = scrape_gauges.baseline
                                              /\ scrape_stamp'.baseline = scrape_stamp.baseline
                                              /\ scrape_request[q].at \in {"estate", "pipeline"}
    PROVE  ScrapeInv'
<1>1. scrape_request \in [Scrapers -> ScrapeType] /\ scrape_trouble \subseteq Scrape!Readings
  BY DEF ScrapeInv, ScrapeTypes
<1>2. r \in ScrapeType
  BY DEF Placed
<1>3. scrape_request' \in [Scrapers -> ScrapeType] /\ \A o \in Scrapers : scrape_request'[o] = IF o = q THEN r ELSE scrape_request[o]
  BY <1>1, <1>2
<1>4. ScrapeTypes'
  BY <1>3 DEF ScrapeInv, ScrapeTypes
<1>5. ASSUME NEW o \in Scrapers
      PROVE  /\ Placed(scrape_request'[o], scrape_clock')
             /\ scrape_request'[o].alone =>
                  /\ LoneReading(scrape_request'[o], scrape_gauges', scrape_stamp', scrape_clock', scrape_trouble')
                  /\ LoneBus(scrape_request'[o], scrape_gauges')
  <2>1. CASE o = q
    BY <1>3, <2>1
  <2>2. CASE o # q
    <3>1. scrape_request'[o] = scrape_request[o] /\ Placed(scrape_request[o], scrape_clock)
      BY <1>3, <2>2 DEF ScrapeInv
    <3>2. scrape_request[o].alone => scrape_request[o].at \notin Under
      BY <2>2 DEF ScrapeInv, InTurn
    <3> QED  BY <3>1, <3>2 DEF LoneReading, LoneBus, Under
  <2> QED  BY <2>1, <2>2
<1>6. InTurn'
  <2> SUFFICES ASSUME NEW o \in Scrapers, scrape_request'[o].at \in Under
               PROVE  /\ scrape_request'[o].alone => \A p \in Scrapers : scrape_request'[p].at \in Under => p = o
                      /\ scrape_trouble' # Scrape!Readings => scrape_request'[o].alone /\ ~ scrape_request'[o].failed
    BY DEF InTurn
  <2>1. scrape_request[o].at \in Under /\ scrape_request'[o].alone = scrape_request[o].alone
    BY <1>3
  <2>2. scrape_request'[o].alone => \A p \in Scrapers : scrape_request'[p].at \in Under => p = o
    BY <1>3, <2>1 DEF ScrapeInv, InTurn
  <2>3. scrape_trouble' # Scrape!Readings => scrape_request'[o].alone /\ ~ scrape_request'[o].failed
    BY <1>3, <2>1 DEF ScrapeInv, InTurn
  <2> QED  BY <2>2, <2>3
<1>7. Resting'
  <2>1. ASSUME scrape_trouble' # Scrape!Readings
        PROVE  /\ UNCHANGED scrape_trouble /\ r.alone /\ ~ r.failed
               /\ \A o \in Scrapers : o # q => scrape_request[o].at \notin Under
    BY <2>1 DEF ScrapeInv, InTurn
  <2>2. ASSUME "estate" \notin scrape_trouble', \A o \in Scrapers : scrape_request'[o].at \notin {"estate", "pipeline"}
        PROVE  EstateRead(scrape_gauges', scrape_stamp')
    <3>1. r.at \notin {"estate", "pipeline"} /\ scrape_trouble' # Scrape!Readings
      BY <1>3, <2>2 DEF Scrape!Readings
    <3> QED  BY <2>1, <2>2, <3>1 DEF LoneReading, Under
  <2>3. ASSUME "baseline" \notin scrape_trouble', \A o \in Scrapers : scrape_request'[o].at # "baseline"
        PROVE  \/ scrape_clock - scrape_stamp'.baseline >= BaselineTtl
               \/ BaselineRead(scrape_gauges', scrape_stamp')
    <3>1. r.at # "baseline" /\ scrape_trouble' # Scrape!Readings
      BY <1>3, <2>3 DEF Scrape!Readings
    <3>2. CASE r.at \in {"estate", "pipeline"}
      <4>1. \A o \in Scrapers : scrape_request[o].at # "baseline"
        BY <2>1, <3>1, <3>2 DEF Under
      <4>2. "baseline" \notin scrape_trouble
        BY <2>1, <2>3, <3>1
      <4>3. \/ scrape_clock - scrape_stamp.baseline >= BaselineTtl
            \/ BaselineRead(scrape_gauges, scrape_stamp)
        BY <4>1, <4>2 DEF ScrapeInv, Resting
      <4> QED  BY <3>2, <4>3 DEF BaselineRead
    <3>3. CASE r.at \notin {"estate", "pipeline"}
      BY <2>1, <2>3, <3>1, <3>3 DEF LoneReading, Under
    <3> QED  BY <3>2, <3>3
  <2> QED  BY <2>2, <2>3 DEF Resting
<1> QED  BY <1>4, <1>5, <1>6, <1>7 DEF ScrapeInv, Answered

(* What is known of a scrape that is under way.                            *)
LEMMA ScrapeIs ==
    ASSUME ScrapeInv, NEW q \in Scrapers
    PROVE  /\ Placed(scrape_request[q], scrape_clock) /\ scrape_request[q] \in ScrapeType
           /\ scrape_request[q].alone =>
                 /\ LoneReading(scrape_request[q], scrape_gauges, scrape_stamp, scrape_clock, scrape_trouble)
                 /\ LoneBus(scrape_request[q], scrape_gauges)
           /\ scrape_clock \in Nat /\ scrape_estate \in Estate /\ scrape_stamp \in StampType /\ scrape_gauges \in GaugeType
           /\ scrape_stamp.estate <= scrape_clock /\ scrape_stamp.baseline <= scrape_clock
           /\ scrape_stamp.estate \in Nat /\ scrape_stamp.baseline \in Nat
           /\ scrape_trouble \subseteq Scrape!Readings
           /\ Ttl \in Nat \ {0} /\ BaselineTtl \in Nat \ {0} /\ Steps \in Nat \ {0} /\ Buses \in Nat \ {0}
  BY ScrapeFacts DEF ScrapeInv, ScrapeTypes, Placed, StampType

LEMMA ReadStep == ASSUME ScrapeInv, NEW q \in Scrapers, Scrape!Read(q) PROVE ScrapeInv'
<1> DEFINE o == scrape_request[q]
           answer == [at |-> scrape_clock, of |-> scrape_estate]
           r == [o EXCEPT !.rows = answer]
<1>1. /\ Placed(o, scrape_clock) /\ o \in ScrapeType
      /\ o.alone => /\ LoneReading(o, scrape_gauges, scrape_stamp, scrape_clock, scrape_trouble)
                    /\ LoneBus(o, scrape_gauges)
      /\ scrape_clock \in Nat /\ scrape_estate \in Estate /\ scrape_stamp \in StampType /\ scrape_gauges \in GaugeType
      /\ scrape_stamp.estate <= scrape_clock /\ scrape_stamp.baseline <= scrape_clock
  BY ScrapeIs
<1>2. /\ o.at \in {"estate", "pipeline", "baseline"}
      /\ scrape_request' = [scrape_request EXCEPT ![q] = r] /\ scrape_response' = NA
      /\ UNCHANGED <<scrape_clock, scrape_estate, scrape_events, scrape_stamp, scrape_gauges, scrape_trouble>>
  BY DEF Scrape!Read, Scrape!Asking
<1>3. answer \in Answers /\ answer.at = scrape_clock
  BY <1>1 DEF Answers
<1> HIDE DEF answer
<1>4. /\ r \in ScrapeType /\ r.at = o.at /\ r.k = o.k /\ r.rows = answer /\ r.began = o.began /\ r.alone = o.alone
      /\ r.failed = o.failed /\ r.refreshed = o.refreshed
  BY <1>1, <1>3 DEF ScrapeType
<1> HIDE DEF r, o
<1>5. Placed(r, scrape_clock)
  BY <1>1, <1>3, <1>4 DEF Placed
<1>6. r.alone => /\ LoneReading(r, scrape_gauges', scrape_stamp', scrape_clock, scrape_trouble')
                 /\ LoneBus(r, scrape_gauges')
  BY <1>1, <1>2, <1>3, <1>4 DEF LoneReading, LoneBus
<1> QED  BY <1>1, <1>2, <1>4, <1>5, <1>6, ScrapeMoves DEF Under, o

LEMMA RefusedStep == ASSUME ScrapeInv, NEW q \in Scrapers, Scrape!Refused(q) PROVE ScrapeInv'
<1> DEFINE o == scrape_request[q]
           r == [o EXCEPT !.at = "length", !.k = 1, !.rows = NA, !.failed = TRUE]
           g == [scrape_gauges EXCEPT !.db = FALSE, !.length = {}, !.groups = {}]
<1>1. /\ Placed(o, scrape_clock) /\ o \in ScrapeType
      /\ scrape_clock \in Nat /\ scrape_stamp \in StampType /\ scrape_gauges \in GaugeType
      /\ scrape_stamp.estate <= scrape_clock /\ scrape_stamp.baseline <= scrape_clock /\ Buses \in Nat \ {0}
  BY ScrapeIs
<1>2. /\ o.at \in {"estate", "pipeline", "baseline"}
      /\ scrape_request' = [scrape_request EXCEPT ![q] = [[o EXCEPT !.failed = TRUE] EXCEPT !.at = "length", !.k = 1, !.rows = NA]]
      /\ scrape_gauges' = [[scrape_gauges EXCEPT !.db = FALSE] EXCEPT !.length = {}, !.groups = {}]
      /\ scrape_trouble' = Scrape!Readings /\ scrape_response' = NA
      /\ UNCHANGED <<scrape_clock, scrape_estate, scrape_events, scrape_stamp>>
  BY DEF Scrape!Refused, Scrape!Asking, Scrape!ToTheBus
<1>3. /\ r \in ScrapeType /\ r.at = "length" /\ r.k = 1 /\ r.rows = NA /\ r.began = o.began /\ r.alone = o.alone
      /\ r.failed = TRUE /\ r.refreshed = o.refreshed
      /\ r = [[o EXCEPT !.failed = TRUE] EXCEPT !.at = "length", !.k = 1, !.rows = NA]
  BY <1>1 DEF ScrapeType, Under
<1>4. /\ g \in GaugeType /\ g.db = FALSE /\ g.length = {} /\ g.groups = {}
      /\ g = [[scrape_gauges EXCEPT !.db = FALSE] EXCEPT !.length = {}, !.groups = {}]
  BY <1>1 DEF GaugeType
<1> HIDE DEF r, o, g
<1>5. Placed(r, scrape_clock)
  BY <1>1, <1>3 DEF Placed
<1>6. Known(1 - 1) = {}
  BY KnownAre
<1>7. /\ LoneReading(r, g, scrape_stamp, scrape_clock, scrape_trouble')
      /\ LoneBus(r, g)
  BY <1>3, <1>4, <1>6 DEF LoneReading, LoneBus
<1> QED  BY <1>1, <1>2, <1>3, <1>4, <1>5, <1>7, ScrapeMoves DEF Under, o

LEMMA EstateLandsStep == ASSUME ScrapeInv, NEW q \in Scrapers, Scrape!EstateLands(q) PROVE ScrapeInv'
<1> DEFINE o == scrape_request[q]
           r == [o EXCEPT !.at = "pipeline", !.k = 1, !.rows = NA]
           families == Scrape!Families(o.rows.of)
           g == [scrape_gauges EXCEPT !.families = families, !.estate = o.rows.at]
<1>1. /\ Placed(o, scrape_clock) /\ o \in ScrapeType
      /\ o.alone => LoneReading(o, scrape_gauges, scrape_stamp, scrape_clock, scrape_trouble)
      /\ scrape_clock \in Nat /\ scrape_stamp \in StampType /\ scrape_gauges \in GaugeType
      /\ scrape_stamp.estate <= scrape_clock /\ scrape_stamp.baseline <= scrape_clock /\ Steps \in Nat \ {0}
  BY ScrapeIs
<1>2. /\ o.at = "estate" /\ o.rows # NA
      /\ scrape_request' = [scrape_request EXCEPT ![q] = r]
      /\ scrape_gauges' = g /\ scrape_response' = NA
      /\ UNCHANGED <<scrape_clock, scrape_estate, scrape_events, scrape_stamp, scrape_trouble>>
  BY DEF Scrape!EstateLands
<1>3. o.rows \in Answers /\ o.rows.at \in Nat /\ o.rows.at <= scrape_clock /\ families \in FamilySets
  BY <1>1, <1>2 DEF ScrapeType, Answers, Placed, FamilySets
<1> HIDE DEF families
<1>4. /\ r \in ScrapeType /\ r.at = "pipeline" /\ r.k = 1 /\ r.rows = NA /\ r.began = o.began /\ r.alone = o.alone
      /\ r.failed = o.failed /\ r.refreshed = o.refreshed
  BY <1>1 DEF ScrapeType, Under
<1>5. g \in GaugeType /\ g.estate = o.rows.at /\ g.baseline = scrape_gauges.baseline
  BY <1>1, <1>3 DEF GaugeType
<1> HIDE DEF r, o, g
<1>6. Placed(r, scrape_clock)
  BY <1>1, <1>4 DEF Placed
<1>7. r.alone => LoneReading(r, g, scrape_stamp, scrape_clock, scrape_trouble) /\ LoneBus(r, g)
  BY <1>1, <1>2, <1>3, <1>4, <1>5 DEF LoneReading, LoneBus
<1> QED  BY <1>1, <1>2, <1>4, <1>5, <1>6, <1>7, ScrapeMoves DEF Under, o

(* The last statement has landed: the baseline is due, or the bus is next. *)
LEMMA ToTheBaselineStep ==
    ASSUME ScrapeInv, NEW q \in Scrapers, scrape_request[q].at = "pipeline", scrape_request[q].k = Steps,
           scrape_request[q].rows # NA,
           NEW g \in GaugeType, g = [scrape_gauges EXCEPT !.pipeline[Steps] = scrape_request[q].rows.at],
           Scrape!ToTheBaseline(q, g, [scrape_request[q] EXCEPT !.refreshed = @ \cup {"estate"}]),
           scrape_response' = NA, UNCHANGED <<scrape_clock, scrape_estate, scrape_events, scrape_trouble>>
    PROVE  ScrapeInv'
<1> DEFINE o == scrape_request[q]
           refreshed == o.refreshed \cup {"estate"}
           n == [o EXCEPT !.refreshed = refreshed]
<1>1. /\ Placed(o, scrape_clock) /\ o \in ScrapeType
      /\ o.alone => LoneReading(o, scrape_gauges, scrape_stamp, scrape_clock, scrape_trouble)
      /\ scrape_clock \in Nat /\ scrape_stamp \in StampType /\ scrape_gauges \in GaugeType
      /\ scrape_stamp.estate <= scrape_clock /\ scrape_stamp.baseline <= scrape_clock /\ Steps \in Nat \ {0}
      /\ scrape_stamp.estate \in Nat /\ scrape_stamp.baseline \in Nat /\ BaselineTtl \in Nat \ {0} /\ Buses \in Nat \ {0}
  BY ScrapeIs
<1>2. /\ o.rows.at \in Nat /\ o.rows.at <= scrape_clock /\ o.began \in Nat /\ o.began <= scrape_clock
      /\ refreshed \subseteq Scrape!Readings
  BY <1>1 DEF ScrapeType, Answers, Placed, Scrape!Readings
<1>3. /\ g.families = scrape_gauges.families /\ g.estate = scrape_gauges.estate /\ g.baseline = scrape_gauges.baseline
      /\ g.pipeline = [scrape_gauges.pipeline EXCEPT ![Steps] = o.rows.at]
  BY <1>1 DEF GaugeType
<1>4. \A k \in 1..Steps : g.pipeline[k] = IF k = Steps THEN o.rows.at ELSE scrape_gauges.pipeline[k]
  BY <1>1, <1>3 DEF GaugeType
<1>5. o.alone => /\ ~ o.failed /\ o.began - scrape_stamp.estate < Ttl /\ EstateRead(g, scrape_stamp) /\ o.refreshed = {}
  BY <1>1, <1>2, <1>3, <1>4 DEF LoneReading, EstateRead
<1> HIDE DEF refreshed
<1>6. /\ n \in ScrapeType /\ n.at = o.at /\ n.k = o.k /\ n.rows = o.rows /\ n.began = o.began /\ n.alone = o.alone
      /\ n.failed = o.failed /\ n.refreshed = refreshed
  BY <1>1, <1>2 DEF ScrapeType
<1>7. Scrape!ToTheBaseline(q, g, n)
  BY DEF refreshed
<1> HIDE DEF n
<1>8. CASE /\ scrape_stamp' = [scrape_stamp EXCEPT !.baseline = scrape_clock] /\ scrape_gauges' = g
           /\ scrape_request' = [scrape_request EXCEPT ![q] = [n EXCEPT !.at = "baseline", !.rows = NA]]
  <2> DEFINE r == [n EXCEPT !.at = "baseline", !.rows = NA]
  <2>1. /\ r \in ScrapeType /\ r.at = "baseline" /\ r.rows = NA /\ r.began = o.began /\ r.alone = o.alone
        /\ r.failed = o.failed /\ r.refreshed = refreshed
    BY <1>6 DEF ScrapeType, Under
  <2>2. /\ scrape_stamp' \in StampType /\ scrape_stamp'.estate = scrape_stamp.estate /\ scrape_stamp'.baseline = scrape_clock
    BY <1>1, <1>8 DEF StampType
  <2>3. scrape_request' = [scrape_request EXCEPT ![q] = r]
    BY <1>8
  <2> HIDE DEF r
  <2>4. Placed(r, scrape_clock)
    BY <1>2, <2>1 DEF Placed
  <2>5. r.alone => LoneReading(r, g, scrape_stamp', scrape_clock, scrape_trouble) /\ LoneBus(r, g)
    BY <1>1, <1>2, <1>5, <2>1, <2>2 DEF LoneReading, LoneBus, EstateRead, refreshed
  <2>6. scrape_stamp'.estate <= scrape_clock /\ scrape_stamp'.baseline <= scrape_clock
    BY <1>1, <2>2
  <2>7. scrape_gauges' \in GaugeType /\ r.at \in Under /\ o.at \in Under
    BY <1>8, <2>1 DEF Under
  <2>8. r.alone => LoneReading(r, scrape_gauges', scrape_stamp', scrape_clock, scrape_trouble') /\ LoneBus(r, scrape_gauges')
    BY <1>8, <2>5
  <2>9. ~ (r.at \in {"estate", "pipeline"})
    BY <2>1
  <2> QED  BY <2>1, <2>2, <2>3, <2>4, <2>6, <2>7, <2>8, <2>9, ScrapeMoves
<1>9. CASE /\ ~ Scrape!Due("baseline", BaselineTtl) /\ Scrape!ToTheBus(q, [g EXCEPT !.db = TRUE], n)
           /\ UNCHANGED scrape_stamp
  <2> DEFINE r == [n EXCEPT !.at = "length", !.k = 1, !.rows = NA]
             h == [g EXCEPT !.db = TRUE, !.length = {}, !.groups = {}]
  <2>1. /\ r \in ScrapeType /\ r.at = "length" /\ r.k = 1 /\ r.rows = NA /\ r.began = o.began /\ r.alone = o.alone
        /\ r.failed = o.failed /\ r.refreshed = refreshed
    BY <1>6 DEF ScrapeType, Under
  <2>2. /\ h \in GaugeType /\ h.db = TRUE /\ h.length = {} /\ h.groups = {} /\ h.estate = g.estate /\ h.pipeline = g.pipeline
        /\ h.baseline = g.baseline /\ h = [[g EXCEPT !.db = TRUE] EXCEPT !.length = {}, !.groups = {}]
    BY DEF GaugeType
  <2>3. scrape_request' = [scrape_request EXCEPT ![q] = r] /\ scrape_gauges' = h
    BY <1>9, <2>2 DEF Scrape!ToTheBus
  <2>4. ~ (scrape_clock - scrape_stamp.baseline >= BaselineTtl)
    BY <1>9 DEF Scrape!Due
  <2> HIDE DEF r, h
  <2>5. Placed(r, scrape_clock)
    BY <1>1, <1>2, <2>1 DEF Placed
  <2>6. Known(1 - 1) = {}
    BY KnownAre
  <2>7. ASSUME o.alone, "baseline" \notin scrape_trouble
        PROVE  BaselineRead(scrape_gauges, scrape_stamp)
    <3>1. \A p \in Scrapers : scrape_request[p].at # "baseline"
      BY <2>7 DEF ScrapeInv, InTurn, Under
    <3> QED  BY <2>4, <2>7, <3>1 DEF ScrapeInv, Resting
  <2>8. o.alone => "baseline" \notin refreshed
    BY <1>5 DEF refreshed
  <2>9. r.alone => LoneReading(r, h, scrape_stamp, scrape_clock, scrape_trouble)
    BY <1>1, <1>2, <1>3, <1>5, <2>1, <2>2, <2>4, <2>7, <2>8 DEF LoneReading, EstateRead, BaselineRead
  <2>10. r.alone => LoneBus(r, h)
    BY <1>5, <2>1, <2>2, <2>6 DEF LoneBus
  <2> HIDE DEF o
  <2> QED  BY <1>1, <1>9, <2>1, <2>2, <2>3, <2>5, <2>9, <2>10, ScrapeMoves DEF Under, o
<1> QED  BY <1>7, <1>8, <1>9 DEF Scrape!ToTheBaseline

LEMMA PipelineLandsStep == ASSUME ScrapeInv, NEW q \in Scrapers, Scrape!PipelineLands(q) PROVE ScrapeInv'
<1> DEFINE o == scrape_request[q]
           pipeline == [scrape_gauges.pipeline EXCEPT ![o.k] = o.rows.at]
           g == [scrape_gauges EXCEPT !.pipeline[o.k] = o.rows.at]
<1>1. /\ Placed(o, scrape_clock) /\ o \in ScrapeType
      /\ o.alone => LoneReading(o, scrape_gauges, scrape_stamp, scrape_clock, scrape_trouble)
      /\ scrape_clock \in Nat /\ scrape_stamp \in StampType /\ scrape_gauges \in GaugeType
      /\ scrape_stamp.estate <= scrape_clock /\ scrape_stamp.baseline <= scrape_clock /\ Steps \in Nat \ {0}
  BY ScrapeIs
<1>2. /\ o.at = "pipeline" /\ o.rows # NA /\ scrape_response' = NA
      /\ UNCHANGED <<scrape_clock, scrape_estate, scrape_events, scrape_trouble>>
  BY DEF Scrape!PipelineLands
<1>3. o.k \in 1..Steps /\ o.rows.at \in Nat /\ o.rows.at <= scrape_clock
  BY <1>1, <1>2 DEF Placed, ScrapeType, Answers
<1>4. scrape_gauges.pipeline \in [1..Steps -> Nat \cup {NA}]
  BY <1>1 DEF GaugeType
<1>5. /\ pipeline \in [1..Steps -> Nat \cup {NA}]
      /\ \A k \in 1..Steps : pipeline[k] = IF k = o.k THEN o.rows.at ELSE scrape_gauges.pipeline[k]
  BY <1>3, <1>4
<1>6. g = [scrape_gauges EXCEPT !.pipeline = pipeline]
  OBVIOUS
<1> HIDE DEF pipeline, g
<1>7. g \in GaugeType /\ g.estate = scrape_gauges.estate /\ g.baseline = scrape_gauges.baseline /\ g.pipeline = pipeline
  BY <1>1, <1>5, <1>6 DEF GaugeType
<1>8. CASE /\ o.k < Steps /\ scrape_gauges' = g /\ UNCHANGED scrape_stamp
           /\ scrape_request' = [scrape_request EXCEPT ![q] = [o EXCEPT !.k = o.k + 1, !.rows = NA]]
  <2> DEFINE k == o.k + 1
             r == [o EXCEPT !.k = k, !.rows = NA]
  <2>1. k \in Nat /\ k \in 1..Steps /\ k - 1 = o.k
    BY <1>1, <1>3, <1>8
  <2>2. scrape_request' = [scrape_request EXCEPT ![q] = r]
    BY <1>8
  <2> HIDE DEF k
  <2>3. /\ r \in ScrapeType /\ r.at = "pipeline" /\ r.k = k /\ r.rows = NA /\ r.began = o.began /\ r.alone = o.alone
        /\ r.failed = o.failed /\ r.refreshed = o.refreshed
    BY <1>1, <1>2, <2>1 DEF ScrapeType
  <2> HIDE DEF r, o
  <2>4. Placed(r, scrape_clock)
    BY <1>1, <2>1, <2>3 DEF Placed
  <2>5. r.alone => LoneReading(r, g, scrape_stamp, scrape_clock, scrape_trouble) /\ LoneBus(r, g)
    <3>1. ASSUME r.alone
          PROVE  \A j \in 1..r.k - 1 : g.pipeline[j] \in Nat /\ g.pipeline[j] >= g.estate
      <4> SUFFICES ASSUME NEW j \in 1..o.k PROVE g.pipeline[j] \in Nat /\ g.pipeline[j] >= g.estate
        BY <2>1, <2>3
      <4>1. j \in 1..Steps
        BY <1>1, <1>3
      <4>2. o.k = j \/ j \in 1..o.k - 1
        BY <1>3
      <4> QED  BY <1>1, <1>2, <1>3, <1>5, <1>7, <2>3, <3>1, <4>1, <4>2 DEF LoneReading
    <3> QED  BY <1>1, <1>2, <1>7, <2>3, <3>1 DEF LoneReading, LoneBus
  <2>6. /\ r.at \in Under /\ o.at \in Under /\ o.at \in {"estate", "pipeline"} /\ scrape_gauges' \in GaugeType
        /\ scrape_gauges'.baseline = scrape_gauges.baseline
    BY <1>2, <1>7, <1>8, <2>3 DEF Under
  <2>7. r.alone => /\ LoneReading(r, scrape_gauges', scrape_stamp', scrape_clock, scrape_trouble')
                   /\ LoneBus(r, scrape_gauges')
    BY <1>2, <1>8, <2>5
  <2> USE DEF o
  <2> QED  BY <1>1, <1>2, <1>8, <2>2, <2>3, <2>4, <2>6, <2>7, ScrapeMoves
<1>9. CASE o.k = Steps /\ Scrape!ToTheBaseline(q, g, [o EXCEPT !.refreshed = @ \cup {"estate"}])
  <2>1. g = [scrape_gauges EXCEPT !.pipeline[Steps] = o.rows.at]
    BY <1>9 DEF g
  <2> QED  BY <1>2, <1>7, <1>9, <2>1, ToTheBaselineStep
<1> QED  BY <1>8, <1>9 DEF Scrape!PipelineLands, Steps, g

LEMMA BaselineLandsStep == ASSUME ScrapeInv, NEW q \in Scrapers, Scrape!BaselineLands(q) PROVE ScrapeInv'
<1> DEFINE o == scrape_request[q]
           refreshed == o.refreshed \cup {"baseline"}
           r == [o EXCEPT !.at = "length", !.k = 1, !.rows = NA, !.refreshed = refreshed]
           g == [scrape_gauges EXCEPT !.baseline = o.rows.at, !.db = TRUE, !.length = {}, !.groups = {}]
<1>1. /\ Placed(o, scrape_clock) /\ o \in ScrapeType
      /\ o.alone => LoneReading(o, scrape_gauges, scrape_stamp, scrape_clock, scrape_trouble)
      /\ scrape_clock \in Nat /\ scrape_stamp \in StampType /\ scrape_gauges \in GaugeType
      /\ scrape_stamp.estate <= scrape_clock /\ scrape_stamp.baseline <= scrape_clock /\ Buses \in Nat \ {0}
  BY ScrapeIs
<1>2. /\ o.at = "baseline" /\ o.rows # NA /\ scrape_response' = NA
      /\ scrape_request' = [scrape_request EXCEPT ![q] = [[o EXCEPT !.refreshed = refreshed] EXCEPT !.at = "length", !.k = 1, !.rows = NA]]
      /\ scrape_gauges' = [[scrape_gauges EXCEPT !.baseline = o.rows.at, !.db = TRUE] EXCEPT !.length = {}, !.groups = {}]
      /\ UNCHANGED <<scrape_clock, scrape_estate, scrape_events, scrape_stamp, scrape_trouble>>
  BY DEF Scrape!BaselineLands, Scrape!ToTheBus
<1>3. o.rows.at \in Nat /\ refreshed \subseteq Scrape!Readings
  BY <1>1, <1>2 DEF ScrapeType, Answers, Scrape!Readings
<1>4. o.alone => ~ o.failed /\ refreshed \subseteq {"estate", "baseline"} /\ ("estate" \in refreshed => "estate" \in o.refreshed)
  BY <1>1, <1>2 DEF LoneReading
<1> HIDE DEF refreshed
<1>5. /\ r \in ScrapeType /\ r.at = "length" /\ r.k = 1 /\ r.rows = NA /\ r.began = o.began /\ r.alone = o.alone
      /\ r.failed = o.failed /\ r.refreshed = refreshed
      /\ r = [[o EXCEPT !.refreshed = refreshed] EXCEPT !.at = "length", !.k = 1, !.rows = NA]
  BY <1>1, <1>3 DEF ScrapeType, Under
<1>6. /\ g \in GaugeType /\ g.db = TRUE /\ g.length = {} /\ g.groups = {} /\ g.estate = scrape_gauges.estate
      /\ g.baseline = o.rows.at /\ g.pipeline = scrape_gauges.pipeline
      /\ g = [[scrape_gauges EXCEPT !.baseline = o.rows.at, !.db = TRUE] EXCEPT !.length = {}, !.groups = {}]
  BY <1>1, <1>3 DEF GaugeType
<1> HIDE DEF r, g, o
<1>7. Placed(r, scrape_clock)
  BY <1>1, <1>5 DEF Placed
<1>8. Known(1 - 1) = {}
  BY KnownAre
<1>9. r.alone => LoneReading(r, g, scrape_stamp, scrape_clock, scrape_trouble)
  BY <1>1, <1>2, <1>3, <1>4, <1>5, <1>6 DEF LoneReading, EstateRead, BaselineRead
<1>10. r.alone => LoneBus(r, g)
  BY <1>4, <1>5, <1>6, <1>8 DEF LoneBus
<1> QED  BY <1>1, <1>2, <1>5, <1>6, <1>7, <1>9, <1>10, ScrapeMoves DEF Under, o

LEMMA LengthStep == ASSUME ScrapeInv, NEW q \in Scrapers, Scrape!Length(q) PROVE ScrapeInv'
<1> DEFINE o == scrape_request[q]
           r == [o EXCEPT !.at = "groups"]
           length == scrape_gauges.length \cup {Streams[o.k]}
           g == [scrape_gauges EXCEPT !.length = length]
<1>1. /\ Placed(o, scrape_clock) /\ o \in ScrapeType
      /\ o.alone => /\ LoneReading(o, scrape_gauges, scrape_stamp, scrape_clock, scrape_trouble)
                    /\ LoneBus(o, scrape_gauges)
      /\ scrape_clock \in Nat /\ scrape_stamp \in StampType /\ scrape_gauges \in GaugeType
      /\ scrape_stamp.estate <= scrape_clock /\ scrape_stamp.baseline <= scrape_clock /\ Buses \in Nat \ {0}
  BY ScrapeIs
<1>2. /\ o.at = "length" /\ scrape_response' = NA
      /\ scrape_request' = [scrape_request EXCEPT ![q] = r] /\ scrape_gauges' = g
      /\ UNCHANGED <<scrape_clock, scrape_estate, scrape_events, scrape_stamp, scrape_trouble>>
  BY DEF Scrape!Length
<1>3. o.k \in 1..Buses
  BY <1>1, <1>2 DEF Placed
<1>4. length \in SUBSET Known(Buses)
  BY <1>1, <1>3 DEF GaugeType, Known
<1>5. o.alone => length = Known(o.k)
  BY <1>1, <1>2, <1>3, KnownAre DEF LoneBus
<1> HIDE DEF length
<1>6. /\ r \in ScrapeType /\ r.at = "groups" /\ r.k = o.k /\ r.rows = o.rows /\ r.began = o.began /\ r.alone = o.alone
      /\ r.failed = o.failed /\ r.refreshed = o.refreshed
  BY <1>1 DEF ScrapeType, Under
<1>7. /\ g \in GaugeType /\ g.db = scrape_gauges.db /\ g.length = length /\ g.groups = scrape_gauges.groups
      /\ g.estate = scrape_gauges.estate /\ g.baseline = scrape_gauges.baseline /\ g.pipeline = scrape_gauges.pipeline
  BY <1>1, <1>4 DEF GaugeType
<1> HIDE DEF r, g, o
<1>8. Placed(r, scrape_clock)
  BY <1>1, <1>3, <1>6 DEF Placed
<1>9. r.alone => LoneReading(r, g, scrape_stamp, scrape_clock, scrape_trouble)
  BY <1>1, <1>2, <1>6, <1>7 DEF LoneReading, EstateRead, BaselineRead
<1>10. r.alone => LoneBus(r, g)
  BY <1>1, <1>2, <1>5, <1>6, <1>7 DEF LoneBus
<1> QED  BY <1>1, <1>2, <1>6, <1>7, <1>8, <1>9, <1>10, ScrapeMoves DEF Under, o

LEMMA GroupsStep == ASSUME ScrapeInv, NEW q \in Scrapers, Scrape!Groups(q) PROVE ScrapeInv'
<1> DEFINE o == scrape_request[q]
           groups == scrape_gauges.groups \cup {Streams[o.k]}
<1>1. /\ Placed(o, scrape_clock) /\ o \in ScrapeType
      /\ o.alone => /\ LoneReading(o, scrape_gauges, scrape_stamp, scrape_clock, scrape_trouble)
                    /\ LoneBus(o, scrape_gauges)
      /\ scrape_clock \in Nat /\ scrape_stamp \in StampType /\ scrape_gauges \in GaugeType
      /\ scrape_stamp.estate <= scrape_clock /\ scrape_stamp.baseline <= scrape_clock /\ Buses \in Nat \ {0}
  BY ScrapeIs
<1>2. /\ o.at = "groups" /\ scrape_response' = NA
      /\ UNCHANGED <<scrape_clock, scrape_estate, scrape_events, scrape_stamp, scrape_trouble>>
  BY DEF Scrape!Groups
<1>3. o.k \in 1..Buses
  BY <1>1, <1>2 DEF Placed
<1>4. groups \in SUBSET Known(Buses)
  BY <1>1, <1>3 DEF GaugeType, Known
<1>5. o.alone => groups = Known(o.k)
  BY <1>1, <1>2, <1>3, KnownAre DEF LoneBus
<1>6. CASE /\ o.k < Buses /\ scrape_gauges' = [scrape_gauges EXCEPT !.groups = groups]
           /\ scrape_request' = [scrape_request EXCEPT ![q] = [o EXCEPT !.at = "length", !.k = o.k + 1]]
  <2> DEFINE k == o.k + 1
             r == [o EXCEPT !.at = "length", !.k = k]
             g == [scrape_gauges EXCEPT !.groups = groups]
  <2>1. k \in Nat /\ k \in 1..Buses /\ k - 1 = o.k
    BY <1>1, <1>3, <1>6
  <2>2. scrape_request' = [scrape_request EXCEPT ![q] = r] /\ scrape_gauges' = g
    BY <1>6
  <2> HIDE DEF k, groups
  <2>3. /\ r \in ScrapeType /\ r.at = "length" /\ r.k = k /\ r.rows = o.rows /\ r.began = o.began /\ r.alone = o.alone
        /\ r.failed = o.failed /\ r.refreshed = o.refreshed
    BY <1>1, <2>1 DEF ScrapeType, Under
  <2>4. /\ g \in GaugeType /\ g.db = scrape_gauges.db /\ g.length = scrape_gauges.length /\ g.groups = groups
        /\ g.estate = scrape_gauges.estate /\ g.baseline = scrape_gauges.baseline /\ g.pipeline = scrape_gauges.pipeline
    BY <1>1, <1>4 DEF GaugeType
  <2> HIDE DEF r, g, o
  <2>5. Placed(r, scrape_clock)
    BY <1>1, <2>1, <2>3 DEF Placed
  <2>6. r.alone => LoneReading(r, g, scrape_stamp, scrape_clock, scrape_trouble)
    BY <1>1, <1>2, <2>3, <2>4 DEF LoneReading, EstateRead, BaselineRead
  <2>7. r.alone => LoneBus(r, g)
    BY <1>1, <1>2, <1>5, <2>1, <2>3, <2>4 DEF LoneBus
  <2> QED  BY <1>1, <1>2, <2>2, <2>3, <2>4, <2>5, <2>6, <2>7, ScrapeMoves DEF Under, o
<1>7. CASE /\ ~ (o.k < Buses) /\ scrape_gauges' = [[scrape_gauges EXCEPT !.groups = groups] EXCEPT !.bus = TRUE]
           /\ scrape_request' = [scrape_request EXCEPT ![q] = [o EXCEPT !.at = "render"]]
  <2> DEFINE r == [o EXCEPT !.at = "render"]
             g == [scrape_gauges EXCEPT !.groups = groups, !.bus = TRUE]
  <2>1. o.k = Buses
    BY <1>1, <1>3, <1>7
  <2> HIDE DEF groups
  <2>2. /\ r \in ScrapeType /\ r.at = "render" /\ r.k = o.k /\ r.rows = o.rows /\ r.began = o.began /\ r.alone = o.alone
        /\ r.failed = o.failed /\ r.refreshed = o.refreshed
    BY <1>1 DEF ScrapeType, Under
  <2>3. /\ g \in GaugeType /\ g.db = scrape_gauges.db /\ g.length = scrape_gauges.length /\ g.groups = groups /\ g.bus = TRUE
        /\ g.estate = scrape_gauges.estate /\ g.baseline = scrape_gauges.baseline /\ g.pipeline = scrape_gauges.pipeline
        /\ g = [[scrape_gauges EXCEPT !.groups = groups] EXCEPT !.bus = TRUE]
    BY <1>1, <1>4 DEF GaugeType
  <2>4. scrape_request' = [scrape_request EXCEPT ![q] = r] /\ scrape_gauges' = g
    BY <1>7, <2>3
  <2> HIDE DEF r, g, o
  <2>5. Placed(r, scrape_clock)
    BY <1>1, <2>2 DEF Placed
  <2>6. r.alone => LoneReading(r, g, scrape_stamp, scrape_clock, scrape_trouble)
    BY <1>1, <1>2, <2>2, <2>3 DEF LoneReading, EstateRead, BaselineRead
  <2>7. r.alone => LoneBus(r, g)
    BY <1>1, <1>2, <1>5, <2>1, <2>2, <2>3 DEF LoneBus
  <2> QED  BY <1>1, <1>2, <2>2, <2>3, <2>4, <2>5, <2>6, <2>7, ScrapeMoves DEF Under, o
<1> QED  BY <1>6, <1>7 DEF Scrape!Groups, Buses

LEMMA BusFailsStep == ASSUME ScrapeInv, NEW q \in Scrapers, Scrape!BusFails(q) PROVE ScrapeInv'
<1> DEFINE o == scrape_request[q]
           r == [o EXCEPT !.at = "render"]
           g == [scrape_gauges EXCEPT !.bus = FALSE]
<1>1. /\ Placed(o, scrape_clock) /\ o \in ScrapeType
      /\ o.alone => /\ LoneReading(o, scrape_gauges, scrape_stamp, scrape_clock, scrape_trouble)
                    /\ LoneBus(o, scrape_gauges)
      /\ scrape_clock \in Nat /\ scrape_stamp \in StampType /\ scrape_gauges \in GaugeType
      /\ scrape_stamp.estate <= scrape_clock /\ scrape_stamp.baseline <= scrape_clock /\ Buses \in Nat \ {0}
  BY ScrapeIs
<1>2. /\ o.at \in {"length", "groups"} /\ scrape_response' = NA
      /\ scrape_request' = [scrape_request EXCEPT ![q] = r] /\ scrape_gauges' = g
      /\ UNCHANGED <<scrape_clock, scrape_estate, scrape_events, scrape_stamp, scrape_trouble>>
  BY DEF Scrape!BusFails
<1>3. o.k \in 1..Buses
  BY <1>1, <1>2 DEF Placed
<1>4. o.alone => scrape_gauges.groups # Known(Buses)
  BY <1>1, <1>2, <1>3, KnownAre DEF LoneBus
<1>5. /\ r \in ScrapeType /\ r.at = "render" /\ r.k = o.k /\ r.rows = o.rows /\ r.began = o.began /\ r.alone = o.alone
      /\ r.failed = o.failed /\ r.refreshed = o.refreshed
  BY <1>1 DEF ScrapeType, Under
<1>6. /\ g \in GaugeType /\ g.db = scrape_gauges.db /\ g.length = scrape_gauges.length /\ g.groups = scrape_gauges.groups
      /\ g.bus = FALSE
      /\ g.estate = scrape_gauges.estate /\ g.baseline = scrape_gauges.baseline /\ g.pipeline = scrape_gauges.pipeline
  BY <1>1 DEF GaugeType
<1> HIDE DEF r, g, o
<1>7. Placed(r, scrape_clock)
  BY <1>1, <1>5 DEF Placed
<1>8. r.alone => LoneReading(r, g, scrape_stamp, scrape_clock, scrape_trouble)
  BY <1>1, <1>2, <1>5, <1>6 DEF LoneReading, EstateRead, BaselineRead
<1>9. r.alone => LoneBus(r, g)
  BY <1>1, <1>2, <1>4, <1>5, <1>6 DEF LoneBus
<1> QED  BY <1>1, <1>2, <1>5, <1>6, <1>7, <1>8, <1>9, ScrapeMoves DEF Under, o

(* What is rendered is what a lone scrape knows of the gauges.             *)
LEMMA RespondStep == ASSUME ScrapeInv, NEW q \in Scrapers, Scrape!Respond(q) PROVE ScrapeInv'
<1> DEFINE o == scrape_request[q]
           r == [Scrape!Waiting EXCEPT !.at = "done"]
<1>1. /\ Placed(o, scrape_clock) /\ o \in ScrapeType
      /\ o.alone => /\ LoneReading(o, scrape_gauges, scrape_stamp, scrape_clock, scrape_trouble)
                    /\ LoneBus(o, scrape_gauges)
      /\ scrape_clock \in Nat /\ scrape_stamp \in StampType /\ scrape_gauges \in GaugeType
      /\ scrape_stamp.estate \in Nat /\ scrape_stamp.baseline \in Nat /\ Ttl \in Nat \ {0} /\ BaselineTtl \in Nat \ {0}
      /\ scrape_trouble \subseteq Scrape!Readings
  BY ScrapeIs
<1>2. /\ o.at = "render" /\ scrape_request' = [scrape_request EXCEPT ![q] = r]
      /\ scrape_response' = [to |-> o, shown |-> scrape_gauges, trouble |-> scrape_trouble]
      /\ scrape_trouble' = IF o.alone /\ ~ o.failed THEN scrape_trouble \ o.refreshed ELSE scrape_trouble
      /\ UNCHANGED <<scrape_clock, scrape_estate, scrape_events, scrape_stamp, scrape_gauges>>
  BY DEF Scrape!Respond
<1>3. r \in ScrapeType /\ r.at = "done" /\ r.began = 0 /\ r.rows = NA
  BY DEF Scrape!Waiting, ScrapeType
<1>4. o.at \in Under /\ r.at \notin Under /\ o.began \in Nat /\ o.failed \in BOOLEAN /\ o.alone \in BOOLEAN
  BY <1>1, <1>2, <1>3 DEF Under, ScrapeType
<1> HIDE DEF r
<1>5. scrape_request \in [Scrapers -> ScrapeType]
  BY DEF ScrapeInv, ScrapeTypes
<1>6. /\ scrape_request' \in [Scrapers -> ScrapeType]
      /\ \A p \in Scrapers : scrape_request'[p] = IF p = q THEN r ELSE scrape_request[p]
  BY <1>2, <1>3, <1>5
<1>7. scrape_trouble # Scrape!Readings => o.alone /\ ~ o.failed
  BY <1>4 DEF ScrapeInv, InTurn
<1>8. o.alone => \A p \in Scrapers : scrape_request[p].at \in Under => p = q
  BY <1>4 DEF ScrapeInv, InTurn
<1> HIDE DEF o
<1>9. ScrapeTypes'
  BY <1>1, <1>2, <1>6 DEF ScrapeInv, ScrapeTypes
<1>10. ASSUME NEW p \in Scrapers
       PROVE  /\ Placed(scrape_request'[p], scrape_clock')
              /\ scrape_request'[p].alone =>
                   /\ LoneReading(scrape_request'[p], scrape_gauges', scrape_stamp', scrape_clock', scrape_trouble')
                   /\ LoneBus(scrape_request'[p], scrape_gauges')
  <2>1. CASE p = q
    BY <1>1, <1>2, <1>3, <1>6, <2>1 DEF Placed, LoneReading, LoneBus
  <2>2. CASE p # q
    <3>1. scrape_request'[p] = scrape_request[p] /\ Placed(scrape_request[p], scrape_clock)
      BY <1>6, <2>2 DEF ScrapeInv
    <3>2. scrape_request[p].alone => scrape_request[p].at \notin Under
      BY <1>4, <2>2 DEF ScrapeInv, InTurn, o
    <3> QED  BY <1>2, <3>1, <3>2 DEF LoneReading, LoneBus, Under
  <2> QED  BY <2>1, <2>2
<1>11. InTurn'
  <2> SUFFICES ASSUME NEW p \in Scrapers, scrape_request'[p].at \in Under
               PROVE  /\ scrape_request'[p].alone => \A x \in Scrapers : scrape_request'[x].at \in Under => x = p
                      /\ scrape_trouble' # Scrape!Readings => scrape_request'[p].alone /\ ~ scrape_request'[p].failed
    BY DEF InTurn
  <2>1. p # q /\ scrape_request'[p] = scrape_request[p] /\ scrape_request[p].at \in Under
    BY <1>4, <1>6
  <2>2. ~ o.alone /\ scrape_trouble' = scrape_trouble
    BY <1>2, <1>8, <2>1
  <2>3. ~ (scrape_trouble # Scrape!Readings)
    BY <1>7, <2>2
  <2>4. ~ scrape_request[p].alone
    BY <1>4, <2>1 DEF ScrapeInv, InTurn, o
  <2> QED  BY <2>1, <2>2, <2>3, <2>4
<1>12. Resting'
  <2>1. ASSUME "estate" \notin scrape_trouble' PROVE EstateRead(scrape_gauges, scrape_stamp)
    <3>1. o.alone /\ ~ o.failed
      BY <1>2, <1>7, <2>1 DEF Scrape!Readings
    <3> QED  BY <1>1, <1>2, <2>1, <3>1 DEF LoneReading
  <2>2. ASSUME "baseline" \notin scrape_trouble' PROVE BaselineRead(scrape_gauges, scrape_stamp)
    <3>1. o.alone /\ ~ o.failed
      BY <1>2, <1>7, <2>2 DEF Scrape!Readings
    <3> QED  BY <1>1, <1>2, <2>2, <3>1 DEF LoneReading
  <2> QED  BY <1>2, <2>1, <2>2 DEF Resting
<1>13. Answered'
  <2> DEFINE a == [to |-> o, shown |-> scrape_gauges, trouble |-> scrape_trouble]
  <2>1. a.to = o /\ a.shown = scrape_gauges /\ a.trouble = scrape_trouble /\ scrape_response' = a
    BY <1>2
  <2> HIDE DEF a
  <2>2. Scrape!EstateAddsUp(scrape_gauges)
    BY <1>1, GaugesAddUp
  <2>3. ASSUME o.alone PROVE Scrape!OwnFindings(a)
    BY <1>1, <1>2, <2>1, <2>3, ScrapeFacts DEF LoneBus, Scrape!OwnFindings, Known
  <2>4. ASSUME o.alone PROVE Scrape!Fresh(a)
    <3>1. ASSUME "estate" \notin scrape_trouble
          PROVE  /\ scrape_gauges.estate # NA /\ o.began - scrape_gauges.estate < Ttl
                 /\ \A k \in DOMAIN scrape_gauges.pipeline :
                       scrape_gauges.pipeline[k] # NA /\ scrape_gauges.pipeline[k] >= scrape_gauges.estate
      <4>1. ~ o.failed
        BY <1>7, <3>1 DEF Scrape!Readings
      <4>2. o.began - scrape_stamp.estate < Ttl /\ EstateRead(scrape_gauges, scrape_stamp)
        BY <1>1, <1>2, <2>4, <3>1, <4>1 DEF LoneReading
      <4>3. DOMAIN scrape_gauges.pipeline = 1..Steps
        BY <1>1 DEF GaugeType
      <4> QED  BY <1>1, <1>4, <4>2, <4>3, ScrapeFacts DEF EstateRead
    <3>2. ASSUME "baseline" \notin scrape_trouble
          PROVE  scrape_gauges.baseline # NA /\ o.began - scrape_gauges.baseline < BaselineTtl
      <4>1. ~ o.failed
        BY <1>7, <3>2 DEF Scrape!Readings
      <4>2. o.began - scrape_stamp.baseline < BaselineTtl /\ BaselineRead(scrape_gauges, scrape_stamp)
        BY <1>1, <1>2, <2>4, <3>2, <4>1 DEF LoneReading
      <4> QED  BY <1>1, <1>4, <4>2, ScrapeFacts DEF BaselineRead
    <3> QED  BY <2>1, <3>1, <3>2 DEF Scrape!Fresh
  <2>5. /\ Scrape!EstateAddsUp(a.shown)
        /\ a.to.alone => Scrape!OwnFindings(a) /\ Scrape!Fresh(a)
    BY <2>1, <2>2, <2>3, <2>4
  <2> QED  BY <2>1, <2>5 DEF Answered
<1> QED  BY <1>9, <1>10, <1>11, <1>12, <1>13 DEF ScrapeInv

(* A request that arrives beside others.                                   *)
LEMMA CrowdedStep ==
    ASSUME ScrapeInv, NEW q \in Scrapers, scrape_request[q].at = "idle",
           NEW p \in Scrapers, p # q, scrape_request[p].at \in Under,
           NEW r \in ScrapeType, r.at \in Under, Placed(r, scrape_clock), r.alone = FALSE,
           scrape_request' = [Scrape!Crowded EXCEPT ![q] = r],
           scrape_stamp' \in StampType, scrape_gauges' \in GaugeType,
           scrape_stamp'.estate <= scrape_clock, scrape_stamp'.baseline <= scrape_clock,
           scrape_trouble' = Scrape!Readings,
           scrape_response' = NA, UNCHANGED <<scrape_clock, scrape_estate, scrape_events>>
    PROVE  ScrapeInv'
<1> DEFINE crowd == [o \in Scrapers |-> IF Scrape!Busy(o) THEN [scrape_request[o] EXCEPT !.alone = FALSE]
                                        ELSE scrape_request[o]]
<1>1. Scrape!Crowded = crowd
  BY DEF Scrape!Crowded
<1>2. scrape_request \in [Scrapers -> ScrapeType]
  BY DEF ScrapeInv, ScrapeTypes
<1>3. \A o \in Scrapers : Scrape!Busy(o) <=> scrape_request[o].at \in Under
  BY <1>2 DEF Scrape!Busy, ScrapeType, Under
<1>4. ASSUME NEW o \in Scrapers
      PROVE  /\ crowd[o] \in ScrapeType /\ crowd[o].at = scrape_request[o].at /\ crowd[o].k = scrape_request[o].k
             /\ crowd[o].rows = scrape_request[o].rows /\ crowd[o].began = scrape_request[o].began
             /\ scrape_request[o].at \in Under => crowd[o].alone = FALSE
             /\ Placed(crowd[o], scrape_clock)
  <2>1. scrape_request[o] \in ScrapeType /\ Placed(scrape_request[o], scrape_clock)
    BY <1>2 DEF ScrapeInv
  <2>2. CASE Scrape!Busy(o)
    <3> DEFINE n == [scrape_request[o] EXCEPT !.alone = FALSE]
    <3>1. /\ n \in ScrapeType /\ n.at = scrape_request[o].at /\ n.k = scrape_request[o].k
          /\ n.rows = scrape_request[o].rows /\ n.began = scrape_request[o].began /\ n.alone = FALSE
      BY <2>1 DEF ScrapeType
    <3>2. crowd[o] = n
      BY <2>2
    <3> HIDE DEF n, crowd
    <3>3. Placed(n, scrape_clock)
      BY <2>1, <3>1 DEF Placed
    <3> QED  BY <3>1, <3>2, <3>3
  <2>3. CASE ~ Scrape!Busy(o)
    <3>1. crowd[o] = scrape_request[o]
      BY <2>3
    <3> QED  BY <1>3, <2>1, <2>3, <3>1
  <2> QED  BY <2>2, <2>3
<1>5. crowd = [o \in Scrapers |-> crowd[o]]
  OBVIOUS
<1> HIDE DEF crowd
<1>6. scrape_request' = [crowd EXCEPT ![q] = r]
  BY <1>1
<1>7. /\ scrape_request' \in [Scrapers -> ScrapeType]
      /\ \A o \in Scrapers : scrape_request'[o] = IF o = q THEN r ELSE crowd[o]
  BY <1>4, <1>5, <1>6
<1>8. ScrapeTypes'
  BY <1>7 DEF ScrapeInv, ScrapeTypes
<1>9. \A o \in Scrapers : Placed(scrape_request'[o], scrape_clock') /\
                          (scrape_request'[o].at \in Under => scrape_request'[o].alone = FALSE)
  BY <1>4, <1>7
<1>10. \A o \in Scrapers : scrape_request'[o].alone =>
          /\ LoneReading(scrape_request'[o], scrape_gauges', scrape_stamp', scrape_clock', scrape_trouble')
          /\ LoneBus(scrape_request'[o], scrape_gauges')
  <2> SUFFICES ASSUME NEW o \in Scrapers, scrape_request'[o].at \notin Under
               PROVE  /\ LoneReading(scrape_request'[o], scrape_gauges', scrape_stamp', scrape_clock', scrape_trouble')
                      /\ LoneBus(scrape_request'[o], scrape_gauges')
    BY <1>9
  <2> QED  BY DEF LoneReading, LoneBus, Under
<1>11. InTurn'
  BY <1>9 DEF InTurn
<1>12. Resting'
  BY DEF Resting, Scrape!Readings
<1> QED  BY <1>8, <1>9, <1>10, <1>11, <1>12 DEF ScrapeInv, Answered

(* A request that arrives when nobody is under way.                        *)
LEMMA AloneStep ==
    ASSUME ScrapeInv, NEW q \in Scrapers,
           \A o \in Scrapers : scrape_request[o].at \notin Under,
           NEW r \in ScrapeType, r.at \in {"estate", "baseline", "length"}, Placed(r, scrape_clock),
           r.alone = TRUE, r.failed = FALSE, r.refreshed = {}, r.rows = NA, r.began = scrape_clock, r.k \in {0, 1},
           scrape_request' = [scrape_request EXCEPT ![q] = r],
           scrape_stamp' \in StampType, scrape_gauges' \in GaugeType,
           scrape_stamp'.estate = IF r.at = "estate" THEN scrape_clock ELSE scrape_stamp.estate,
           scrape_stamp'.baseline = IF r.at = "baseline" THEN scrape_clock ELSE scrape_stamp.baseline,
           r.at # "estate" => ~ (scrape_clock - scrape_stamp.estate >= Ttl),
           r.at = "length" =>
              /\ ~ (scrape_clock - scrape_stamp.baseline >= BaselineTtl)
              /\ r.k = 1 /\ scrape_gauges'.db = TRUE /\ scrape_gauges'.length = {} /\ scrape_gauges'.groups = {},
           scrape_gauges'.estate = scrape_gauges.estate, scrape_gauges'.pipeline = scrape_gauges.pipeline,
           scrape_gauges'.baseline = scrape_gauges.baseline,
           scrape_response' = NA, UNCHANGED <<scrape_clock, scrape_estate, scrape_events, scrape_trouble>>
    PROVE  ScrapeInv'
<1>1. scrape_request \in [Scrapers -> ScrapeType] /\ scrape_clock \in Nat
      /\ scrape_stamp.estate \in Nat /\ scrape_stamp.baseline \in Nat
      /\ scrape_stamp.estate <= scrape_clock /\ scrape_stamp.baseline <= scrape_clock
      /\ Ttl \in Nat \ {0} /\ BaselineTtl \in Nat \ {0}
  BY ScrapeIs DEF ScrapeInv, ScrapeTypes
<1>2. /\ scrape_request' \in [Scrapers -> ScrapeType]
      /\ \A o \in Scrapers : scrape_request'[o] = IF o = q THEN r ELSE scrape_request[o]
  BY <1>1
<1>3. ScrapeTypes'
  <2>1. scrape_stamp'.estate <= scrape_clock' /\ scrape_stamp'.baseline <= scrape_clock'
    BY <1>1
  <2> QED  BY <1>2, <2>1 DEF ScrapeInv, ScrapeTypes
<1>4. /\ "estate" \notin scrape_trouble =>
            scrape_clock - scrape_stamp.estate >= Ttl \/ EstateRead(scrape_gauges, scrape_stamp)
      /\ "baseline" \notin scrape_trouble =>
            scrape_clock - scrape_stamp.baseline >= BaselineTtl \/ BaselineRead(scrape_gauges, scrape_stamp)
  BY DEF ScrapeInv, Resting, Under
<1>5. Known(1 - 1) = {}
  BY KnownAre
<1>6. LoneReading(r, scrape_gauges', scrape_stamp', scrape_clock, scrape_trouble)
  <2>1. CASE r.at = "estate"
    BY <1>1, <2>1 DEF LoneReading
  <2>2. CASE r.at = "baseline"
    BY <1>1, <1>4, <2>2 DEF LoneReading, EstateRead
  <2>3. CASE r.at = "length"
    BY <1>1, <1>4, <2>3 DEF LoneReading, EstateRead, BaselineRead
  <2> QED  BY <2>1, <2>2, <2>3
<1>7. LoneBus(r, scrape_gauges')
  BY <1>5 DEF LoneBus
<1>8. ASSUME NEW o \in Scrapers
      PROVE  /\ Placed(scrape_request'[o], scrape_clock')
             /\ scrape_request'[o].alone =>
                  /\ LoneReading(scrape_request'[o], scrape_gauges', scrape_stamp', scrape_clock', scrape_trouble')
                  /\ LoneBus(scrape_request'[o], scrape_gauges')
  <2>1. CASE o = q
    BY <1>2, <1>6, <1>7, <2>1
  <2>2. CASE o # q
    <3>1. scrape_request'[o] = scrape_request[o] /\ Placed(scrape_request[o], scrape_clock) /\ scrape_request[o].at \notin Under
      BY <1>2, <2>2 DEF ScrapeInv
    <3> QED  BY <3>1 DEF LoneReading, LoneBus, Under
  <2> QED  BY <2>1, <2>2
<1>9. InTurn'
  <2>1. \A o \in Scrapers : scrape_request'[o].at \in Under => o = q
    BY <1>2
  <2> QED  BY <1>2, <2>1 DEF InTurn
<1>10. Resting'
  <2>1. ASSUME "estate" \notin scrape_trouble', \A o \in Scrapers : scrape_request'[o].at \notin {"estate", "pipeline"}
        PROVE  EstateRead(scrape_gauges', scrape_stamp')
    BY <1>2, <1>4, <2>1 DEF EstateRead
  <2>2. ASSUME "baseline" \notin scrape_trouble', \A o \in Scrapers : scrape_request'[o].at # "baseline"
        PROVE  \/ scrape_clock - scrape_stamp'.baseline >= BaselineTtl
               \/ BaselineRead(scrape_gauges', scrape_stamp')
    BY <1>2, <1>4, <2>2 DEF BaselineRead
  <2> QED  BY <2>1, <2>2 DEF Resting
<1> QED  BY <1>3, <1>8, <1>9, <1>10 DEF ScrapeInv, Answered

LEMMA ArriveStep == ASSUME ScrapeInv, NEW q \in Scrapers, Scrape!Begin(q) PROVE ScrapeInv'
<1> DEFINE others == \E o \in Scrapers \ {q} : Scrape!Busy(o)
           n == [Scrape!Waiting EXCEPT !.began = scrape_clock, !.alone = ~ others]
<1>1. /\ scrape_clock \in Nat /\ scrape_stamp \in StampType /\ scrape_gauges \in GaugeType
      /\ scrape_stamp.estate <= scrape_clock /\ scrape_stamp.baseline <= scrape_clock
      /\ scrape_stamp.estate \in Nat /\ scrape_stamp.baseline \in Nat /\ Buses \in Nat \ {0}
  BY ScrapeIs
<1>2. /\ scrape_request[q].at = "idle" /\ scrape_response' = NA
      /\ UNCHANGED <<scrape_clock, scrape_estate, scrape_events>>
      /\ scrape_trouble' = IF others THEN Scrape!Readings ELSE scrape_trouble
  BY DEF Scrape!Begin
<1>3. \/ /\ Scrape!Due("estate", Ttl)
         /\ scrape_stamp' = [scrape_stamp EXCEPT !.estate = scrape_clock]
         /\ scrape_request' = [Scrape!Crowded EXCEPT ![q] = [n EXCEPT !.at = "estate"]]
         /\ UNCHANGED scrape_gauges
      \/ /\ ~ Scrape!Due("estate", Ttl) /\ Scrape!Due("baseline", BaselineTtl)
         /\ scrape_stamp' = [scrape_stamp EXCEPT !.baseline = scrape_clock]
         /\ scrape_request' = [Scrape!Crowded EXCEPT ![q] = [n EXCEPT !.at = "baseline"]]
         /\ UNCHANGED scrape_gauges
      \/ /\ ~ Scrape!Due("estate", Ttl) /\ ~ Scrape!Due("baseline", BaselineTtl)
         /\ scrape_gauges' = [scrape_gauges EXCEPT !.db = TRUE, !.length = {}, !.groups = {}]
         /\ scrape_request' = [Scrape!Crowded EXCEPT ![q] = [n EXCEPT !.at = "length", !.k = 1]]
         /\ UNCHANGED scrape_stamp
  BY DEF Scrape!Begin
<1>4. scrape_request \in [Scrapers -> ScrapeType]
  BY DEF ScrapeInv, ScrapeTypes
<1>5. \A o \in Scrapers : Scrape!Busy(o) <=> scrape_request[o].at \in Under
  BY <1>4 DEF Scrape!Busy, ScrapeType, Under
<1>6. \A alone \in BOOLEAN : alone = ~ others =>
        /\ n = [Scrape!Waiting EXCEPT !.began = scrape_clock, !.alone = alone]
  OBVIOUS
<1>7. PICK alone \in BOOLEAN : alone = ~ others
  OBVIOUS
<1>8. /\ n \in ScrapeType /\ n.alone = alone /\ n.failed = FALSE /\ n.refreshed = {} /\ n.rows = NA
      /\ n.began = scrape_clock /\ n.k = 0
  BY <1>1, <1>6, <1>7 DEF Scrape!Waiting, ScrapeType
<1>9. (\A o \in Scrapers : scrape_request[o].at \notin Under) => Scrape!Crowded = scrape_request
  <2> SUFFICES ASSUME \A o \in Scrapers : scrape_request[o].at \notin Under PROVE Scrape!Crowded = scrape_request
    OBVIOUS
  <2>1. Scrape!Crowded = [o \in Scrapers |-> scrape_request[o]]
    BY <1>5 DEF Scrape!Crowded
  <2> QED  BY <1>4, <2>1
<1>10. /\ others => \E p \in Scrapers : p # q /\ scrape_request[p].at \in Under
       /\ ~ others => \A o \in Scrapers : scrape_request[o].at \notin Under
  BY <1>2, <1>5 DEF Under
<1>11. PICK busy \in BOOLEAN : busy = others
  OBVIOUS
<1> HIDE DEF n, others
<1>12. ASSUME NEW r \in ScrapeType, r.at \in {"estate", "baseline", "length"},
              r.alone = alone, r.failed = FALSE, r.refreshed = {}, r.rows = NA, r.began = scrape_clock, r.k \in {0, 1},
              r.at = "length" => r.k = 1,
              scrape_request' = [Scrape!Crowded EXCEPT ![q] = r],
              scrape_stamp' \in StampType, scrape_gauges' \in GaugeType,
              scrape_stamp'.estate = IF r.at = "estate" THEN scrape_clock ELSE scrape_stamp.estate,
              scrape_stamp'.baseline = IF r.at = "baseline" THEN scrape_clock ELSE scrape_stamp.baseline,
              r.at # "estate" => ~ (scrape_clock - scrape_stamp.estate >= Ttl),
              r.at = "length" =>
                 /\ ~ (scrape_clock - scrape_stamp.baseline >= BaselineTtl)
                 /\ scrape_gauges'.db = TRUE /\ scrape_gauges'.length = {} /\ scrape_gauges'.groups = {},
              scrape_gauges'.estate = scrape_gauges.estate, scrape_gauges'.pipeline = scrape_gauges.pipeline,
              scrape_gauges'.baseline = scrape_gauges.baseline
       PROVE  ScrapeInv'
  <2>1. Placed(r, scrape_clock)
    BY <1>1, <1>12 DEF Placed
  <2>2. scrape_stamp'.estate <= scrape_clock /\ scrape_stamp'.baseline <= scrape_clock /\ r.at \in Under
    BY <1>1, <1>12 DEF Under
  <2>3. CASE others
    <3>1. PICK p \in Scrapers : p # q /\ scrape_request[p].at \in Under
      BY <1>10, <2>3
    <3>2. r.alone = FALSE /\ scrape_trouble' = Scrape!Readings
      BY <1>2, <1>7, <1>12, <2>3
    <3> QED  BY <1>2, <1>12, <2>1, <2>2, <3>1, <3>2, CrowdedStep
  <2>4. CASE ~ others
    <3>1. /\ \A o \in Scrapers : scrape_request[o].at \notin Under
          /\ scrape_request' = [scrape_request EXCEPT ![q] = r]
          /\ r.alone = TRUE /\ UNCHANGED scrape_trouble
      BY <1>2, <1>7, <1>9, <1>10, <1>12, <2>4
    <3> QED  BY <1>2, <1>12, <2>1, <3>1, AloneStep
  <2> QED  BY <2>3, <2>4
<1>13. CASE /\ scrape_stamp' = [scrape_stamp EXCEPT !.estate = scrape_clock]
            /\ scrape_request' = [Scrape!Crowded EXCEPT ![q] = [n EXCEPT !.at = "estate"]]
            /\ UNCHANGED scrape_gauges
  <2> DEFINE r == [n EXCEPT !.at = "estate"]
  <2>1. /\ r \in ScrapeType /\ r.at = "estate" /\ r.alone = alone /\ r.failed = FALSE /\ r.refreshed = {} /\ r.rows = NA
        /\ r.began = scrape_clock /\ r.k = 0
    BY <1>8 DEF ScrapeType, Under
  <2>2. scrape_stamp' \in StampType /\ scrape_stamp'.estate = scrape_clock /\ scrape_stamp'.baseline = scrape_stamp.baseline
    BY <1>1, <1>13 DEF StampType
  <2>3. scrape_request' = [Scrape!Crowded EXCEPT ![q] = r]
    BY <1>13
  <2> HIDE DEF r
  <2> QED  BY <1>1, <1>12, <1>13, <2>1, <2>2, <2>3
<1>14. CASE /\ ~ Scrape!Due("estate", Ttl)
            /\ scrape_stamp' = [scrape_stamp EXCEPT !.baseline = scrape_clock]
            /\ scrape_request' = [Scrape!Crowded EXCEPT ![q] = [n EXCEPT !.at = "baseline"]]
            /\ UNCHANGED scrape_gauges
  <2> DEFINE r == [n EXCEPT !.at = "baseline"]
  <2>1. /\ r \in ScrapeType /\ r.at = "baseline" /\ r.alone = alone /\ r.failed = FALSE /\ r.refreshed = {} /\ r.rows = NA
        /\ r.began = scrape_clock /\ r.k = 0
    BY <1>8 DEF ScrapeType, Under
  <2>2. scrape_stamp' \in StampType /\ scrape_stamp'.baseline = scrape_clock /\ scrape_stamp'.estate = scrape_stamp.estate
    BY <1>1, <1>14 DEF StampType
  <2>3. scrape_request' = [Scrape!Crowded EXCEPT ![q] = r] /\ ~ (scrape_clock - scrape_stamp.estate >= Ttl)
    BY <1>14 DEF Scrape!Due
  <2> HIDE DEF r
  <2> QED  BY <1>1, <1>12, <1>14, <2>1, <2>2, <2>3
<1>15. CASE /\ ~ Scrape!Due("estate", Ttl) /\ ~ Scrape!Due("baseline", BaselineTtl)
            /\ scrape_gauges' = [scrape_gauges EXCEPT !.db = TRUE, !.length = {}, !.groups = {}]
            /\ scrape_request' = [Scrape!Crowded EXCEPT ![q] = [n EXCEPT !.at = "length", !.k = 1]]
            /\ UNCHANGED scrape_stamp
  <2> DEFINE r == [n EXCEPT !.at = "length", !.k = 1]
             g == [scrape_gauges EXCEPT !.db = TRUE, !.length = {}, !.groups = {}]
  <2>1. /\ r \in ScrapeType /\ r.at = "length" /\ r.alone = alone /\ r.failed = FALSE /\ r.refreshed = {} /\ r.rows = NA
        /\ r.began = scrape_clock /\ r.k = 1
    BY <1>8 DEF ScrapeType, Under
  <2>2. /\ g \in GaugeType /\ g.db = TRUE /\ g.length = {} /\ g.groups = {} /\ g.estate = scrape_gauges.estate
        /\ g.pipeline = scrape_gauges.pipeline /\ g.baseline = scrape_gauges.baseline
    BY <1>1 DEF GaugeType
  <2>3. /\ scrape_request' = [Scrape!Crowded EXCEPT ![q] = r] /\ scrape_gauges' = g
        /\ ~ (scrape_clock - scrape_stamp.estate >= Ttl) /\ ~ (scrape_clock - scrape_stamp.baseline >= BaselineTtl)
    BY <1>15 DEF Scrape!Due
  <2> HIDE DEF r, g
  <2> QED  BY <1>1, <1>12, <1>15, <2>1, <2>2, <2>3
<1> QED  BY <1>3, <1>13, <1>14, <1>15

(* Time, the registry and outages leave the scrapes and the gauges alone.  *)
LEMMA ScrapeRests ==
    ASSUME ScrapeInv, scrape_clock' \in 0..MaxTime, scrape_clock <= scrape_clock', scrape_estate' \in Estate,
           scrape_events' \in 0..Changes, scrape_response' = NA \/ UNCHANGED scrape_response,
           UNCHANGED <<scrape_stamp, scrape_gauges, scrape_request, scrape_trouble>>
    PROVE  ScrapeInv'
<1>1. /\ scrape_clock \in Nat /\ scrape_clock' \in Nat /\ scrape_stamp.estate \in Nat /\ scrape_stamp.baseline \in Nat
      /\ scrape_stamp.estate <= scrape_clock /\ scrape_stamp.baseline <= scrape_clock
      /\ Ttl \in Nat \ {0} /\ BaselineTtl \in Nat \ {0}
  BY ScrapeIs, ScrapeFacts DEF ScrapeInv, ScrapeTypes, StampType
<1>2. ScrapeTypes'
  BY <1>1 DEF ScrapeInv, ScrapeTypes
<1>3. ASSUME NEW q \in Scrapers
      PROVE  /\ Placed(scrape_request'[q], scrape_clock')
             /\ scrape_request'[q].alone =>
                  /\ LoneReading(scrape_request'[q], scrape_gauges', scrape_stamp', scrape_clock', scrape_trouble')
                  /\ LoneBus(scrape_request'[q], scrape_gauges')
  <2> DEFINE r == scrape_request[q]
  <2>1. /\ scrape_request'[q] = r /\ Placed(r, scrape_clock)
        /\ r.alone => /\ LoneReading(r, scrape_gauges, scrape_stamp, scrape_clock, scrape_trouble)
                      /\ LoneBus(r, scrape_gauges)
    BY DEF ScrapeInv
  <2> HIDE DEF r
  <2>2. r.began \in Nat /\ (r.rows # NA => r.rows.at \in Nat)
    BY <2>1 DEF Placed, ScrapeType, Answers
  <2>3. Placed(r, scrape_clock')
    BY <1>1, <2>1, <2>2 DEF Placed
  <2>4. r.alone => LoneReading(r, scrape_gauges, scrape_stamp, scrape_clock', scrape_trouble)
    BY <1>1, <2>1 DEF LoneReading
  <2> QED  BY <2>1, <2>3, <2>4
<1>4. InTurn'
  BY DEF ScrapeInv, InTurn
<1>5. Resting'
  <2>1. /\ scrape_clock - scrape_stamp.estate >= Ttl => scrape_clock' - scrape_stamp.estate >= Ttl
        /\ scrape_clock - scrape_stamp.baseline >= BaselineTtl => scrape_clock' - scrape_stamp.baseline >= BaselineTtl
    BY <1>1
  <2> QED  BY <2>1 DEF ScrapeInv, Resting
<1>6. Answered'
  BY DEF ScrapeInv, Answered
<1> QED  BY <1>2, <1>3, <1>4, <1>5, <1>6 DEF ScrapeInv

LEMMA MeanwhileStep == ASSUME ScrapeInv, Scrape!Tick \/ Scrape!Change \/ Scrape!Outage PROVE ScrapeInv'
<1>1. /\ scrape_clock \in 0..MaxTime /\ scrape_events \in 0..Changes /\ scrape_estate \in Estate
      /\ MaxTime \in Nat /\ Changes \in Nat
  BY ScrapeFacts DEF ScrapeInv, ScrapeTypes
<1>2. CASE Scrape!Tick
  <2>1. /\ scrape_clock' \in 0..MaxTime /\ scrape_clock <= scrape_clock' /\ scrape_response' = NA
        /\ UNCHANGED <<scrape_estate, scrape_events, scrape_stamp, scrape_gauges, scrape_request, scrape_trouble>>
    BY <1>1, <1>2 DEF Scrape!Tick
  <2> QED  BY <1>1, <2>1, ScrapeRests
<1>3. CASE Scrape!Change
  <2>1. /\ scrape_events' \in 0..Changes /\ scrape_response' = NA
        /\ UNCHANGED <<scrape_clock, scrape_stamp, scrape_gauges, scrape_request, scrape_trouble>>
    BY <1>1, <1>3 DEF Scrape!Change
  <2>2. PICK S \in SUBSET Cameras : scrape_estate \in [S -> Reports]
    BY <1>1 DEF Estate
  <2>3. ASSUME \E c \in DOMAIN scrape_estate : scrape_estate' = [d \in DOMAIN scrape_estate \ {c} |-> scrape_estate[d]]
        PROVE  scrape_estate' \in Estate
    <3>1. PICK c \in S : scrape_estate' = [d \in S \ {c} |-> scrape_estate[d]]
      BY <2>2, <2>3
    <3>2. scrape_estate' \in [S \ {c} -> Reports] /\ S \ {c} \in SUBSET Cameras
      BY <2>2, <3>1
    <3> QED  BY <3>2 DEF Estate
  <2>4. ASSUME \E c \in DOMAIN scrape_estate, r \in Reports : scrape_estate' = [scrape_estate EXCEPT ![c] = r]
        PROVE  scrape_estate' \in Estate
    <3>1. scrape_estate' \in [S -> Reports]
      BY <2>2, <2>4
    <3> QED  BY <3>1 DEF Estate
  <2>5. scrape_estate' \in Estate
    BY <1>3, <2>3, <2>4 DEF Scrape!Change
  <2>6. scrape_clock' \in 0..MaxTime /\ scrape_clock <= scrape_clock'
    BY <1>1, <2>1
  <2> QED  BY <2>1, <2>5, <2>6, ScrapeRests
<1>4. CASE Scrape!Outage
  <2>1. /\ scrape_events' \in 0..Changes /\ scrape_response' = NA
        /\ UNCHANGED <<scrape_clock, scrape_estate, scrape_stamp, scrape_gauges, scrape_request, scrape_trouble>>
    BY <1>1, <1>4 DEF Scrape!Outage
  <2>2. scrape_clock' \in 0..MaxTime /\ scrape_clock <= scrape_clock' /\ scrape_estate' \in Estate
    BY <1>1, <2>1
  <2> QED  BY <2>1, <2>2, ScrapeRests
<1> QED  BY <1>2, <1>3, <1>4

LEMMA ScrapeStep == ASSUME ScrapeInv, Scrape!Next \/ UNCHANGED scrapeVars PROVE ScrapeInv'
<1>1. ASSUME NEW q \in Scrapers, Scrape!Handle(q) PROVE ScrapeInv'
  BY <1>1, ArriveStep, ReadStep, RefusedStep, EstateLandsStep, PipelineLandsStep, BaselineLandsStep, LengthStep,
     GroupsStep, BusFailsStep, RespondStep DEF Scrape!Handle
<1>2. CASE UNCHANGED scrapeVars
  <2>1. /\ scrape_clock' \in 0..MaxTime /\ scrape_clock <= scrape_clock' /\ scrape_estate' \in Estate
        /\ scrape_events' \in 0..Changes
        /\ UNCHANGED <<scrape_response, scrape_stamp, scrape_gauges, scrape_request, scrape_trouble>>
    BY <1>2, ScrapeFacts DEF scrapeVars, ScrapeInv, ScrapeTypes
  <2> QED  BY <2>1, ScrapeRests
<1> QED  BY <1>1, <1>2, MeanwhileStep DEF Scrape!Next

LEMMA ScrapeParts == ScrapeInv => Scrape!ScrapesAreHonest
<1> SUFFICES ASSUME ScrapeInv PROVE Scrape!ScrapesAreHonest
  OBVIOUS
<1>1. Scrape!TypeOK
  <2>1. DOMAIN scrape_estate \subseteq Cameras
    BY DEF ScrapeInv, ScrapeTypes, Estate
  <2>2. \A q \in Scrapers : scrape_request[q].at \in {"idle", "done", "estate", "pipeline", "baseline", "length",
                                                       "groups", "render"}
    BY DEF ScrapeInv, ScrapeTypes, ScrapeType, Under
  <2>3. scrape_gauges.length \cup scrape_gauges.groups \subseteq {Streams[k] : k \in DOMAIN Streams}
    BY ScrapeFacts DEF ScrapeInv, ScrapeTypes, GaugeType, Known
  <2> QED  BY <2>1, <2>2, <2>3 DEF Scrape!TypeOK, ScrapeInv, ScrapeTypes
<1> QED  BY <1>1 DEF Scrape!ScrapesAreHonest, ScrapeInv, Answered

(* However the requests for the metrics overlap one another, the clock, a  *)
(* failing database and a failing bus, every response adds up, and one     *)
(* that no other request overlapped shows nothing kept past its lifetime   *)
(* unless an earlier overlap or failure spoilt the reading (metrics.ts,    *)
(* routes/metrics.ts).                                                     *)
THEOREM ScrapesHold == WorkerSpec => []ScrapesAreHonest
<1>1. WorkerInit => ScrapeInv
  BY ScrapeInit DEF WorkerInit
<1>2. ScrapeInv /\ [WorkerNext]_workerVars => ScrapeInv'
  <2> SUFFICES ASSUME ScrapeInv, [WorkerNext]_workerVars PROVE ScrapeInv'
    OBVIOUS
  <2>1. CASE UNCHANGED scrapeVars
    BY <2>1, ScrapeStep
  <2>2. CASE Scrape!Next
    BY <2>2, ScrapeStep
  <2> QED  BY <2>1, <2>2 DEF WorkerNext, workerVars
<1>3. ScrapeInv => ScrapesAreHonest
  BY ScrapeParts DEF ScrapesAreHonest
<1> QED  BY <1>1, <1>2, <1>3, PTL DEF WorkerSpec
-----------------------------------------------------------------------------
(* The capture of one camera.                                              *)

Tracks == Shots!Track
Shot == [score : Sharpness, crop : BOOLEAN, last : Pts, obs : Nat \ {0}]

(* Candidates by track. *)
IsHeld(h) == h \in [DOMAIN h -> Shot] /\ DOMAIN h \subseteq Tracks /\ IsFiniteSet(DOMAIN h)

Cropped(f, T) == {t \in T : f[t].crop}
Bare(f, T) == {t \in T : ~ f[t].crop}

(* What was seen is held or was flushed; without a rewind nothing lacks    *)
(* its crop.                                                               *)
HeldInv ==
    /\ capture_offers \in 0..MaxOffers /\ capture_rewinds \in 0..capture_offers
    /\ capture_stored \in Nat /\ capture_dropped \in Nat
    /\ IsHeld(capture_held) /\ Cardinality(DOMAIN capture_held) <= MaxTracks
    /\ capture_lastPts \in Pts \cup {-1}
    /\ capture_stored + capture_dropped + Shots!Obs(capture_held, DOMAIN capture_held) = capture_offers
    /\ capture_rewinds = 0 => /\ capture_dropped = 0
                              /\ \A t \in DOMAIN capture_held : capture_held[t].crop

Buffers == [n : 0..TopN, examined : 0..MaxExamine, stale : Nat, emitted : BOOLEAN,
            sessions : SUBSET (0..MaxSessions)]
OfSession(s) == s * Stride..s * Stride + (Stride - 1)

(* The buffer b of track t: while it waits it is not ready, and its plates *)
(* are of the session whose numbers t is one of.                           *)
IsBuffer(t, b) ==
    /\ b \in Buffers
    /\ ~ b.emitted => ~ Shots!Ready(b)
    /\ \A s \in b.sessions : t \in OfSession(s)

BufferInv ==
    /\ DOMAIN capture_buffer \subseteq Tracks
    /\ \A t \in DOMAIN capture_buffer : IsBuffer(t, capture_buffer[t])
    /\ DOMAIN capture_reads \subseteq DOMAIN capture_buffer
    /\ \A t \in DOMAIN capture_reads : capture_reads[t] = 1 /\ capture_buffer[t].emitted

LoopInv ==
    /\ capture_pc \in {"closed", "open", "waiting", "done"}
    /\ capture_stop \in BOOLEAN
    /\ capture_attempt \in 0..MaxAttempts
    /\ capture_session \in -1..MaxSessions
    /\ capture_pc = "open" => capture_session \in 0..MaxSessions
    /\ capture_pc = "done" => capture_held = <<>>

CaptureInv == LoopInv /\ HeldInv /\ BufferInv

LEMMA CaptureNumber == \A S : Shots!Cardinality(S) = Cardinality(S)
  BY DEF Shots!Cardinality, Cardinality

LEMMA CaptureSum == \A f, S : Shots!SumFunctionOnSet(f, S) = SumFunctionOnSet(f, S)
  BY DEF Shots!SumFunctionOnSet, SumFunctionOnSet, Shots!FoldFunctionOnSet, FoldFunctionOnSet,
         Shots!MapThenFoldSet, MapThenFoldSet

LEMMA CaptureFacts ==
    /\ TrackerId \subseteq 0..Stride - 1 /\ Pts \subseteq Nat /\ Sharpness \subseteq Nat
    /\ Stride \in Nat \ {0} /\ MaxTracks \in Nat \ {0} /\ TopN \in Nat \ {0} /\ MaxExamine \in Nat \ {0}
    /\ StaleAfter \in Nat \ {0} /\ MaxAttempts \in Nat \ {0}
    /\ IdleFlush \in Nat /\ MaxOffers \in Nat /\ MaxSessions \in Nat
  BY CaptureConstants DEF Shots!CaptureAssumption

LEMMA NoTrack == DOMAIN <<>> = {} /\ \A S : <<>> \in [DOMAIN <<>> -> S]
<1>1. <<>> \in Seq({}) /\ DOMAIN <<>> = {}
  OBVIOUS
<1> QED  BY <1>1

(* Sums of observations.                                                   *)
LEMMA ObsIs ==
    ASSUME NEW f, NEW T, NEW S, T \subseteq S, IsFiniteSet(S)
    PROVE  Shots!Obs(f, T) = SumFunctionOnSet([t \in S |-> f[t].obs], T)
<1> DEFINE g == [t \in T |-> f[t].obs]
           k == [t \in S |-> f[t].obs]
<1>1. Shots!Obs(f, T) = SumFunctionOnSet(g, T)
  BY CaptureSum DEF Shots!Obs
<1>2. IsFiniteSet(T) /\ \A t \in T : g[t] = k[t]
  BY FS_Subset
<1> HIDE DEF g, k
<1>3. SumFunctionOnSet(g, T) = SumFunctionOnSet(k, T)
  BY <1>2, SumSame
<1> QED  BY <1>1, <1>3 DEF k

LEMMA ObsType ==
    ASSUME NEW f, NEW T, IsFiniteSet(T), \A t \in T : f[t].obs \in Nat
    PROVE  Shots!Obs(f, T) \in Nat
<1> DEFINE g == [t \in T |-> f[t].obs]
<1>1. \A t \in T : g[t] \in Nat
  OBVIOUS
<1>2. Shots!Obs(f, T) = SumFunctionOnSet(g, T)
  BY CaptureSum DEF Shots!Obs
<1> HIDE DEF g
<1> QED  BY <1>1, <1>2, SumNat

LEMMA ObsNone == \A f : Shots!Obs(f, {}) = 0
  BY CaptureSum, SumEmpty DEF Shots!Obs

LEMMA ObsSame ==
    ASSUME NEW f, NEW g, NEW T, IsFiniteSet(T), \A t \in T : f[t].obs = g[t].obs
    PROVE  Shots!Obs(f, T) = Shots!Obs(g, T)
<1> DEFINE h == [t \in T |-> f[t].obs]
           k == [t \in T |-> g[t].obs]
<1>1. h = k
  OBVIOUS
<1> QED  BY <1>1, CaptureSum DEF Shots!Obs

LEMMA ObsSplit ==
    ASSUME NEW f, NEW T, IsFiniteSet(T), \A t \in T : f[t].obs \in Nat,
           NEW A, NEW B, A \cup B = T, A \cap B = {}
    PROVE  Shots!Obs(f, T) = Shots!Obs(f, A) + Shots!Obs(f, B)
<1> DEFINE g == [t \in T |-> f[t].obs]
<1>1. IsFiniteSet(A) /\ IsFiniteSet(B)
  BY FS_Subset
<1>2. /\ Shots!Obs(f, T) = SumFunctionOnSet(g, T) /\ Shots!Obs(f, A) = SumFunctionOnSet(g, A)
      /\ Shots!Obs(f, B) = SumFunctionOnSet(g, B)
  BY ObsIs
<1>3. \A t \in A \cup B : g[t] \in Int
  OBVIOUS
<1> HIDE DEF g
<1>4. SumFunctionOnSet(g, A \cup B) = SumFunctionOnSet(g, A) + SumFunctionOnSet(g, B)
  BY <1>1, <1>3, SumUnion
<1> QED  BY <1>2, <1>4

LEMMA ObsOne ==
    ASSUME NEW f, NEW t, f[t].obs \in Nat
    PROVE  Shots!Obs(f, {t}) = f[t].obs
<1> DEFINE g == [u \in {t} |-> f[u].obs]
<1>1. IsFiniteSet({}) /\ t \notin {} /\ {} \cup {t} = {t}
  BY FS_EmptySet
<1>2. Shots!Obs(f, {t}) = SumFunctionOnSet(g, {t}) /\ g[t] = f[t].obs /\ \A y \in {} \cup {t} : g[y] \in Int
  BY CaptureSum DEF Shots!Obs
<1> HIDE DEF g
<1>3. SumFunctionOnSet(g, {} \cup {t}) = SumFunctionOnSet(g, {}) + g[t]
  BY <1>1, <1>2, SumAdd
<1> QED  BY <1>1, <1>2, <1>3, SumEmpty

(* What is flushed is what has a crop and what has none. *)
LEMMA Flushes ==
    ASSUME NEW f, NEW T, IsFiniteSet(T), \A t \in T : f[t].obs \in Nat /\ f[t].crop \in BOOLEAN
    PROVE  /\ Shots!Obs(f, {t \in T : f[t].crop}) \in Nat
           /\ Shots!Obs(f, {t \in T : ~ f[t].crop}) \in Nat
           /\ Shots!Obs(f, {t \in T : f[t].crop}) + Shots!Obs(f, {t \in T : ~ f[t].crop}) = Shots!Obs(f, T)
           /\ (\A t \in T : f[t].crop) => Shots!Obs(f, {t \in T : ~ f[t].crop}) = 0
<1> DEFINE A == Cropped(f, T)
           B == Bare(f, T)
<1>1. A \cup B = T /\ A \cap B = {} /\ ((\A t \in T : f[t].crop) => B = {})
  BY DEF Cropped, Bare
<1>2. IsFiniteSet(A) /\ IsFiniteSet(B) /\ A \subseteq T /\ B \subseteq T
  BY <1>1, FS_Subset
<1>3. \A t \in T : f[t].obs \in Nat
  OBVIOUS
<1> HIDE DEF A, B
<1>4. Shots!Obs(f, A) \in Nat /\ Shots!Obs(f, B) \in Nat
  BY <1>2, <1>3, ObsType
<1>5. Shots!Obs(f, T) = Shots!Obs(f, A) + Shots!Obs(f, B)
  BY <1>1, <1>3, ObsSplit
<1>6. (\A t \in T : f[t].crop) => Shots!Obs(f, B) = 0
  BY <1>1, ObsNone
<1> QED  BY <1>4, <1>5, <1>6 DEF A, B, Cropped, Bare

(* One candidate is no more than all of them. *)
LEMMA ObsLeast ==
    ASSUME NEW f, NEW T, IsFiniteSet(T), \A t \in T : f[t].obs \in Nat, NEW t \in T
    PROVE  f[t].obs <= Shots!Obs(f, T)
<1> DEFINE R == T \ {t}
<1>1. IsFiniteSet(R) /\ R \cup {t} = T /\ R \cap {t} = {} /\ \A u \in R : f[u].obs \in Nat
  BY FS_Subset
<1> HIDE DEF R
<1>2. Shots!Obs(f, T) = Shots!Obs(f, R) + Shots!Obs(f, {t})
  BY <1>1, ObsSplit
<1>3. Shots!Obs(f, R) \in Nat /\ Shots!Obs(f, {t}) = f[t].obs
  BY <1>1, ObsType, ObsOne
<1> QED  BY <1>2, <1>3

(* Track numbers.                                                          *)
LEMMA Multiples ==
    ASSUME NEW a \in Nat, NEW b \in Nat, NEW k \in Nat, a < b
    PROVE  a * k + k <= b * k /\ a * k \in Nat /\ b * k \in Nat
<1> DEFINE d == b - a - 1
<1>1. d \in Nat /\ b = a + 1 + d
  OBVIOUS
<1> HIDE DEF d
<1>2. b * k = a * k + k + d * k /\ d * k \in Nat /\ a * k \in Nat
  BY <1>1
<1> QED  BY <1>2

(* A number is of one session only. *)
LEMMA SessionsApart ==
    ASSUME NEW s \in Nat, NEW r \in Nat, NEW t, t \in OfSession(s), t \in OfSession(r)
    PROVE  s = r
<1>1. ASSUME NEW a \in Nat, NEW b \in Nat, a < b, t \in OfSession(a), t \in OfSession(b)
      PROVE  FALSE
  <2>1. a * Stride + Stride <= b * Stride /\ a * Stride \in Nat /\ b * Stride \in Nat
    BY <1>1, CaptureFacts, Multiples
  <2>2. t \in Int /\ t <= a * Stride + (Stride - 1) /\ b * Stride <= t
    BY <1>1, <2>1, CaptureFacts DEF OfSession
  <2> QED  BY <2>1, <2>2, CaptureFacts
<1> QED  BY <1>1

LEMMA Numbered ==
    ASSUME LoopInv, capture_pc = "open", NEW id \in TrackerId
    PROVE  Shots!TrackId(id) \in Tracks /\ Shots!TrackId(id) \in OfSession(capture_session)
<1>1. capture_session \in 0..MaxSessions /\ capture_session \in Nat
  BY CaptureFacts DEF LoopInv
<1>2. id \in 0..Stride - 1 /\ id \in Nat /\ id <= Stride - 1
  BY CaptureFacts
<1> DEFINE m == capture_session * Stride
<1>3. m \in Nat
  BY <1>1, CaptureFacts
<1>4. Shots!TrackId(id) = m + id
  BY DEF Shots!TrackId
<1>5. Shots!TrackId(id) \in Tracks
  BY <1>1 DEF Shots!TrackId, Tracks, Shots!Track
<1> HIDE DEF m
<1>6. m + id \in m..m + (Stride - 1)
  BY <1>2, <1>3, CaptureFacts
<1> QED  BY <1>4, <1>5, <1>6 DEF OfSession, m

(* Best shots.                                                             *)
LEMMA Joins ==
    ASSUME NEW c \in Shot, NEW score \in Sharpness, NEW crop \in BOOLEAN, NEW pts \in Pts
    PROVE  /\ Shots!Joined(c, score, crop, pts) \in Shot
           /\ Shots!Joined(c, score, crop, pts).obs = c.obs + 1
           /\ c.crop /\ (score > c.score => crop) => Shots!Joined(c, score, crop, pts).crop
<1>1. /\ c.score \in Sharpness /\ c.crop \in BOOLEAN /\ c.last \in Pts /\ c.obs \in Nat \ {0}
      /\ c = [score |-> c.score, crop |-> c.crop, last |-> c.last, obs |-> c.obs]
  BY DEF Shot
<1> DEFINE last == IF pts > c.last THEN pts ELSE c.last
           d == Shots!Joined(c, score, crop, pts)
<1>2. last \in Pts
  BY <1>1
<1>3. CASE score > c.score
  <2>1. d = [score |-> score, crop |-> crop, last |-> last, obs |-> c.obs + 1]
    BY <1>3 DEF Shots!Joined, Shots!Beats
  <2> HIDE DEF last, d
  <2> QED  BY <1>1, <1>2, <1>3, <2>1 DEF Shot, d
<1>4. CASE ~ (score > c.score)
  <2>1. d = [c EXCEPT !.last = last, !.obs = c.obs + 1]
    BY <1>4 DEF Shots!Joined, Shots!Beats
  <2> HIDE DEF last, d
  <2>2. d = [score |-> c.score, crop |-> c.crop, last |-> last, obs |-> c.obs + 1]
    BY <1>1, <2>1
  <2> QED  BY <1>1, <1>2, <1>4, <2>2 DEF Shot, d
<1> QED  BY <1>3, <1>4

LEMMA WithIs ==
    ASSUME NEW f, NEW t, NEW x
    PROVE  /\ DOMAIN Shots!With(f, t, x) = DOMAIN f \cup {t} /\ Shots!With(f, t, x)[t] = x
           /\ \A u \in DOMAIN f : u # t => Shots!With(f, t, x)[u] = f[u]
           /\ Shots!With(f, t, x) = [u \in DOMAIN Shots!With(f, t, x) |-> Shots!With(f, t, x)[u]]
  BY DEF Shots!With

LEMMA WithoutIs ==
    ASSUME NEW f, NEW T
    PROVE  /\ DOMAIN Shots!Without(f, T) = DOMAIN f \ T
           /\ \A u \in DOMAIN f \ T : Shots!Without(f, T)[u] = f[u]
           /\ Shots!Without(f, T) = [u \in DOMAIN Shots!Without(f, T) |-> Shots!Without(f, T)[u]]
  BY DEF Shots!Without

(* A shot more: one observation more, and every crop if it has its own.    *)
LEMMA OneShot ==
    ASSUME NEW h, IsHeld(h), NEW t \in Tracks, NEW x \in Shot,
           IF t \in DOMAIN h THEN x.obs = h[t].obs + 1 ELSE x.obs = 1
    PROVE  LET all == Shots!With(h, t, x)
           IN  /\ IsHeld(all) /\ DOMAIN all = DOMAIN h \cup {t}
               /\ Shots!Obs(h, DOMAIN h) \in Nat
               /\ Shots!Obs(all, DOMAIN all) = Shots!Obs(h, DOMAIN h) + 1
               /\ x.crop /\ (\A u \in DOMAIN h : h[u].crop) => \A u \in DOMAIN all : all[u].crop
               /\ Cardinality(DOMAIN all) <= Cardinality(DOMAIN h) + 1
               /\ Cardinality(DOMAIN h) \in Nat
<1> DEFINE all == Shots!With(h, t, x)
           R == DOMAIN h \ {t}
<1>1. /\ DOMAIN all = DOMAIN h \cup {t} /\ all[t] = x /\ \A u \in DOMAIN h : u # t => all[u] = h[u]
      /\ all = [u \in DOMAIN all |-> all[u]]
  BY DEF Shots!With
<1>2. /\ \A u \in DOMAIN h : h[u] \in Shot /\ h[u].obs \in Nat /\ DOMAIN h \subseteq Tracks
      /\ IsFiniteSet(DOMAIN h) /\ x.obs \in Nat
  BY DEF IsHeld, Shot
<1> HIDE DEF all
<1>3. DOMAIN all = R \cup {t} /\ R \cap {t} = {} /\ R \subseteq DOMAIN h
  BY <1>1
<1>4. IsFiniteSet(DOMAIN all) /\ IsFiniteSet(R)
  BY <1>1, <1>2, <1>3, FS_AddElement, FS_Subset
<1>5. \A u \in DOMAIN all : all[u] \in Shot /\ all[u].obs \in Nat
  BY <1>1, <1>2
<1>6. IsHeld(all)
  BY <1>1, <1>2, <1>4, <1>5 DEF IsHeld
<1>7. Shots!Obs(all, DOMAIN all) = Shots!Obs(all, R) + Shots!Obs(all, {t})
  <2> HIDE DEF R
  <2> QED  BY <1>3, <1>4, <1>5, ObsSplit
<1>8. Shots!Obs(all, {t}) = x.obs
  BY <1>1, <1>2, ObsOne
<1>9. Shots!Obs(all, R) = Shots!Obs(h, R) /\ Shots!Obs(h, R) \in Nat
  <2>1. \A u \in R : all[u].obs = h[u].obs /\ h[u].obs \in Nat
    BY <1>1, <1>2
  <2> HIDE DEF R
  <2> QED  BY <1>4, <2>1, ObsSame, ObsType
<1>10. Shots!Obs(h, DOMAIN h) \in Nat /\ x.obs + Shots!Obs(h, R) = Shots!Obs(h, DOMAIN h) + 1
  <2>1. CASE t \in DOMAIN h
    <3>1. DOMAIN h = R \cup {t} /\ R \cap {t} = {}
      BY <2>1
    <3>2. h[t].obs \in Nat /\ x.obs = h[t].obs + 1
      BY <1>2, <2>1
    <3> HIDE DEF R
    <3>3. Shots!Obs(h, DOMAIN h) = Shots!Obs(h, R) + Shots!Obs(h, {t})
      BY <1>2, <3>1, ObsSplit
    <3>4. Shots!Obs(h, {t}) = h[t].obs
      BY <3>2, ObsOne
    <3> QED  BY <1>9, <3>2, <3>3, <3>4
  <2>2. CASE t \notin DOMAIN h
    <3>1. R = DOMAIN h /\ x.obs = 1
      BY <2>2
    <3> HIDE DEF R
    <3> QED  BY <1>9, <3>1
  <2> QED  BY <2>1, <2>2
<1>11. Shots!Obs(all, DOMAIN all) = Shots!Obs(h, DOMAIN h) + 1
  BY <1>2, <1>7, <1>8, <1>9, <1>10
<1>12. x.crop /\ (\A u \in DOMAIN h : h[u].crop) => \A u \in DOMAIN all : all[u].crop
  BY <1>1
<1>13. Cardinality(DOMAIN h) \in Nat /\ Cardinality(DOMAIN all) <= Cardinality(DOMAIN h) + 1
  <2>1. Cardinality(DOMAIN h) \in Nat
    BY <1>2, FS_CardinalityType
  <2>2. Cardinality(DOMAIN h \cup {t}) = IF t \in DOMAIN h THEN Cardinality(DOMAIN h) ELSE Cardinality(DOMAIN h) + 1
    BY <1>2, FS_AddElement
  <2> QED  BY <1>1, <2>1, <2>2
<1> QED  BY <1>1, <1>6, <1>10, <1>11, <1>12, <1>13 DEF all

(* Some candidates less: what they had seen is flushed. *)
LEMMA SomeLess ==
    ASSUME NEW h, IsHeld(h), NEW T \in SUBSET DOMAIN h
    PROVE  LET left == Shots!Without(h, T)
           IN  /\ IsHeld(left) /\ DOMAIN left = DOMAIN h \ T
               /\ Shots!Obs(h, {u \in T : h[u].crop}) \in Nat /\ Shots!Obs(h, {u \in T : ~ h[u].crop}) \in Nat
               /\ Shots!Obs(left, DOMAIN left) \in Nat
               /\ Shots!Obs(h, DOMAIN h) = Shots!Obs(h, {u \in T : h[u].crop}) + Shots!Obs(h, {u \in T : ~ h[u].crop})
                                             + Shots!Obs(left, DOMAIN left)
               /\ (\A u \in DOMAIN h : h[u].crop) =>
                     Shots!Obs(h, {u \in T : ~ h[u].crop}) = 0 /\ \A u \in DOMAIN left : left[u].crop
<1> DEFINE left == Shots!Without(h, T)
           R == DOMAIN h \ T
           a == Shots!Obs(h, {u \in T : h[u].crop})
           b == Shots!Obs(h, {u \in T : ~ h[u].crop})
<1>1. DOMAIN left = R /\ (\A u \in R : left[u] = h[u]) /\ left = [u \in DOMAIN left |-> left[u]]
  BY WithoutIs
<1>2. /\ \A u \in DOMAIN h : h[u] \in Shot /\ h[u].obs \in Nat /\ h[u].crop \in BOOLEAN
      /\ DOMAIN h \subseteq Tracks /\ IsFiniteSet(DOMAIN h)
  BY DEF IsHeld, Shot
<1>3. /\ IsFiniteSet(T) /\ IsFiniteSet(R) /\ T \cup R = DOMAIN h /\ T \cap R = {} /\ R \subseteq DOMAIN h
      /\ \A u \in R : u \in DOMAIN h
  BY <1>2, FS_Subset
<1> HIDE DEF left
<1>4. IsHeld(left)
  BY <1>1, <1>2, <1>3 DEF IsHeld
<1>5. /\ a \in Nat /\ b \in Nat /\ a + b = Shots!Obs(h, T)
      /\ (\A u \in T : h[u].crop) => b = 0
  BY <1>2, <1>3, Flushes
<1> HIDE DEF R, a, b
<1>6. Shots!Obs(h, DOMAIN h) = Shots!Obs(h, T) + Shots!Obs(h, R)
  BY <1>2, <1>3, ObsSplit
<1>7. Shots!Obs(left, R) = Shots!Obs(h, R) /\ Shots!Obs(h, R) \in Nat
  <2>1. \A u \in R : left[u].obs = h[u].obs /\ h[u].obs \in Nat
    BY <1>1, <1>2, <1>3
  <2> QED  BY <1>3, <2>1, ObsSame, ObsType
<1>8. (\A u \in DOMAIN h : h[u].crop) => b = 0 /\ \A u \in DOMAIN left : left[u].crop
  BY <1>1, <1>3, <1>5
<1>9. Shots!Obs(h, DOMAIN h) = a + b + Shots!Obs(left, DOMAIN left) /\ Shots!Obs(left, DOMAIN left) \in Nat
  BY <1>1, <1>5, <1>6, <1>7
<1> QED  BY <1>1, <1>4, <1>5, <1>8, <1>9 DEF left, R, a, b

(* Who has one too many and drops one has enough room. *)
LEMMA Trimmed ==
    ASSUME NEW A, IsFiniteSet(A), NEW n \in Nat, Cardinality(A) <= n + 1, NEW I \in SUBSET A, NEW full,
           full \subseteq A \ I, Cardinality(A \ I) <= n \/ \E u \in A \ I : full = {u}
    PROVE  Cardinality(A \ (I \cup full)) <= n
<1> DEFINE R == A \ I
           left == A \ (I \cup full)
<1>1. left = R \ full /\ R \subseteq A /\ left \subseteq R
  OBVIOUS
<1>2. /\ IsFiniteSet(R) /\ IsFiniteSet(left) /\ Cardinality(R) \in Nat /\ Cardinality(left) \in Nat
      /\ Cardinality(left) <= Cardinality(R) /\ Cardinality(R) <= Cardinality(A) /\ Cardinality(A) \in Nat
  <2> HIDE DEF R, left
  <2> QED  BY <1>1, FS_Subset, FS_CardinalityType
<1>3. CASE Cardinality(R) <= n
  <2> HIDE DEF R
  <2> QED  BY <1>2, <1>3
<1>4. CASE \E u \in R : full = {u}
  <2>1. PICK u \in R : full = {u}
    BY <1>4
  <2>2. left = R \ {u}
    BY <1>1, <2>1
  <2> HIDE DEF R, left
  <2>3. Cardinality(left) = Cardinality(R) - 1
    BY <1>2, <2>2, FS_RemoveElement
  <2> QED  BY <1>2, <2>3 DEF left
<1> QED  BY <1>3, <1>4

LEMMA OfferKeeps ==
    ASSUME HeldInv, NEW t \in Tracks, NEW score \in Sharpness, NEW pts \in Pts,
           capture_offers < MaxOffers, capture_offers' = capture_offers + 1, Shots!Offer(t, score, pts)
    PROVE  HeldInv'
<1> DEFINE H == capture_held
           crop == t \notin DOMAIN H \/ score > H[t].score
           rewound == capture_lastPts # -1 /\ capture_lastPts - pts > IdleFlush
           kept == IF rewound THEN <<>> ELSE H
           shot == IF t \in DOMAIN kept THEN Shots!Joined(kept[t], score, crop, pts)
                   ELSE [score |-> score, crop |-> crop, last |-> pts, obs |-> 1]
           all == Shots!With(kept, t, shot)
           idle == {u \in DOMAIN all : pts - all[u].last > IdleFlush}
           rest == DOMAIN all \ idle
           gone == IF rewound THEN DOMAIN H ELSE {}
<1>1. PICK full \in IF Shots!Cardinality(rest) <= MaxTracks THEN {{}}
                    ELSE {{u} : u \in {v \in rest : \A w \in rest : all[v].last <= all[w].last}} :
        /\ capture_stored' = capture_stored + Shots!Obs(H, {u \in gone : H[u].crop})
                               + Shots!Obs(all, {u \in (idle \cup full) : all[u].crop})
        /\ capture_dropped' = capture_dropped + Shots!Obs(H, {u \in gone : ~ H[u].crop})
                               + Shots!Obs(all, {u \in (idle \cup full) : ~ all[u].crop})
        /\ capture_held' = Shots!Without(all, idle \cup full)
        /\ capture_lastPts' = pts
        /\ capture_rewinds' = capture_rewinds + (IF rewound THEN 1 ELSE 0)
  BY DEF Shots!Offer
<1> DEFINE out == idle \cup full
<1>2. full \subseteq rest /\ (Cardinality(rest) <= MaxTracks \/ \E u \in rest : full = {u})
  <2> HIDE DEF rest, all
  <2> QED  BY <1>1, CaptureNumber
<1>3. crop \in BOOLEAN /\ rewound \in BOOLEAN
  OBVIOUS
<1>4. IsHeld(H) /\ \A u \in DOMAIN H : H[u] \in Shot
  BY DEF HeldInv, IsHeld
<1>5. IsHeld(<<>>) /\ Shots!Obs(<<>>, DOMAIN <<>>) = 0
  BY NoTrack, ObsNone, FS_EmptySet DEF IsHeld
<1>6. /\ IsHeld(kept) /\ \A u \in DOMAIN kept : u \in DOMAIN H /\ kept[u] = H[u] /\ kept[u] \in Shot
      /\ Cardinality(DOMAIN kept) <= MaxTracks
  <2>1. CASE rewound
    <3>1. kept = <<>> /\ DOMAIN kept = {}
      BY <2>1, NoTrack
    <3>2. Cardinality({}) = 0 /\ 0 <= MaxTracks
      BY FS_EmptySet, CaptureFacts
    <3> QED  BY <1>5, <3>1, <3>2
  <2>2. CASE ~ rewound
    <3>1. kept = H
      BY <2>2
    <3> QED  BY <1>4, <3>1 DEF HeldInv
  <2> QED  BY <2>1, <2>2
<1> DEFINE a == Shots!Obs(H, {u \in gone : H[u].crop})
           b == Shots!Obs(H, {u \in gone : ~ H[u].crop})
<1>7. /\ a \in Nat /\ b \in Nat /\ Shots!Obs(H, DOMAIN H) = a + b + Shots!Obs(kept, DOMAIN kept)
      /\ ~ rewound => b = 0
  <2>1. /\ gone \in SUBSET DOMAIN H
        /\ \A u \in gone : H[u].obs \in Nat /\ H[u].crop \in BOOLEAN
        /\ IsFiniteSet(gone)
    <3>1. gone \in SUBSET DOMAIN H /\ IsFiniteSet(DOMAIN H)
      BY <1>4 DEF IsHeld
    <3>2. \A u \in DOMAIN H : H[u].obs \in Nat /\ H[u].crop \in BOOLEAN
      BY <1>4 DEF Shot
    <3> HIDE DEF gone, H
    <3> QED  BY <3>1, <3>2, FS_Subset
  <2>2. rewound => gone = DOMAIN H /\ kept = <<>>
    OBVIOUS
  <2>3. ~ rewound => gone = {} /\ kept = H
    OBVIOUS
  <2> HIDE DEF gone, kept, rewound, H
  <2>4. /\ a \in Nat /\ b \in Nat /\ a + b = Shots!Obs(H, gone)
        /\ (\A u \in gone : H[u].crop) => b = 0
    BY <2>1, Flushes
  <2> HIDE DEF a, b
  <2>5. CASE rewound
    BY <2>2, <2>4, <2>5, <1>5
  <2>6. CASE ~ rewound
    <3>1. Shots!Obs(H, gone) = 0 /\ gone = {} /\ kept = H
      BY <2>3, <2>6, ObsNone
    <3>2. a = 0 /\ b = 0
      BY <2>4, <3>1
    <3>3. Shots!Obs(H, DOMAIN H) \in Nat
      <4>1. IsFiniteSet(DOMAIN H) /\ \A u \in DOMAIN H : H[u].obs \in Nat
        BY <1>4 DEF IsHeld, Shot
      <4> QED  BY <4>1, ObsType
    <3> QED  BY <2>4, <3>1, <3>2, <3>3
  <2> QED  BY <2>5, <2>6
<1> HIDE DEF rewound, kept, a, b
<1>8. /\ shot \in Shot
      /\ IF t \in DOMAIN kept THEN shot.obs = kept[t].obs + 1 ELSE shot.obs = 1
      /\ ~ rewound /\ (\A u \in DOMAIN H : H[u].crop) => shot.crop
  <2>1. CASE t \in DOMAIN kept
    <3>1. t \in DOMAIN H /\ kept[t] = H[t] /\ kept[t] \in Shot
      BY <1>6, <2>1
    <3>2. shot = Shots!Joined(kept[t], score, crop, pts)
      BY <2>1
    <3>3. score > kept[t].score => crop
      BY <3>1
    <3> HIDE DEF H, crop, shot
    <3>4. /\ shot \in Shot /\ shot.obs = kept[t].obs + 1
          /\ kept[t].crop /\ (score > kept[t].score => crop) => shot.crop
      BY <1>3, <3>1, <3>2, Joins
    <3> QED  BY <2>1, <3>1, <3>3, <3>4
  <2>2. CASE t \notin DOMAIN kept
    <3>1. shot = [score |-> score, crop |-> crop, last |-> pts, obs |-> 1]
      BY <2>2
    <3>2. ~ rewound => crop
      BY <2>2 DEF kept
    <3> HIDE DEF crop, shot
    <3> QED  BY <1>3, <2>2, <3>1, <3>2 DEF Shot
  <2> QED  BY <2>1, <2>2
<1> HIDE DEF shot
<1>9. /\ IsHeld(all) /\ DOMAIN all = DOMAIN kept \cup {t}
      /\ Shots!Obs(kept, DOMAIN kept) \in Nat
      /\ Shots!Obs(all, DOMAIN all) = Shots!Obs(kept, DOMAIN kept) + 1
      /\ shot.crop /\ (\A u \in DOMAIN kept : kept[u].crop) => \A u \in DOMAIN all : all[u].crop
      /\ Cardinality(DOMAIN all) <= Cardinality(DOMAIN kept) + 1
      /\ Cardinality(DOMAIN kept) \in Nat
  BY <1>6, <1>8, OneShot
<1>10. out \in SUBSET DOMAIN all /\ capture_held' = Shots!Without(all, out)
  <2>1. idle \subseteq DOMAIN all /\ rest \subseteq DOMAIN all
    OBVIOUS
  <2> QED  BY <1>1, <1>2, <2>1
<1>11. Cardinality(DOMAIN all \ out) <= MaxTracks
  <2>1. IsFiniteSet(DOMAIN all) /\ Cardinality(DOMAIN all) <= MaxTracks + 1
    <3>1. Cardinality(DOMAIN all) \in Nat /\ IsFiniteSet(DOMAIN all)
      BY <1>9, FS_CardinalityType DEF IsHeld
    <3> QED  BY <1>6, <1>9, <3>1, CaptureFacts
  <2>2. idle \in SUBSET DOMAIN all
    OBVIOUS
  <2> HIDE DEF idle, all
  <2> QED  BY <1>2, <2>1, <2>2, CaptureFacts, Trimmed
<1> HIDE DEF all
<1> DEFINE c == Shots!Obs(all, {u \in out : all[u].crop})
           d == Shots!Obs(all, {u \in out : ~ all[u].crop})
<1>12. /\ capture_stored' = capture_stored + a + c /\ capture_dropped' = capture_dropped + b + d
  BY <1>1 DEF a, b
<1> HIDE DEF out
<1>13. /\ IsHeld(capture_held') /\ DOMAIN capture_held' = DOMAIN all \ out
       /\ c \in Nat /\ d \in Nat /\ Shots!Obs(capture_held', DOMAIN capture_held') \in Nat
       /\ Shots!Obs(all, DOMAIN all) = c + d + Shots!Obs(capture_held', DOMAIN capture_held')
       /\ (\A u \in DOMAIN all : all[u].crop) => d = 0 /\ \A u \in DOMAIN capture_held' : capture_held'[u].crop
  BY <1>9, <1>10, SomeLess
<1> HIDE DEF c, d
<1>15. /\ capture_stored \in Nat /\ capture_dropped \in Nat /\ capture_offers \in Nat /\ capture_rewinds \in 0..capture_offers
       /\ capture_stored + capture_dropped + Shots!Obs(H, DOMAIN H) = capture_offers
       /\ MaxOffers \in Nat
       /\ capture_rewinds = 0 => capture_dropped = 0 /\ \A u \in DOMAIN H : H[u].crop
  BY CaptureFacts DEF HeldInv
<1>16. Shots!Obs(H, DOMAIN H) \in Nat
  BY <1>9, <1>7
<1> DEFINE o == Shots!Obs(H, DOMAIN H)
           n == Shots!Obs(capture_held', DOMAIN capture_held')
           k == Shots!Obs(kept, DOMAIN kept)
<1>17. capture_stored' + capture_dropped' + n = capture_offers'
  <2>1. k \in Nat /\ n \in Nat /\ o \in Nat /\ k + 1 = c + d + n /\ o = a + b + k
    BY <1>9, <1>13, <1>7, <1>16
  <2>2. capture_stored + capture_dropped + o = capture_offers
    BY <1>15
  <2> HIDE DEF o, n, k
  <2> QED  BY <1>12, <1>13, <1>7, <1>15, <2>1, <2>2
<1>18. /\ capture_rewinds' \in 0..capture_offers' /\ capture_offers' \in 0..MaxOffers
       /\ capture_stored' \in Nat /\ capture_dropped' \in Nat
  BY <1>1, <1>12, <1>13, <1>7, <1>15
<1>19. capture_rewinds' = 0 => capture_dropped' = 0 /\ \A u \in DOMAIN capture_held' : capture_held'[u].crop
  <2> SUFFICES ASSUME capture_rewinds' = 0
               PROVE  capture_dropped' = 0 /\ \A u \in DOMAIN capture_held' : capture_held'[u].crop
    OBVIOUS
  <2>1. ~ rewound /\ capture_rewinds = 0
    BY <1>1, <1>15
  <2>2. \A u \in DOMAIN kept : kept[u].crop
    BY <1>6, <1>15, <2>1
  <2>3. \A u \in DOMAIN all : all[u].crop
    BY <1>8, <1>9, <1>15, <2>1, <2>2
  <2> QED  BY <1>12, <1>13, <1>7, <1>15, <2>1, <2>3
<1> QED  BY <1>1, <1>11, <1>13, <1>17, <1>18, <1>19 DEF HeldInv

(* The end of a session, and of the run, flushes all that is held. *)
LEMMA FlushKeeps ==
    ASSUME HeldInv, Shots!EndSession, UNCHANGED capture_offers
    PROVE  HeldInv' /\ capture_held' = <<>>
<1> DEFINE T == DOMAIN capture_held
           a == Shots!Obs(capture_held, {t \in T : capture_held[t].crop})
           b == Shots!Obs(capture_held, {t \in T : ~ capture_held[t].crop})
<1>1. /\ capture_stored' = capture_stored + a /\ capture_dropped' = capture_dropped + b
      /\ capture_held' = <<>> /\ capture_lastPts' = -1 /\ capture_rewinds' = capture_rewinds
  BY DEF Shots!EndSession, Shots!Flushed
<1>2. IsFiniteSet(T) /\ \A t \in T : capture_held[t].obs \in Nat /\ capture_held[t].crop \in BOOLEAN
  BY DEF HeldInv, IsHeld, Shot
<1>3. a \in Nat /\ b \in Nat /\ a + b = Shots!Obs(capture_held, T) /\ ((\A t \in T : capture_held[t].crop) => b = 0)
  BY <1>2, Flushes
<1> HIDE DEF a, b
<1>4. IsHeld(<<>>) /\ Shots!Obs(<<>>, DOMAIN <<>>) = 0 /\ DOMAIN <<>> = {} /\ Cardinality({}) = 0
  BY NoTrack, ObsNone, FS_EmptySet DEF IsHeld
<1>5. IsHeld(capture_held') /\ Shots!Obs(capture_held', DOMAIN capture_held') = 0
      /\ Cardinality(DOMAIN capture_held') <= MaxTracks /\ DOMAIN capture_held' = {}
  BY <1>1, <1>4, CaptureFacts
<1>6. capture_stored' + capture_dropped' + Shots!Obs(capture_held', DOMAIN capture_held') = capture_offers'
  BY <1>1, <1>3, <1>5 DEF HeldInv
<1>7. capture_rewinds' = 0 => capture_dropped' = 0
  BY <1>1, <1>3 DEF HeldInv
<1>8. capture_stored' \in Nat /\ capture_dropped' \in Nat
  BY <1>1, <1>3 DEF HeldInv
<1> QED  BY <1>1, <1>5, <1>6, <1>7, <1>8 DEF HeldInv

(* Plate reads.                                                            *)
LEMMA EmptyBuffer == ASSUME NEW t PROVE IsBuffer(t, Shots!NoBuffer)
  BY CaptureFacts DEF IsBuffer, Buffers, Shots!NoBuffer, Shots!Ready

LEMMA BufferOf ==
    ASSUME BufferInv, NEW t, NEW b, b = IF t \in DOMAIN capture_buffer THEN capture_buffer[t] ELSE Shots!NoBuffer
    PROVE  IsBuffer(t, b)
  BY EmptyBuffer DEF BufferInv

(* A buffer is voted on when it is ready. *)
LEMMA Voted ==
    ASSUME NEW t, NEW n \in 0..TopN, NEW examined \in 0..MaxExamine, NEW stale \in Nat, NEW emitted \in BOOLEAN,
           NEW rs \in SUBSET (0..MaxSessions), \A r \in rs : t \in OfSession(r), NEW looked,
           looked = [n |-> n, examined |-> examined, stale |-> stale, emitted |-> emitted, sessions |-> rs]
    PROVE  IsBuffer(t, [looked EXCEPT !.emitted = Shots!Ready(looked)])
           /\ [looked EXCEPT !.emitted = Shots!Ready(looked)].emitted = Shots!Ready(looked)
<1> DEFINE ready == Shots!Ready(looked)
           new == [looked EXCEPT !.emitted = ready]
<1>1. ready \in BOOLEAN /\ (ready <=> n >= TopN \/ examined >= MaxExamine \/ (n > 0 /\ stale >= StaleAfter))
  BY DEF Shots!Ready
<1> HIDE DEF ready
<1>2. new = [n |-> n, examined |-> examined, stale |-> stale, emitted |-> ready, sessions |-> rs]
  OBVIOUS
<1> HIDE DEF new
<1>3. new \in Buffers /\ new.emitted = ready /\ new.sessions = rs
  BY <1>1, <1>2 DEF Buffers
<1>4. ~ ready => ~ Shots!Ready(new)
  BY <1>1, <1>2 DEF Shots!Ready
<1> QED  BY <1>3, <1>4 DEF IsBuffer, new, ready

(* A frame more in a buffer that waits: within the bounds, of this session. *)
LEMMA Looked ==
    ASSUME NEW t, NEW s \in 0..MaxSessions, t \in OfSession(s), NEW b, IsBuffer(t, b), ~ b.emitted, NEW found \in BOOLEAN,
           NEW looked,
           looked = IF found
                      THEN [b EXCEPT !.examined = @ + 1, !.n = @ + 1, !.stale = 0, !.sessions = @ \cup {s}]
                      ELSE [b EXCEPT !.examined = @ + 1, !.stale = @ + 1]
    PROVE  IsBuffer(t, [looked EXCEPT !.emitted = Shots!Ready(looked)])
           /\ [looked EXCEPT !.emitted = Shots!Ready(looked)].emitted = Shots!Ready(looked)
<1>1. /\ b.emitted \in BOOLEAN /\ b.n \in 0..TopN /\ b.examined \in 0..MaxExamine /\ b.stale \in Nat /\ b.sessions \in SUBSET (0..MaxSessions)
      /\ b = [n |-> b.n, examined |-> b.examined, stale |-> b.stale, emitted |-> b.emitted, sessions |-> b.sessions]
      /\ \A r \in b.sessions : t \in OfSession(r)
  BY DEF IsBuffer, Buffers
<1>2. b.n < TopN /\ b.examined < MaxExamine
  BY <1>1, CaptureFacts DEF IsBuffer, Shots!Ready
<1>3. PICK n \in 0..TopN, stale \in Nat, rs \in SUBSET (0..MaxSessions) :
        /\ looked = [n |-> n, examined |-> b.examined + 1, stale |-> stale, emitted |-> b.emitted, sessions |-> rs]
        /\ rs \subseteq b.sessions \cup {s}
  <2>1. CASE found
    <3>1. looked = [n |-> b.n + 1, examined |-> b.examined + 1, stale |-> 0, emitted |-> b.emitted,
                    sessions |-> b.sessions \cup {s}]
      BY <1>1, <2>1
    <3>2. b.n + 1 \in 0..TopN /\ 0 \in Nat /\ b.sessions \cup {s} \in SUBSET (0..MaxSessions)
      BY <1>1, <1>2, CaptureFacts
    <3> QED  BY <3>1, <3>2
  <2>2. CASE ~ found
    <3>1. looked = [n |-> b.n, examined |-> b.examined + 1, stale |-> b.stale + 1, emitted |-> b.emitted,
                    sessions |-> b.sessions]
      BY <1>1, <2>2
    <3>2. b.stale + 1 \in Nat
      BY <1>1
    <3> QED  BY <1>1, <3>1, <3>2
  <2> QED  BY <2>1, <2>2
<1>4. b.examined + 1 \in 0..MaxExamine /\ \A r \in rs : t \in OfSession(r)
  BY <1>1, <1>2, <1>3, CaptureFacts
<1> QED  BY <1>1, <1>3, <1>4, Voted

(* A buffer is put in its place. *)
LEMMA BufferPut ==
    ASSUME BufferInv, NEW t \in Tracks, NEW b, IsBuffer(t, b),
           capture_buffer' = Shots!With(capture_buffer, t, b),
           t \in DOMAIN capture_reads => b.emitted,
           \/ UNCHANGED capture_reads
           \/ b.emitted /\ t \notin DOMAIN capture_reads /\ capture_reads' = Shots!With(capture_reads, t, 1)
    PROVE  BufferInv'
<1>1. /\ DOMAIN capture_buffer' = DOMAIN capture_buffer \cup {t} /\ capture_buffer'[t] = b
      /\ \A u \in DOMAIN capture_buffer : u # t => capture_buffer'[u] = capture_buffer[u]
  BY DEF Shots!With
<1>2. \A u \in DOMAIN capture_buffer' : u \in Tracks /\ IsBuffer(u, capture_buffer'[u])
  BY <1>1 DEF BufferInv
<1>3. \A u \in DOMAIN capture_reads : u \in DOMAIN capture_buffer' /\ capture_reads[u] = 1 /\ capture_buffer'[u].emitted
  BY <1>1 DEF BufferInv
<1>4. CASE UNCHANGED capture_reads
  BY <1>2, <1>3, <1>4 DEF BufferInv
<1>5. CASE b.emitted /\ t \notin DOMAIN capture_reads /\ capture_reads' = Shots!With(capture_reads, t, 1)
  <2>1. /\ DOMAIN capture_reads' = DOMAIN capture_reads \cup {t} /\ capture_reads'[t] = 1
        /\ \A u \in DOMAIN capture_reads : u # t => capture_reads'[u] = capture_reads[u]
    BY <1>5 DEF Shots!With
  <2> QED  BY <1>1, <1>2, <1>3, <1>5, <2>1 DEF BufferInv
<1> QED  BY <1>4, <1>5

LEMMA ObserveKeeps ==
    ASSUME BufferInv, capture_session \in 0..MaxSessions, NEW t \in Tracks, t \in OfSession(capture_session),
           NEW found \in BOOLEAN, NEW vote \in BOOLEAN, Shots!Observe(t, found, vote)
    PROVE  BufferInv'
<1> DEFINE b == IF t \in DOMAIN capture_buffer THEN capture_buffer[t] ELSE Shots!NoBuffer
           looked == IF found
                      THEN [b EXCEPT !.examined = @ + 1, !.n = @ + 1, !.stale = 0, !.sessions = @ \cup {capture_session}]
                      ELSE [b EXCEPT !.examined = @ + 1, !.stale = @ + 1]
           ready == Shots!Ready(looked)
           new == [looked EXCEPT !.emitted = ready]
<1>1. IsBuffer(t, b)
  BY BufferOf
<1>2. CASE b.emitted
  BY <1>2 DEF Shots!Observe, BufferInv
<1>3. CASE ~ b.emitted
  <2>1. capture_buffer' = Shots!With(capture_buffer, t, new)
    BY <1>3 DEF Shots!Observe
  <2>2. t \notin DOMAIN capture_reads
    BY <1>3 DEF BufferInv
  <2>3. \/ UNCHANGED capture_reads
        \/ ready /\ capture_reads' = Shots!With(capture_reads, t, 1)
    BY <1>3, <2>2 DEF Shots!Observe
  <2> HIDE DEF b
  <2>4. IsBuffer(t, new) /\ new.emitted = ready
    <3> DEFINE l == looked
    <3> HIDE DEF l
    <3>1. l = IF found
                THEN [b EXCEPT !.examined = @ + 1, !.n = @ + 1, !.stale = 0, !.sessions = @ \cup {capture_session}]
                ELSE [b EXCEPT !.examined = @ + 1, !.stale = @ + 1]
      BY DEF l
    <3>2. IsBuffer(t, [l EXCEPT !.emitted = Shots!Ready(l)]) /\ [l EXCEPT !.emitted = Shots!Ready(l)].emitted = Shots!Ready(l)
      BY <1>1, <1>3, <3>1, Looked
    <3> QED  BY <3>2 DEF l
  <2> HIDE DEF new, ready, looked
  <2> QED  BY <2>1, <2>2, <2>3, <2>4, BufferPut
<1> QED  BY <1>2, <1>3

LEMMA TooSmallKeeps ==
    ASSUME BufferInv, NEW t \in Tracks, Shots!TooSmall(t)
    PROVE  BufferInv'
<1>1. CASE t \in DOMAIN capture_buffer
  BY <1>1 DEF Shots!TooSmall, BufferInv
<1>2. CASE t \notin DOMAIN capture_buffer
  <2>1. capture_buffer' = Shots!With(capture_buffer, t, Shots!NoBuffer) /\ UNCHANGED capture_reads
    BY <1>2 DEF Shots!TooSmall
  <2>2. t \notin DOMAIN capture_reads
    BY <1>2 DEF BufferInv
  <2> QED  BY <2>1, <2>2, EmptyBuffer, BufferPut
<1> QED  BY <1>1, <1>2

LEMMA CaptureInit ==
    ASSUME Shots!Init
    PROVE  CaptureInv
<1>1. /\ capture_pc = "closed" /\ capture_stop = FALSE /\ capture_attempt = 0 /\ capture_session = -1
      /\ capture_held = <<>> /\ capture_lastPts = -1 /\ capture_stored = 0 /\ capture_dropped = 0
      /\ capture_rewinds = 0 /\ capture_buffer = <<>> /\ capture_reads = <<>> /\ capture_offers = 0
  BY DEF Shots!Init
<1>2. DOMAIN capture_held = {} /\ DOMAIN capture_buffer = {} /\ DOMAIN capture_reads = {} /\ IsHeld(capture_held)
      /\ Cardinality({}) = 0 /\ Shots!Obs(capture_held, {}) = 0
  BY <1>1, NoTrack, ObsNone, FS_EmptySet DEF IsHeld
<1>3. LoopInv
  <2>1. -1 \in -1..MaxSessions /\ 0 \in 0..MaxAttempts
    BY CaptureFacts
  <2> QED  BY <1>1, <2>1 DEF LoopInv
<1>4. HeldInv
  BY <1>1, <1>2, CaptureFacts DEF HeldInv
<1>5. BufferInv
  BY <1>2 DEF BufferInv
<1> QED  BY <1>3, <1>4, <1>5 DEF CaptureInv

LEMMA CaptureStep ==
    ASSUME CaptureInv, Shots!Next \/ UNCHANGED captureVars
    PROVE  CaptureInv'
<1>1. LoopInv /\ HeldInv /\ BufferInv
  BY DEF CaptureInv
<1> DEFINE Shotless == UNCHANGED <<capture_held, capture_lastPts, capture_stored, capture_dropped, capture_rewinds>>
           Readless == UNCHANGED <<capture_buffer, capture_reads>>
<1>2. ASSUME Shotless, UNCHANGED capture_offers PROVE HeldInv'
  BY <1>1, <1>2 DEF HeldInv, IsHeld
<1>3. ASSUME Readless PROVE BufferInv'
  BY <1>1, <1>3 DEF BufferInv, IsBuffer
<1>4. CASE UNCHANGED captureVars
  BY <1>1, <1>2, <1>3, <1>4 DEF captureVars, LoopInv, CaptureInv
<1>5. CASE Shots!Open
  <2>1. LoopInv' /\ Readless /\ UNCHANGED capture_offers
    BY <1>1, <1>5, CaptureFacts DEF Shots!Open, LoopInv
  <2>2. HeldInv'
    BY <1>1, <1>2, <1>5, FlushKeeps DEF Shots!Open, Shots!shots
  <2> QED  BY <1>3, <2>1, <2>2 DEF CaptureInv
<1>6. CASE Shots!Cut
  <2>1. LoopInv' /\ Readless /\ UNCHANGED capture_offers
    BY <1>1, <1>6, CaptureFacts DEF Shots!Cut, LoopInv
  <2>2. HeldInv'
    BY <1>1, <1>6, FlushKeeps DEF Shots!Cut
  <2> QED  BY <1>3, <2>1, <2>2 DEF CaptureInv
<1>7. CASE Shots!Fail
  <2>1. LoopInv' /\ Readless /\ UNCHANGED capture_offers /\ Shotless
    BY <1>1, <1>7, CaptureFacts DEF Shots!Fail, LoopInv, Shots!shots
  <2> QED  BY <1>2, <1>3, <2>1 DEF CaptureInv
<1>8. CASE Shots!EndOfStream
  <2>1. LoopInv' /\ Readless /\ UNCHANGED capture_offers /\ Shotless
    BY <1>1, <1>8, CaptureFacts DEF Shots!EndOfStream, LoopInv, Shots!shots
  <2> QED  BY <1>2, <1>3, <2>1 DEF CaptureInv
<1>9. CASE Shots!Reopen
  <2>1. LoopInv' /\ Readless /\ UNCHANGED capture_offers /\ Shotless
    BY <1>1, <1>9 DEF Shots!Reopen, LoopInv, Shots!shots
  <2> QED  BY <1>2, <1>3, <2>1 DEF CaptureInv
<1>10. CASE Shots!Stop
  <2>1. LoopInv' /\ Readless /\ UNCHANGED capture_offers /\ Shotless
    BY <1>1, <1>10 DEF Shots!Stop, LoopInv, Shots!shots
  <2> QED  BY <1>2, <1>3, <2>1 DEF CaptureInv
<1>11. CASE Shots!Finish
  <2>1. Readless /\ UNCHANGED capture_offers /\ HeldInv' /\ capture_held' = <<>>
    BY <1>1, <1>11, FlushKeeps DEF Shots!Finish
  <2>2. LoopInv'
    BY <1>1, <1>11, <2>1 DEF Shots!Finish, LoopInv
  <2> QED  BY <1>3, <2>1, <2>2 DEF CaptureInv
<1>12. CASE \E id \in TrackerId, score \in Sharpness, pts \in Pts : Shots!See(id, score, pts)
  <2>1. PICK id \in TrackerId, score \in Sharpness, pts \in Pts : Shots!See(id, score, pts)
    BY <1>12
  <2> DEFINE t == Shots!TrackId(id)
  <2>2. /\ capture_pc = "open" /\ capture_offers < MaxOffers /\ capture_offers' = capture_offers + 1
        /\ Shots!TooSmall(t) \/ \E found, vote \in BOOLEAN : Shots!Observe(t, found, vote)
        /\ Shots!Offer(t, score, pts)
        /\ UNCHANGED <<capture_pc, capture_stop, capture_attempt, capture_session>>
    BY <2>1 DEF Shots!See
  <2>3. t \in Tracks /\ t \in OfSession(capture_session) /\ capture_session \in 0..MaxSessions
    BY <1>1, <2>2, Numbered DEF LoopInv
  <2> HIDE DEF t
  <2>4. HeldInv'
    BY <1>1, <2>2, <2>3, OfferKeeps
  <2>5. BufferInv'
    BY <1>1, <2>2, <2>3, TooSmallKeeps, ObserveKeeps
  <2>6. LoopInv'
    BY <1>1, <2>2 DEF LoopInv
  <2> QED  BY <2>4, <2>5, <2>6 DEF CaptureInv
<1> QED
  BY <1>4, <1>5, <1>6, <1>7, <1>8, <1>9, <1>10, <1>11, <1>12 DEF Shots!Next

LEMMA CaptureParts ==
    ASSUME CaptureInv
    PROVE  Shots!TracksAreReadOnce
<1>1. LoopInv /\ HeldInv /\ BufferInv
  BY DEF CaptureInv
<1>2. /\ IsFiniteSet(DOMAIN capture_held) /\ DOMAIN capture_held \subseteq Tracks
      /\ \A t \in DOMAIN capture_held : capture_held[t] \in Shot /\ capture_held[t].obs \in Nat
  BY <1>1 DEF HeldInv, IsHeld, Shot
<1>3. /\ Shots!Obs(capture_held, DOMAIN capture_held) \in Nat
      /\ \A t \in DOMAIN capture_held : capture_held[t].obs <= Shots!Obs(capture_held, DOMAIN capture_held)
  BY <1>2, ObsType, ObsLeast
<1>4. /\ {capture_stored, capture_dropped, capture_rewinds, capture_offers} \subseteq 0..MaxOffers
      /\ \A t \in DOMAIN capture_held : capture_held[t].obs <= MaxOffers
  BY <1>1, <1>2, <1>3, CaptureFacts DEF HeldInv
<1>5. \A t \in DOMAIN capture_held : capture_held[t] \in Shots!Candidate
  BY <1>2, <1>4, CaptureFacts DEF Shot, Shots!Candidate
<1>6. \A t \in DOMAIN capture_buffer : capture_buffer[t].n <= TopN /\ capture_buffer[t].examined <= MaxExamine
  BY <1>1, CaptureFacts DEF BufferInv, IsBuffer, Buffers
<1>7. Shots!TypeOK
  BY <1>1, <1>2, <1>4, <1>5, <1>6, CaptureNumber DEF LoopInv, HeldInv, BufferInv, Shots!TypeOK, Tracks
<1>8. ASSUME NEW t \in DOMAIN capture_buffer
      PROVE  Cardinality(capture_buffer[t].sessions) <= 1
  <2> DEFINE S == capture_buffer[t].sessions
  <2>1. S \subseteq Nat /\ \A s \in S : t \in OfSession(s)
    BY <1>1, CaptureFacts DEF BufferInv, IsBuffer, Buffers
  <2> HIDE DEF S
  <2>2. \A s, r \in S : s = r
    BY <2>1, SessionsApart
  <2>3. CASE S = {}
    BY <2>3, FS_EmptySet DEF S
  <2>4. CASE S # {}
    <3>1. PICK s \in S : TRUE
      BY <2>4
    <3>2. S = {s}
      BY <2>2
    <3>3. Cardinality(S) = 1
      BY <3>2, FS_Singleton
    <3> QED  BY <3>3 DEF S
  <2> QED  BY <2>3, <2>4
<1>9. Shots!OneReadPerTrack
  BY <1>1, <1>8, CaptureNumber DEF BufferInv, Shots!OneReadPerTrack
<1>10. Shots!ObservationsAreCounted
  BY <1>1 DEF LoopInv, HeldInv, Shots!ObservationsAreCounted
<1>11. Shots!DropNeedsRewind
  BY <1>1, CaptureFacts DEF HeldInv, Shots!DropNeedsRewind
<1> QED  BY <1>7, <1>9, <1>10, <1>11 DEF Shots!TracksAreReadOnce

(* Whatever the stream does - frames in any order of their clock, cuts,    *)
(* failures and reopenings, a stop at any time - a track is read once,     *)
(* from crops of one session, every observation of it is flushed or held   *)
(* once, and its best shot lacks a crop only after a rewind (pipeline.py,  *)
(* attributes.py, track.py, anpr/engine.py).                               *)
THEOREM TracksHold == WorkerSpec => []TracksAreReadOnce
<1>1. WorkerInit => CaptureInv
  BY CaptureInit DEF WorkerInit
<1>2. CaptureInv /\ [WorkerNext]_workerVars => CaptureInv'
  <2> SUFFICES ASSUME CaptureInv, [WorkerNext]_workerVars PROVE CaptureInv'
    OBVIOUS
  <2>1. CASE UNCHANGED captureVars
    BY <2>1, CaptureStep
  <2>2. CASE Shots!Next
    BY <2>2, CaptureStep
  <2> QED  BY <2>1, <2>2 DEF WorkerNext, workerVars
<1>3. CaptureInv => TracksAreReadOnce
  BY CaptureParts DEF TracksAreReadOnce
<1> QED  BY <1>1, <1>2, <1>3, PTL DEF WorkerSpec
=============================================================================
