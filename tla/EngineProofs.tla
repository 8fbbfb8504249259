---------------------------- MODULE EngineProofs ----------------------------
(***************************************************************************)
(* What the alert engine keeps for every value of its constants: alerts of *)
(* a key stay more than a window apart while one engine raises them, no    *)
(* read goes missing, digests are honest, a card agrees with itself and a  *)
(* sweep adds up.                                                          *)
(***************************************************************************)
EXTENDS MCEngine, SetLemmas, SequenceTheorems

(* Two instants of one tumbling window are less than a window apart. *)
LEMMA SameBucket ==
    ASSUME NEW s \in Nat, NEW t \in Nat, Bucket(s) = Bucket(t)
    PROVE  s < t + Window
<1>1. Window \in Nat \ {0}
  BY DedupeAssumption
<1> DEFINE q == s \div Window
<1>2. q \in Nat /\ q * Window <= s /\ s < q * Window + Window
  BY <1>1
<1>3. q * Window <= t
  BY <1>1 DEF Bucket
<1> QED
  BY <1>1, <1>2, <1>3

(* The tumbling window of a timestamp of the model is a row of the table. *)
LEMMA BucketInRange ==
    ASSUME NEW t \in Ts
    PROVE  Bucket(t) \in Buckets
<1>1. Window \in Nat \ {0} /\ MaxTs \in Nat /\ t \in Nat /\ t <= MaxTs
  BY DedupeAssumption DEF Ts
<1> DEFINE q == t \div Window
<1>2. q \in Nat /\ q * Window <= t
  BY <1>1
<1>3. q <= q * Window
  BY <1>1, <1>2
<1> QED
  BY <1>1, <1>2, <1>3 DEF Bucket, Buckets

LEMMA InitInv == Init => IInv
<1> SUFFICES ASSUME Init PROVE IInv
  OBVIOUS
<1>1. Raised = {}
  BY DEF Init, Raised
<1>2. TypeOK
  BY <1>1, DedupeAssumption DEF Init, TypeOK, Ts, Buckets
<1>3. SpanInv /\ Separated
  BY <1>1 DEF SpanInv, Separated
<1>4. ProbeInv /\ WriterInv /\ FoldedReadBelongs
  BY DEF Init, ProbeInv, WriterInv, FoldedReadBelongs
<1> QED
  BY <1>2, <1>3, <1>4 DEF IInv

(* Folding a read into an alert changes that alert only: it keeps its      *)
(* first sighting, and its last one becomes the later of the two.          *)
LEMMA FoldEffect ==
    ASSUME NEW b \in Raised, NEW t \in Ts, TypeOK, SpanInv,
           alerts' = [alerts EXCEPT ![b] = Folded(@, t)]
    PROVE  /\ alerts' \in [Buckets -> Alert \union {NoAlert}]
           /\ Raised' = Raised
           /\ SpanInv'
           /\ \A c \in Buckets : c # b => alerts'[c] = alerts[c]
           /\ alerts[b] \in Alert /\ alerts'[b] \in Alert
           /\ alerts'[b].first = alerts[b].first
           /\ alerts'[b].count = alerts[b].count + 1
           /\ alerts'[b].last = IF t > alerts[b].last THEN t ELSE alerts[b].last
<1>1. NoAlert \notin Alert /\ Ts \subseteq Nat
  BY DedupeAssumption DEF Ts
<1>2. \A c \in Raised : c \in Buckets /\ alerts[c] \in Alert
  BY DEF TypeOK, Raised
<1> DEFINE a == alerts[b]
           n == Folded(a, t)
<1>3. a \in Alert /\ b \in Buckets
  BY <1>2
<1>4. /\ n \in Alert /\ n.first = a.first /\ n.count = a.count + 1
      /\ n.last = IF t > a.last THEN t ELSE a.last
  BY <1>3, <1>1 DEF Folded, Alert
<1>5. alerts' \in [Buckets -> Alert \union {NoAlert}]
      /\ alerts'[b] = n /\ \A c \in Buckets : c # b => alerts'[c] = alerts[c]
  BY <1>3, <1>4 DEF TypeOK
<1>6. Raised' = Raised
  BY <1>1, <1>4, <1>5 DEF Raised
<1>7. SpanInv'
  <2> SUFFICES ASSUME NEW c \in Raised
               PROVE  Bucket(alerts'[c].first) = c /\ alerts'[c].first <= alerts'[c].last
    BY <1>6 DEF SpanInv, Bucket
  <2>1. CASE c = b
    <3>1. Bucket(a.first) = b /\ a.first <= a.last
      BY DEF SpanInv
    <3>2. a.first \in Nat /\ a.last \in Nat /\ t \in Nat
      BY <1>1, <1>3 DEF Alert
    <3>3. n.first = a.first /\ a.first <= n.last
      BY <3>1, <3>2, <1>4
    <3> QED
      BY <2>1, <3>1, <3>3, <1>5
  <2>2. CASE c # b
    BY <2>2, <1>2, <1>5 DEF SpanInv
  <2> QED
    BY <2>1, <2>2
<1> QED
  BY <1>3, <1>4, <1>5, <1>6, <1>7

(* Folding a read at or before last_seen_at, or one the probe selected the *)
(* row for, keeps the alerts apart: the last sighting moves only to an     *)
(* instant that no other alert is within a window of.                      *)
LEMMA FoldKeepsApart ==
    ASSUME NEW b \in Raised, NEW t \in Ts, TypeOK, SpanInv, Separated,
           alerts' = [alerts EXCEPT ![b] = Folded(@, t)],
           \/ t <= alerts[b].last
           \/ Selected(b, t)
    PROVE  Separated'
<1>1. Window \in Nat \ {0} /\ Ts \subseteq Nat
  BY DedupeAssumption DEF Ts
<1>2. \A c \in Raised : c \in Buckets /\ alerts[c] \in Alert
  BY DEF TypeOK, Raised
<1> DEFINE a == alerts[b]
           n == alerts'[b]
<1>3. /\ Raised' = Raised /\ a \in Alert
      /\ \A c \in Buckets : c # b => alerts'[c] = alerts[c]
      /\ n.last = IF t > a.last THEN t ELSE a.last
  BY FoldEffect
<1> HIDE DEF n
<1>8. ASSUME NEW c \in Raised, c # b
      PROVE  n.last > alerts[c].last + Window \/ alerts[c].last > n.last + Window
  <2>1. a.last \in Nat /\ alerts[c].last \in Nat /\ t \in Nat /\ Window \in Nat
    BY <1>1, <1>2, <1>3 DEF Alert
  <2>2. a.last > alerts[c].last + Window \/ alerts[c].last > a.last + Window
    BY <1>8 DEF Separated
  <2>3. CASE t <= a.last
    BY <2>1, <2>2, <2>3, <1>3
  <2>4. CASE t > a.last /\ Selected(b, t)
    <3>1. n.last = t
      BY <2>4, <1>3
    <3>2. a.last > alerts[c].last + Window => n.last > alerts[c].last + Window
      BY <3>1, <2>1, <2>4
    <3>3. ASSUME alerts[c].last > a.last + Window
          PROVE  alerts[c].last > n.last + Window
      <4>1. ~(alerts[c].last <= a.last)
        BY <3>3, <2>1
      <4>2. ~InWindow(c, t)
        BY <4>1, <2>4, <1>2 DEF Selected, Candidates
      <4>3. alerts[c] # NoAlert
        BY DEF Raised
      <4>4. ~(t <= alerts[c].last + Window) \/ ~(alerts[c].last <= t + Window)
        BY <4>2, <4>3 DEF InWindow
      <4>5. a.last + Window >= t
        BY <2>4 DEF Selected, InWindow, Candidates
      <4> QED
        BY <4>4, <4>5, <3>1, <3>3, <2>1
    <3> QED
      BY <3>2, <3>3, <2>2
  <2> QED
    BY <2>1, <2>3, <2>4
<1>9. SUFFICES ASSUME NEW c \in Raised, NEW d \in Raised, c # d
               PROVE  \/ alerts'[c].last > alerts'[d].last + Window
                      \/ alerts'[d].last > alerts'[c].last + Window
  BY <1>3 DEF Separated
<1>10. CASE c = b
  BY <1>10, <1>9, <1>2, <1>3, <1>8 DEF n
<1>11. CASE d = b
  BY <1>11, <1>9, <1>2, <1>3, <1>8 DEF n
<1>12. CASE c # b /\ d # b
  BY <1>12, <1>9, <1>2, <1>3 DEF Separated
<1> QED
  BY <1>10, <1>11, <1>12

(* A new alert takes its tumbling window and starts and ends at its read.  *)
LEMMA NewEffect ==
    ASSUME NEW t \in Ts, TypeOK, SpanInv,
           alerts[Bucket(t)] = NoAlert,
           alerts' = [alerts EXCEPT ![Bucket(t)] = [first |-> t, last |-> t, count |-> 1]]
    PROVE  /\ alerts' \in [Buckets -> Alert \union {NoAlert}]
           /\ Raised' = Raised \union {Bucket(t)}
           /\ SpanInv'
           /\ Bucket(t) \in Buckets \ Raised
           /\ alerts'[Bucket(t)].last = t
           /\ \A c \in Buckets : c # Bucket(t) => alerts'[c] = alerts[c]
<1>1. NoAlert \notin Alert /\ t \in Nat
  BY DedupeAssumption DEF Ts
<1>2. \A c \in Raised : c \in Buckets /\ alerts[c] \in Alert
  BY DEF TypeOK, Raised
<1> DEFINE b == Bucket(t)
           n == [first |-> t, last |-> t, count |-> 1]
<1>3. b \in Buckets
  BY BucketInRange
<1>4. n \in Alert /\ n.first = t /\ n.last = t
  BY DEF Alert
<1>7. b \notin Raised
  BY DEF Raised
<1> HIDE DEF b, n
<1>5. alerts' \in [Buckets -> Alert \union {NoAlert}]
      /\ alerts'[b] = n /\ \A c \in Buckets : c # b => alerts'[c] = alerts[c]
  BY <1>3, <1>4 DEF TypeOK, b, n
<1>6. Raised' = Raised \union {b}
  BY <1>1, <1>3, <1>4, <1>5 DEF Raised
<1>8. SpanInv'
  <2> SUFFICES ASSUME NEW c \in Raised \union {b}
               PROVE  Bucket(alerts'[c].first) = c /\ alerts'[c].first <= alerts'[c].last
    BY <1>6 DEF SpanInv, Bucket
  <2>1. CASE c = b
    BY <2>1, <1>1, <1>4, <1>5 DEF b
  <2>2. CASE c # b
    BY <2>2, <1>2, <1>5 DEF SpanInv
  <2> QED
    BY <2>1, <2>2
<1> QED
  BY <1>3, <1>4, <1>5, <1>6, <1>7, <1>8 DEF b

(* A new alert is more than a window away from every other when the probe  *)
(* found nothing.                                                          *)
LEMMA NewKeepsApart ==
    ASSUME NEW t \in Ts, TypeOK, SpanInv, Separated,
           alerts[Bucket(t)] = NoAlert,
           Candidates(t) = {},
           alerts' = [alerts EXCEPT ![Bucket(t)] = [first |-> t, last |-> t, count |-> 1]]
    PROVE  Separated'
<1> DEFINE b == Bucket(t)
<1>1. Window \in Nat /\ t \in Nat
  BY DedupeAssumption DEF Ts
<1>2. \A c \in Raised : c \in Buckets /\ alerts[c] \in Alert
  BY DEF TypeOK, Raised
<1>3. /\ Raised' = Raised \union {b} /\ b \notin Raised /\ alerts'[b].last = t
      /\ \A c \in Buckets : c # b => alerts'[c] = alerts[c]
  BY NewEffect
<1> HIDE DEF b
<1>4. ASSUME NEW c \in Raised
      PROVE  t > alerts[c].last + Window \/ alerts[c].last > t + Window
  <2>1. alerts[c].last \in Nat
    BY <1>2 DEF Alert, Ts
  <2>2. c \in Buckets /\ alerts[c] # NoAlert
    BY DEF Raised
  <2> QED
    BY <2>1, <2>2, <1>1 DEF InWindow, Candidates
<1>5. SUFFICES ASSUME NEW c \in Raised \union {b}, NEW d \in Raised \union {b}, c # d
               PROVE  \/ alerts'[c].last > alerts'[d].last + Window
                      \/ alerts'[d].last > alerts'[c].last + Window
  BY <1>3 DEF Separated
<1>6. CASE c = b
  BY <1>6, <1>5, <1>2, <1>3, <1>4
<1>7. CASE d = b
  BY <1>7, <1>5, <1>2, <1>3, <1>4
<1>8. CASE c # b /\ d # b
  BY <1>8, <1>5, <1>2, <1>3 DEF Separated
<1> QED
  BY <1>6, <1>7, <1>8

(* The unique index holds a row last seen after the probe's window when it *)
(* makes the insert fold: folding then leaves last_seen_at alone.          *)
LEMMA ConflictIsLater ==
    ASSUME NEW t \in Ts, TypeOK, SpanInv,
           alerts[Bucket(t)] # NoAlert,
           Candidates(t) = {}
    PROVE  Bucket(t) \in Raised /\ t <= alerts[Bucket(t)].last
<1> DEFINE b == Bucket(t)
           a == alerts[b]
<1>1. Window \in Nat /\ t \in Nat /\ Ts \subseteq Nat
  BY DedupeAssumption DEF Ts
<1>2. b \in Buckets
  BY BucketInRange
<1>3. b \in Raised /\ a \in Alert
  BY <1>2 DEF TypeOK, Raised
<1>4. a.first \in Nat /\ a.last \in Nat /\ a.first <= a.last /\ Bucket(a.first) = b
  BY <1>1, <1>3 DEF SpanInv, Alert
<1>5. t < a.first + Window
  BY <1>1, <1>4, SameBucket
<1>6. t <= a.last + Window
  BY <1>1, <1>4, <1>5
<1>7. ~(a.last <= t + Window)
  BY <1>2, <1>3, <1>6 DEF InWindow, Raised, Candidates
<1> QED
  BY <1>1, <1>3, <1>4, <1>7

(* Steps that leave the table of alerts alone leave its invariants alone.  *)
LEMMA TableFrame ==
    ASSUME UNCHANGED alerts
    PROVE  /\ Raised' = Raised
           /\ SpanInv => SpanInv'
           /\ Separated => Separated'
           /\ \A b, t : InWindow(b, t)' = InWindow(b, t)
           /\ \A t : Candidates(t)' = Candidates(t)
           /\ \A b, t : Selected(b, t)' = Selected(b, t)
<1>1. \A b, t : InWindow(b, t)' = InWindow(b, t)
  BY DEF InWindow
<1>2. \A t : Candidates(t)' = Candidates(t)
  BY <1>1 DEF Candidates
<1>3. \A b, t : Selected(b, t)' = Selected(b, t)
  BY <1>2 DEF Selected
<1> QED
  BY <1>1, <1>2, <1>3 DEF Raised, SpanInv, Separated, Bucket

(* Alert n is alert a with nothing taken from it. *)
Grown(a, n) ==
    /\ n # NoAlert
    /\ n.first = a.first
    /\ n.last \in Nat /\ n.last >= a.last
    /\ n.count >= a.count

LEMMA SameIsGrown ==
    ASSUME NEW a \in Alert
    PROVE  Grown(a, a)
<1>1. NoAlert \notin Alert /\ Ts \subseteq Nat
  BY DedupeAssumption DEF Ts
<1>2. a # NoAlert /\ a.last \in Nat /\ a.count \in Nat
  BY <1>1 DEF Alert
<1> QED
  BY <1>2 DEF Grown

(* An alert that keeps its first sighting and does not lose its last one   *)
(* keeps the reads that were selected for it.                              *)
LEMMA BelongsFrame ==
    ASSUME TypeOK, FoldedReadBelongs, Raised \subseteq Raised',
           \A b \in Raised : Grown(alerts[b], alerts'[b]),
           \A w \in Writer : pc'[w] = "bump" => pc[w] = "bump" /\ row'[w] = row[w],
           ts' = ts
    PROVE  FoldedReadBelongs'
<1> SUFFICES ASSUME NEW w \in Writer, pc'[w] = "bump"
             PROVE  /\ row'[w] \in Raised'
                    /\ alerts'[row'[w]].first <= ts'[w] + Window
                    /\ ts'[w] <= alerts'[row'[w]].last + Window
  BY DEF FoldedReadBelongs
<1>1. /\ row'[w] = row[w] /\ row[w] \in Raised
      /\ alerts[row[w]].first <= ts[w] + Window
      /\ ts[w] <= alerts[row[w]].last + Window
  BY DEF FoldedReadBelongs
<1>2. alerts[row[w]].last \in Nat /\ ts[w] \in Nat /\ Window \in Nat
  BY <1>1, DedupeAssumption DEF TypeOK, Raised, Alert, Ts
<1>3. Grown(alerts[row[w]], alerts'[row[w]])
  BY <1>1
<1> QED
  BY <1>1, <1>2, <1>3 DEF Grown

(* No step of any writer or officer takes anything from an alert.          *)
LEMMA GrowStep ==
    ASSUME IInv, [Next]_vars
    PROVE  /\ Raised \subseteq Raised'
           /\ \A b \in Raised : Grown(alerts[b], alerts'[b])
<1> USE DEF IInv
<1>1. \A b \in Raised : b \in Buckets /\ alerts[b] \in Alert
  BY DEF TypeOK, Raised
<1>2. NoAlert \notin Alert /\ Ts \subseteq Nat
  BY DedupeAssumption DEF Ts
<1>3. CASE UNCHANGED alerts
  BY <1>1, <1>3, SameIsGrown DEF Raised
<1>4. ASSUME NEW b \in Raised, NEW t \in Ts,
             alerts' = [alerts EXCEPT ![b] = Folded(@, t)]
      PROVE  /\ Raised \subseteq Raised'
             /\ \A c \in Raised : Grown(alerts[c], alerts'[c])
  <2>1. /\ Raised' = Raised
        /\ \A c \in Buckets : c # b => alerts'[c] = alerts[c]
        /\ alerts'[b] \in Alert
        /\ alerts'[b].first = alerts[b].first
        /\ alerts'[b].count = alerts[b].count + 1
        /\ alerts'[b].last = IF t > alerts[b].last THEN t ELSE alerts[b].last
    BY <1>4, FoldEffect
  <2>2. alerts[b].last \in Nat /\ alerts[b].count \in Nat /\ t \in Nat
    BY <1>1, <1>2 DEF Alert
  <2>3. Grown(alerts[b], alerts'[b])
    BY <2>1, <2>2, <1>2 DEF Grown
  <2> QED
    BY <2>1, <2>3, <1>1, SameIsGrown
<1>5. ASSUME NEW w \in Writer, Bump(w)
      PROVE  \E b \in Raised, t \in Ts : alerts' = [alerts EXCEPT ![b] = Folded(@, t)]
  BY <1>5 DEF Bump, FoldedReadBelongs, TypeOK
<1>6. ASSUME NEW w \in Writer, Insert(w), alerts[Bucket(ts[w])] # NoAlert
      PROVE  \E b \in Raised, t \in Ts : alerts' = [alerts EXCEPT ![b] = Folded(@, t)]
  <2>1. ts[w] \in Ts /\ Bucket(ts[w]) \in Raised
    BY <1>6, BucketInRange DEF TypeOK, Raised
  <2> QED
    BY <1>6, <2>1 DEF Insert
<1>7. ASSUME NEW w \in Writer, Insert(w), alerts[Bucket(ts[w])] = NoAlert
      PROVE  /\ Raised \subseteq Raised'
             /\ \A c \in Raised : Grown(alerts[c], alerts'[c])
  <2>1. ts[w] \in Ts
    BY DEF TypeOK
  <2>2. alerts' = [alerts EXCEPT ![Bucket(ts[w])] = [first |-> ts[w], last |-> ts[w], count |-> 1]]
    BY <1>7 DEF Insert
  <2> DEFINE b == Bucket(ts[w])
  <2>3. /\ Raised' = Raised \union {b} /\ b \notin Raised
        /\ \A c \in Buckets : c # b => alerts'[c] = alerts[c]
    BY <1>7, <2>1, <2>2, NewEffect
  <2> HIDE DEF b
  <2> QED
    BY <2>3, <1>1, SameIsGrown
<1>8. \/ UNCHANGED alerts
      \/ \E w \in Writer : Bump(w) \/ Insert(w)
  BY DEF Next, Step, Offer, Probe, AuditRaise, Fail, Dismiss, vars, table
<1> QED
  BY <1>3, <1>4, <1>5, <1>6, <1>7, <1>8

(* The part of the invariant that holds for any number of writers: one     *)
(* step per action.                                                        *)
LEMMA SharedStep ==
    ASSUME IInv, [Next]_vars
    PROVE  TypeOK' /\ SpanInv' /\ WriterInv' /\ FoldedReadBelongs'
<1> USE DEF IInv
<1>0. TypeOK /\ SpanInv /\ WriterInv /\ FoldedReadBelongs
  OBVIOUS
<1>1. /\ Raised \subseteq Raised'
      /\ \A b \in Raised : Grown(alerts[b], alerts'[b])
  BY GrowStep
<1>2. ASSUME NEW w \in Writer, NEW t \in Ts, Offer(w, t)
      PROVE  TypeOK' /\ SpanInv' /\ WriterInv' /\ FoldedReadBelongs'
  <2>1. UNCHANGED alerts
    BY <1>2 DEF Offer, table
  <2>2. TypeOK' /\ WriterInv'
    BY <1>0, <1>2, <2>1, TableFrame, DedupeAssumption DEF TypeOK, WriterInv, Offer, table
  <2>3. FoldedReadBelongs'
    BY <1>0, <1>2, <2>1, TableFrame DEF FoldedReadBelongs, Offer, TypeOK
  <2> QED
    BY <1>0, <2>1, <2>2, <2>3, TableFrame
<1>3. ASSUME NEW w \in Writer, Probe(w)
      PROVE  TypeOK' /\ SpanInv' /\ WriterInv' /\ FoldedReadBelongs'
  <2>1. UNCHANGED alerts
    BY <1>3 DEF Probe, table
  <2>2. TypeOK' /\ WriterInv'
    BY <1>0, <1>3, <2>1, TableFrame DEF TypeOK, WriterInv, Probe, table
  <2>3. FoldedReadBelongs'
    <3>1. SUFFICES ASSUME NEW v \in Writer, pc'[v] = "bump"
                   PROVE  /\ row'[v] \in Raised'
                          /\ alerts'[row'[v]].first <= ts'[v] + Window
                          /\ ts'[v] <= alerts'[row'[v]].last + Window
      BY DEF FoldedReadBelongs
    <3>2. CASE v # w
      BY <3>1, <3>2, <1>3, <2>1, TableFrame DEF Probe, FoldedReadBelongs, TypeOK
    <3>3. CASE v = w
      <4>1. /\ row'[w] \in Buckets /\ ts' = ts
            /\ InWindow(row'[w], ts[w])
        BY <3>1, <3>3, <1>3 DEF Probe, TypeOK, Selected, Candidates
      <4>2. row'[w] \in Raised
        BY <4>1 DEF InWindow, Raised
      <4> DEFINE a == alerts[row'[w]]
      <4>3. a.first \in Nat /\ a.last \in Nat /\ ts[w] \in Nat /\ Window \in Nat
        BY <4>2, DedupeAssumption DEF TypeOK, Raised, Alert, Ts
      <4>4. a.first <= a.last /\ a.last <= ts[w] + Window /\ ts[w] <= a.last + Window
        BY <4>1, <4>2 DEF SpanInv, InWindow
      <4>5. a.first <= ts[w] + Window
        BY <4>3, <4>4
      <4> QED
        BY <3>3, <2>1, <4>1, <4>2, <4>4, <4>5, TableFrame
    <3> QED
      BY <3>2, <3>3
  <2> QED
    BY <1>0, <2>1, <2>2, <2>3, TableFrame
<1>4. ASSUME NEW w \in Writer, Bump(w)
      PROVE  TypeOK' /\ SpanInv' /\ WriterInv' /\ FoldedReadBelongs'
  <2>1. row[w] \in Raised /\ ts[w] \in Ts
    BY <1>4 DEF Bump, FoldedReadBelongs, TypeOK
  <2>2. /\ Raised' = Raised
        /\ alerts' \in [Buckets -> Alert \union {NoAlert}]
        /\ SpanInv'
    BY <1>4, <2>1, FoldEffect DEF Bump
  <2>3. TypeOK' /\ WriterInv'
    BY <1>4, <2>2 DEF TypeOK, WriterInv, Bump
  <2>4. FoldedReadBelongs'
    BY <1>1, <1>4, BelongsFrame DEF Bump, TypeOK
  <2> QED
    BY <2>2, <2>3, <2>4
<1>5. ASSUME NEW w \in Writer, Insert(w)
      PROVE  TypeOK' /\ SpanInv' /\ WriterInv' /\ FoldedReadBelongs'
  <2> DEFINE b == Bucket(ts[w])
  <2>1. ts[w] \in Ts /\ b \in Buckets
    BY BucketInRange DEF TypeOK
  <2>2. FoldedReadBelongs'
    BY <1>1, <1>5, BelongsFrame DEF Insert, TypeOK
  <2>3. CASE alerts[b] = NoAlert
    <3>1. /\ Raised' = Raised \union {b}
          /\ alerts' \in [Buckets -> Alert \union {NoAlert}]
          /\ SpanInv'
      BY <2>1, <2>3, <1>5, NewEffect DEF Insert
    <3>2. pc' = [pc EXCEPT ![w] = "audit"] /\ row' = [row EXCEPT ![w] = b]
      BY <2>3, <1>5 DEF Insert
    <3> HIDE DEF b
    <3>3. TypeOK' /\ WriterInv'
      BY <1>5, <2>1, <3>1, <3>2 DEF TypeOK, WriterInv, Insert
    <3> QED
      BY <2>2, <3>1, <3>3
  <2>4. CASE alerts[b] # NoAlert
    <3>1. b \in Raised
      BY <2>1, <2>4 DEF Raised
    <3>2. alerts' = [alerts EXCEPT ![b] = Folded(@, ts[w])]
          /\ pc' = [pc EXCEPT ![w] = "idle"] /\ row' = row
      BY <2>4, <1>5 DEF Insert
    <3> HIDE DEF b
    <3>3. /\ Raised' = Raised
          /\ alerts' \in [Buckets -> Alert \union {NoAlert}]
          /\ SpanInv'
      BY <2>1, <3>1, <3>2, FoldEffect
    <3>4. TypeOK' /\ WriterInv'
      BY <1>5, <2>1, <3>2, <3>3 DEF TypeOK, WriterInv, Insert
    <3> QED
      BY <2>2, <3>3, <3>4
  <2> QED
    BY <2>3, <2>4
<1>6. ASSUME NEW w \in Writer, AuditRaise(w) \/ Fail(w)
      PROVE  TypeOK' /\ SpanInv' /\ WriterInv' /\ FoldedReadBelongs'
  <2>1. UNCHANGED alerts
    BY <1>6 DEF AuditRaise, Fail, table
  <2>2. TypeOK' /\ WriterInv'
    BY <1>0, <1>6, <2>1, TableFrame, DedupeAssumption
    DEF TypeOK, WriterInv, AuditRaise, Fail, table
  <2>3. FoldedReadBelongs'
    BY <1>1, <1>6, BelongsFrame DEF AuditRaise, Fail, TypeOK
  <2> QED
    BY <1>0, <2>1, <2>2, <2>3, TableFrame
<1>7. CASE \/ \E b \in Buckets : Dismiss(b)
           \/ UNCHANGED vars
  <2>1. UNCHANGED <<alerts, memory>>
    BY <1>7 DEF Dismiss, vars, table, memory
  <2>2. TypeOK' /\ WriterInv'
    BY <1>0, <1>7, <2>1, TableFrame DEF TypeOK, WriterInv, Dismiss, vars, table, memory
  <2>3. FoldedReadBelongs'
    BY <1>1, <2>1, BelongsFrame DEF memory
  <2> QED
    BY <1>0, <2>1, <2>2, <2>3, TableFrame
<1> QED
  BY <1>2, <1>3, <1>4, <1>5, <1>6, <1>7 DEF Next, Step

(* What a lone raiser keeps: nobody else moves an alert between its probe  *)
(* and its write.                                                          *)
LEMMA LoneStep ==
    ASSUME IInv, [Next]_vars, OneRaiser'
    PROVE  Separated' /\ ProbeInv'
<1> USE DEF IInv
<1>1. raisers \subseteq raisers'
  BY DEF Next, Step, Offer, Probe, Bump, Insert, AuditRaise, Fail, Dismiss, vars
<1>2. OneRaiser
  BY <1>1 DEF OneRaiser
<1>3. Separated /\ ProbeInv
  BY <1>2
<1>4. ASSUME NEW w \in Writer, NEW v \in Writer, v # w, pc[w] # "idle" \/ w \in raisers'
      PROVE  pc[v] = "idle"
  BY <1>1, <1>4 DEF WriterInv, OneRaiser
<1>5. ASSUME NEW w \in Writer, NEW t \in Ts, Offer(w, t)
      PROVE  Separated' /\ ProbeInv'
  <2>1. \A v \in Writer : v # w => pc[v] = "idle"
    BY <1>5, <1>4 DEF Offer
  <2> QED
    BY <1>3, <1>5, <2>1, TableFrame DEF ProbeInv, Offer, TypeOK, table
<1>6. ASSUME NEW w \in Writer, Probe(w)
      PROVE  Separated' /\ ProbeInv'
  <2>1. \A v \in Writer : v # w => pc[v] = "idle"
    BY <1>6, <1>4 DEF Probe
  <2>2. UNCHANGED <<alerts, ts>>
    BY <1>6 DEF Probe, table
  <2>3. /\ pc'[w] = "bump" => Selected(row'[w], ts[w])
        /\ pc'[w] = "insert" => Candidates(ts[w]) = {}
    BY <1>6 DEF Probe, TypeOK
  <2>4. \A v \in Writer : v # w => pc'[v] = "idle"
    BY <1>6, <2>1 DEF Probe, TypeOK
  <2>5. ProbeInv'
    BY <2>2, <2>3, <2>4, TableFrame DEF ProbeInv
  <2> QED
    BY <1>3, <2>2, <2>5, TableFrame
<1>7. ASSUME NEW w \in Writer, Bump(w)
      PROVE  Separated' /\ ProbeInv'
  <2>1. \A v \in Writer : v # w => pc[v] = "idle"
    BY <1>7, <1>4 DEF Bump
  <2>2. row[w] \in Raised /\ ts[w] \in Ts /\ Selected(row[w], ts[w])
    BY <1>3, <1>7 DEF ProbeInv, Bump, TypeOK, FoldedReadBelongs
  <2>3. Separated'
    BY <1>3, <1>7, <2>2, FoldKeepsApart DEF Bump
  <2>4. ProbeInv'
    BY <1>7, <2>1 DEF ProbeInv, Bump, TypeOK
  <2> QED
    BY <2>3, <2>4
<1>8. ASSUME NEW w \in Writer, Insert(w)
      PROVE  Separated' /\ ProbeInv'
  <2>1. \A v \in Writer : v # w => pc[v] = "idle"
    BY <1>8, <1>4 DEF Insert
  <2>2. ts[w] \in Ts /\ Candidates(ts[w]) = {}
    BY <1>3, <1>8 DEF ProbeInv, Insert, TypeOK
  <2>3. ProbeInv'
    BY <1>8, <2>1 DEF ProbeInv, Insert, TypeOK
  <2> DEFINE b == Bucket(ts[w])
  <2>4. CASE alerts[b] = NoAlert
    BY <1>3, <1>8, <2>2, <2>3, <2>4, NewKeepsApart DEF Insert
  <2>5. CASE alerts[b] # NoAlert
    <3>1. b \in Raised /\ ts[w] <= alerts[b].last
      BY <2>2, <2>5, ConflictIsLater
    <3>2. alerts' = [alerts EXCEPT ![b] = Folded(@, ts[w])]
      BY <2>5, <1>8 DEF Insert
    <3> HIDE DEF b
    <3> QED
      BY <1>3, <2>2, <2>3, <3>1, <3>2, FoldKeepsApart
  <2> QED
    BY <2>4, <2>5
<1>9. ASSUME NEW w \in Writer, AuditRaise(w) \/ Fail(w)
      PROVE  Separated' /\ ProbeInv'
  <2>1. UNCHANGED <<alerts, ts, row>> /\ pc' = [pc EXCEPT ![w] = "idle"]
    BY <1>9 DEF AuditRaise, Fail, table
  <2> QED
    BY <1>3, <2>1, TableFrame DEF ProbeInv, TypeOK
<1>10. CASE \/ \E b \in Buckets : Dismiss(b)
            \/ UNCHANGED vars
  <2>1. UNCHANGED <<alerts, memory>>
    BY <1>10 DEF Dismiss, vars, table, memory
  <2> QED
    BY <1>3, <2>1, TableFrame DEF ProbeInv, memory
<1> QED
  BY <1>5, <1>6, <1>7, <1>8, <1>9, <1>10 DEF Next, Step

(* The strengthened invariant holds of every behaviour. *)
THEOREM Invariance == Spec => []IInv
<1>1. IInv /\ [Next]_vars => IInv'
  BY SharedStep, LoneStep DEF IInv
<1> QED
  BY InitInv, <1>1, PTL DEF Spec

(* One alert per vehicle, camera and window: while one engine raises the   *)
(* alerts of a key it never leaves two within a window of each other, in   *)
(* whatever order the sightings arrive, whatever the officers dismiss and  *)
(* whatever fails.                                                         *)
THEOREM Apart == Spec => []OneAlertPerWindow
<1>1. IInv => OneAlertPerWindow
  BY DEF IInv, OneAlertPerWindow
<1> QED
  BY <1>1, Invariance, PTL

(* Any number of engines: a read that is being folded belongs to its alert. *)
THEOREM Belongs == Spec => []FoldedReadBelongs
<1>1. IInv => FoldedReadBelongs
  BY DEF IInv
<1> QED
  BY <1>1, Invariance, PTL

(* Any number of engines: no alert is ever moved back, restarted or        *)
(* diminished.                                                             *)
THEOREM Growth == Spec => AlertsOnlyGrow
<1>1. IInv /\ [Next]_vars =>
        [\A b \in Raised :
            /\ alerts'[b] # NoAlert
            /\ alerts'[b].first = alerts[b].first
            /\ alerts'[b].last >= alerts[b].last
            /\ alerts'[b].count >= alerts[b].count]_vars
  BY GrowStep DEF Grown
<1> QED
  BY <1>1, Invariance, PTL DEF Spec, AlertsOnlyGrow

(* The table, the audit marks and the counters keep their types. *)
THEOREM TypeCorrect == Spec => []TypeOK
<1>1. IInv => TypeOK
  BY DEF IInv
<1> QED
  BY <1>1, Invariance, PTL

-----------------------------------------------------------------------------
(* Folding a read counts it. *)
LEMMA FoldCounts ==
    ASSUME NEW a \in Alert, NEW t \in Ts
    PROVE  Folded(a, t) \in Alert /\ Folded(a, t).count = a.count + 1
  BY DedupeAssumption DEF Alert, Folded, Ts

(* What one step does to the counts and to the unaudited alerts.           *)
Unaudited == Raised \ (audited \union BeingAudited)

LEMMA RowsAreFinite ==
    /\ IsFiniteSet(Buckets) /\ IsFiniteSet(Raised)
    /\ IsFiniteSet(UnderWay) /\ Cardinality(UnderWay) \in Nat
    /\ IsFiniteSet(Unaudited) /\ Cardinality(Unaudited) \in Nat
<1> USE DedupeAssumption
<1>1. IsFiniteSet(Buckets)
  BY FS_Interval DEF Buckets
<1>2. UnderWay \in SUBSET Writer /\ Raised \in SUBSET Buckets /\ Unaudited \in SUBSET Buckets
  BY DEF UnderWay, Raised, Unaudited
<1>3. IsFiniteSet(UnderWay) /\ IsFiniteSet(Raised) /\ IsFiniteSet(Unaudited)
  BY <1>1, <1>2, FS_Subset
<1> QED  BY <1>1, <1>3, FS_CardinalityType

LEMMA RowsAreFiniteNext ==
    /\ IsFiniteSet(UnderWay') /\ Cardinality(UnderWay') \in Nat
    /\ IsFiniteSet(Unaudited') /\ Cardinality(Unaudited') \in Nat
<1> USE DedupeAssumption
<1>1. IsFiniteSet(Buckets)
  BY FS_Interval DEF Buckets
<1>2. UnderWay' \in SUBSET Writer /\ Unaudited' \in SUBSET Buckets
  BY DEF UnderWay, Raised, Unaudited
<1>3. IsFiniteSet(UnderWay') /\ IsFiniteSet(Unaudited')
  BY <1>1, <1>2, FS_Subset
<1> QED  BY <1>3, FS_CardinalityType

LEMMA CountsAreNumbers ==
    ASSUME TypeOK
    PROVE  \A b \in Buckets : Count[b] \in Nat
  BY DEF TypeOK, Alert, Count

(* One row that grows by one makes the sum grow by one. *)
LEMMA OneMore ==
    ASSUME TypeOK, TypeOK', NEW b \in Buckets,
           \A c \in Buckets : c # b => alerts'[c] = alerts[c],
           Count'[b] = Count[b] + 1
    PROVE  SumFunctionOnSet(Count', Buckets) = SumFunctionOnSet(Count, Buckets) + 1
<1>1. /\ \A c \in Buckets : Count[c] \in Int /\ Count'[c] \in Int
      /\ \A c \in Buckets : c # b => Count[c] = Count'[c]
  BY DEF TypeOK, Alert, Count
<1>2. IsFiniteSet(Buckets)
  BY RowsAreFinite
<1>3. SumFunctionOnSet(Count', Buckets) = SumFunctionOnSet(Count, Buckets) - Count[b] + Count'[b]
  BY <1>1, <1>2, SumChange
<1>4. SumFunctionOnSet(Count, Buckets) \in Int
  BY <1>1, <1>2, SumType
<1> QED  BY <1>1, <1>3, <1>4

(* No step uncovers an unaudited alert without a failure of its own.       *)
LEMMA UnauditedStep ==
    ASSUME IInv, IInv', UnauditedComesFromFailure, [Next]_vars
    PROVE  UnauditedComesFromFailure'
<1> DEFINE n == Cardinality(Unaudited)
<1>1. n \in Nat /\ IsFiniteSet(Unaudited) /\ n <= failures /\ failures \in Nat /\ TypeOK /\ TypeOK'
      /\ failures' \in Nat /\ Cardinality(Unaudited') \in Nat
  BY RowsAreFinite, RowsAreFiniteNext, DedupeAssumption
     DEF IInv, TypeOK, UnauditedComesFromFailure, Unaudited
<1>2. SUFFICES Cardinality(Unaudited') <= failures'
  BY DEF UnauditedComesFromFailure, Unaudited
<1>3. ASSUME Unaudited' \subseteq Unaudited, failures <= failures'
      PROVE  Cardinality(Unaudited') <= failures'
  BY <1>1, <1>3, FS_Subset
<1>4. ASSUME NEW w \in Writer, NEW t \in Ts, Offer(w, t)
      PROVE  Cardinality(Unaudited') <= failures'
  <2>1. BeingAudited \subseteq BeingAudited'
    BY <1>1, <1>4 DEF Offer, TypeOK, BeingAudited
  <2>2. UNCHANGED <<alerts, audited, failures>>
    BY <1>4 DEF Offer, table
  <2>3. Unaudited' \subseteq Unaudited
    BY <2>1, <2>2 DEF Unaudited, Raised
  <2> QED  BY <1>1, <1>3, <2>2, <2>3
<1>5. ASSUME NEW w \in Writer, Probe(w)
      PROVE  Cardinality(Unaudited') <= failures'
  <2>1. BeingAudited \subseteq BeingAudited'
    BY <1>1, <1>5 DEF Probe, TypeOK, BeingAudited
  <2>2. UNCHANGED <<alerts, audited, failures>>
    BY <1>5 DEF Probe, table
  <2>3. Unaudited' \subseteq Unaudited
    BY <2>1, <2>2 DEF Unaudited, Raised
  <2> QED  BY <1>1, <1>3, <2>2, <2>3
<1>6. ASSUME NEW w \in Writer, Bump(w)
      PROVE  Cardinality(Unaudited') <= failures'
  <2>1. BeingAudited \subseteq BeingAudited'
    BY <1>1, <1>6 DEF Bump, TypeOK, BeingAudited
  <2>2. UNCHANGED <<audited, failures>> /\ row[w] \in Raised
        /\ \A b \in Buckets : b # row[w] => alerts'[b] = alerts[b]
    BY <1>1, <1>6 DEF Bump, TypeOK, IInv, FoldedReadBelongs
  <2>3. Unaudited' \subseteq Unaudited
    BY <2>1, <2>2 DEF Unaudited, Raised
  <2> QED  BY <1>1, <1>3, <2>2, <2>3
<1>7. ASSUME NEW w \in Writer, Insert(w)
      PROVE  Cardinality(Unaudited') <= failures'
  <2> DEFINE b == Bucket(ts[w])
  <2>1. b \in Buckets /\ pc[w] = "insert"
    BY <1>1, <1>7, BucketInRange DEF Insert, TypeOK
  <2>2. UNCHANGED <<audited, failures>>
    BY <1>7 DEF Insert
  <2>3. \A c \in Buckets : c # b => alerts'[c] = alerts[c]
    BY <1>1, <1>7, <2>1 DEF Insert, TypeOK
  <2>4. \A v \in Writer : v # w => pc'[v] = pc[v] /\ row'[v] = row[v]
    BY <1>1, <1>7 DEF Insert, TypeOK
  <2>5. alerts[b] = NoAlert => pc'[w] = "audit" /\ row'[w] = b
    BY <1>1, <1>7 DEF Insert, TypeOK
  <2> HIDE DEF b
  <2>6. BeingAudited \subseteq BeingAudited'
    BY <2>1, <2>4 DEF BeingAudited
  <2>7. alerts[b] = NoAlert => b \in BeingAudited'
    BY <2>5 DEF BeingAudited
  <2>8. Unaudited' \subseteq Unaudited
    BY <2>1, <2>2, <2>3, <2>6, <2>7 DEF Unaudited, Raised
  <2> QED  BY <1>1, <1>3, <2>2, <2>8
<1>8. ASSUME NEW w \in Writer, AuditRaise(w)
      PROVE  Cardinality(Unaudited') <= failures'
  <2>1. UNCHANGED <<alerts, row, failures>> /\ audited' = audited \union {row[w]}
        /\ \A v \in Writer : v # w => pc'[v] = pc[v]
    BY <1>1, <1>8 DEF AuditRaise, TypeOK
  <2>2. BeingAudited \subseteq BeingAudited' \union {row[w]}
    BY <2>1 DEF BeingAudited
  <2>3. Unaudited' \subseteq Unaudited
    BY <2>1, <2>2 DEF Unaudited, Raised
  <2> QED  BY <1>1, <1>3, <2>1, <2>3
<1>9. ASSUME NEW w \in Writer, Fail(w)
      PROVE  Cardinality(Unaudited') <= failures'
  <2>1. UNCHANGED <<alerts, audited, row>> /\ failures' = failures + 1
        /\ \A v \in Writer : v # w => pc'[v] = pc[v]
    BY <1>1, <1>9 DEF Fail, table, TypeOK
  <2>2. BeingAudited \subseteq BeingAudited' \union {row[w]}
    BY <2>1 DEF BeingAudited
  <2>3. Unaudited' \subseteq Unaudited \union {row[w]}
    BY <2>1, <2>2 DEF Unaudited, Raised
  <2>4. /\ IsFiniteSet(Unaudited \union {row[w]})
        /\ Cardinality(Unaudited \union {row[w]}) <= n + 1
    BY <1>1, FS_AddElement
  <2>5. /\ Cardinality(Unaudited') <= Cardinality(Unaudited \union {row[w]})
        /\ Cardinality(Unaudited \union {row[w]}) \in Nat
    BY <2>3, <2>4, FS_Subset, FS_CardinalityType
  <2> HIDE DEF n
  <2> QED  BY <1>1, <2>1, <2>4, <2>5
<1>10. CASE (\E b \in Buckets : Dismiss(b)) \/ UNCHANGED vars
  <2>1. UNCHANGED <<alerts, audited, failures, pc, row>>
    BY <1>10 DEF Dismiss, vars, table, memory
  <2>2. Unaudited' \subseteq Unaudited
    BY <2>1 DEF Unaudited, Raised, BeingAudited
  <2> QED  BY <1>1, <1>3, <2>1, <2>2
<1> QED
  BY <1>4, <1>5, <1>6, <1>7, <1>8, <1>9, <1>10 DEF Next, Step

(* A read is under way until it is counted, or until raise() fails.        *)
LEMMA CountedStep ==
    ASSUME IInv, IInv', EverySightingCounted, [Next]_vars
    PROVE  EverySightingCounted'
<1> DEFINE n == Cardinality(UnderWay)
<1>1. /\ n \in Nat /\ IsFiniteSet(UnderWay) /\ TypeOK /\ TypeOK'
      /\ Cardinality(UnderWay') \in Nat
      /\ counted \in Nat /\ offered \in Nat /\ counted + n <= offered
      /\ SumFunctionOnSet(Count, Buckets) = counted
  BY RowsAreFinite, RowsAreFiniteNext, DedupeAssumption DEF IInv, TypeOK, EverySightingCounted
<1>2. ASSUME UNCHANGED <<alerts, counted>>, offered <= offered', UnderWay' \subseteq UnderWay
      PROVE  EverySightingCounted'
  <2>1. Cardinality(UnderWay') <= n
    BY <1>1, <1>2, FS_Subset
  <2>2. Count' = Count
    BY <1>2 DEF Count
  <2>3. offered' \in Nat
    BY <1>1, DedupeAssumption DEF TypeOK
  <2>4. counted' + Cardinality(UnderWay') <= offered'
    <3> HIDE DEF n
    <3> QED  BY <1>1, <1>2, <2>1, <2>3
  <2>5. SumFunctionOnSet(Count', Buckets) = counted'
    BY <1>1, <1>2, <2>2
  <2> QED  BY <2>4, <2>5 DEF EverySightingCounted
<1>3. ASSUME NEW w \in UnderWay, UnderWay' = UnderWay \ {w}, counted' = counted + 1, offered' = offered,
             NEW b \in Buckets, \A c \in Buckets : c # b => alerts'[c] = alerts[c],
             Count'[b] = Count[b] + 1
      PROVE  EverySightingCounted'
  <2>1. SumFunctionOnSet(Count', Buckets) = counted'
    BY <1>1, <1>3, OneMore
  <2>2. Cardinality(UnderWay') = n - 1
    BY <1>1, <1>3, FS_RemoveElement
  <2>3. counted' + Cardinality(UnderWay') <= offered'
    <3> HIDE DEF n
    <3> QED  BY <1>1, <1>3, <2>2
  <2> QED  BY <2>1, <2>3 DEF EverySightingCounted
<1>4. ASSUME NEW w \in Writer, NEW t \in Ts, Offer(w, t)
      PROVE  EverySightingCounted'
  <2>1. /\ UNCHANGED <<alerts, counted>> /\ offered' = offered + 1
        /\ pc' = [pc EXCEPT ![w] = "probe"] /\ pc[w] = "idle"
    BY <1>4 DEF Offer, table
  <2>2. UnderWay' = UnderWay \union {w} /\ w \notin UnderWay
    BY <1>1, <2>1 DEF UnderWay, TypeOK
  <2>3. Cardinality(UnderWay') = n + 1
    BY <1>1, <2>2, FS_AddElement
  <2>4. Count' = Count
    BY <2>1 DEF Count
  <2>5. counted' + Cardinality(UnderWay') <= offered'
    <3> HIDE DEF n
    <3> QED  BY <1>1, <2>1, <2>3
  <2>6. SumFunctionOnSet(Count', Buckets) = counted'
    BY <1>1, <2>1, <2>4
  <2> QED  BY <2>5, <2>6 DEF EverySightingCounted
<1>5. ASSUME NEW w \in Writer, Probe(w)
      PROVE  EverySightingCounted'
  <2>1. /\ UNCHANGED <<alerts, counted, offered>> /\ pc[w] = "probe"
        /\ \A v \in Writer : v # w => pc'[v] = pc[v]
    BY <1>1, <1>5 DEF Probe, table, TypeOK
  <2>2. UnderWay' \subseteq UnderWay
    BY <2>1 DEF UnderWay
  <2> QED  BY <1>1, <1>2, <2>1, <2>2
<1>6. ASSUME NEW w \in Writer, Bump(w)
      PROVE  EverySightingCounted'
  <2>1. /\ pc' = [pc EXCEPT ![w] = "idle"] /\ pc[w] = "bump"
        /\ counted' = counted + 1 /\ offered' = offered
    BY <1>6 DEF Bump
  <2>2. w \in UnderWay /\ UnderWay' = UnderWay \ {w}
    BY <1>1, <2>1 DEF UnderWay, TypeOK
  <2>3. /\ row[w] \in Buckets /\ alerts[row[w]] \in Alert
        /\ alerts' = [alerts EXCEPT ![row[w]] = Folded(@, ts[w])]
    BY <1>1, <1>6 DEF Bump, TypeOK, IInv, FoldedReadBelongs, Raised
  <2>4. /\ \A c \in Buckets : c # row[w] => alerts'[c] = alerts[c]
        /\ alerts'[row[w]] = Folded(alerts[row[w]], ts[w])
    BY <1>1, <2>3 DEF TypeOK
  <2>5. Count'[row[w]] = Count[row[w]] + 1
    <3>1. alerts'[row[w]] \in Alert /\ alerts'[row[w]].count = alerts[row[w]].count + 1
      BY <1>1, <2>3, <2>4, FoldCounts DEF TypeOK
    <3> QED  BY <2>3, <3>1, DedupeAssumption DEF Count
  <2> QED  BY <1>3, <2>1, <2>2, <2>3, <2>4, <2>5
<1>7. ASSUME NEW w \in Writer, Insert(w)
      PROVE  EverySightingCounted'
  <2> DEFINE b == Bucket(ts[w])
  <2>1. /\ pc[w] = "insert" /\ b \in Buckets
        /\ pc'[w] \in {"idle", "audit"} /\ \A v \in Writer : v # w => pc'[v] = pc[v]
        /\ counted' = counted + 1 /\ offered' = offered
    BY <1>1, <1>7, BucketInRange DEF Insert, TypeOK
  <2>2. w \in UnderWay /\ UnderWay' = UnderWay \ {w}
    BY <2>1 DEF UnderWay
  <2>3. /\ \A c \in Buckets : c # b => alerts'[c] = alerts[c]
        /\ alerts[b] = NoAlert => alerts'[b] = [first |-> ts[w], last |-> ts[w], count |-> 1]
        /\ alerts[b] # NoAlert => alerts'[b] = Folded(alerts[b], ts[w])
    BY <1>1, <1>7, <2>1 DEF Insert, TypeOK
  <2>4. alerts[b] \in Alert \union {NoAlert} /\ ts[w] \in Ts
    BY <1>1, <2>1 DEF TypeOK
  <2> HIDE DEF b
  <2>5. CASE alerts[b] = NoAlert
    <3>1. alerts'[b] \in Alert /\ alerts'[b].count = 1
      BY <2>3, <2>4, <2>5 DEF Alert
    <3>2. Count'[b] = Count[b] + 1
      BY <2>1, <2>5, <3>1, DedupeAssumption DEF Count
    <3> QED  BY <1>3, <2>1, <2>2, <2>3, <3>2
  <2>6. CASE alerts[b] # NoAlert
    <3>1. Count'[b] = Count[b] + 1
      BY <2>1, <2>3, <2>4, <2>6, DedupeAssumption, FoldCounts DEF Count
    <3> QED  BY <1>3, <2>1, <2>2, <2>3, <3>1
  <2> QED  BY <2>5, <2>6
<1>8. ASSUME NEW w \in Writer, AuditRaise(w) \/ Fail(w)
      PROVE  EverySightingCounted'
  <2>1. /\ UNCHANGED <<alerts, counted, offered>>
        /\ pc' = [pc EXCEPT ![w] = "idle"]
    BY <1>8 DEF AuditRaise, Fail, table
  <2>2. UnderWay' \subseteq UnderWay
    BY <1>1, <2>1 DEF UnderWay, TypeOK
  <2> QED  BY <1>1, <1>2, <2>1, <2>2
<1>9. CASE (\E b \in Buckets : Dismiss(b)) \/ UNCHANGED vars
  <2>1. UNCHANGED <<alerts, counted, offered, pc>>
    BY <1>9 DEF Dismiss, vars, table, memory
  <2>2. UnderWay' \subseteq UnderWay
    BY <2>1 DEF UnderWay
  <2> QED  BY <1>1, <1>2, <2>1, <2>2
<1> QED
  BY <1>4, <1>5, <1>6, <1>7, <1>8, <1>9 DEF Next, Step

LEMMA NothingMissingYet == Init => NothingGoesMissing
<1> SUFFICES ASSUME Init PROVE NothingGoesMissing
  OBVIOUS
<1>1. Raised = {} /\ UnderWay = {} /\ counted = 0 /\ offered = 0 /\ failures = 0
  BY DEF Init, Raised, UnderWay
<1>2. \A b \in Buckets : Count[b] = 0
  BY DEF Init, Count
<1>3. SumFunctionOnSet(Count, Buckets) = 0
  BY <1>2, RowsAreFinite, SumZero
<1>4. Raised \ (audited \union BeingAudited) = {}
  BY <1>1
<1> QED  BY <1>1, <1>3, <1>4, FS_EmptySet
            DEF NothingGoesMissing, EverySightingCounted, UnauditedComesFromFailure

(* Any number of engines, any order of arrival, any failures: every read    *)
(* that was folded in is in the count of exactly one alert, and the alerts  *)
(* without an audit entry are no more than the failures.                    *)
THEOREM NothingMissing == Spec => []NothingGoesMissing
<1>1. IInv /\ IInv' /\ NothingGoesMissing /\ [Next]_vars => NothingGoesMissing'
  BY CountedStep, UnauditedStep DEF NothingGoesMissing
<1> QED  BY NothingMissingYet, Invariance, <1>1, PTL DEF Spec
-----------------------------------------------------------------------------
(* A behaviour of the engine is one of its deduplication, whatever the     *)
(* other components do.                                                    *)
LEMMA EngineDedupes == EngineSpec => Spec
<1>1. EngineInit => Init
  BY DEF EngineInit
<1>2. [EngineNext]_engineVars => [Next]_vars
  BY DEF EngineNext, engineVars
<1> QED  BY <1>1, <1>2, PTL DEF EngineSpec, Spec

(* In every behaviour of the alert engine the promises of deduplication    *)
(* hold: spacing, membership, the count of every read and growth.          *)
THEOREM AlertsAddUp ==
    EngineSpec => /\ [](OneAlertPerWindow /\ FoldedReadBelongs /\ NothingGoesMissing)
                  /\ AlertsOnlyGrow
<1> QED  BY EngineDedupes, Apart, Belongs, NothingMissing, Growth, PTL

-----------------------------------------------------------------------------
(* The delivery gate: at most one draft per window in each gate, so what   *)
(* is remembered of a window is that draft; a roll, a drain and a write    *)
(* move a draft on without changing what is told in all, and a stop or a   *)
(* failed write only forgets.                                              *)

LEMMA GateSum == \A f, S : Gate!SumFunctionOnSet(f, S) = SumFunctionOnSet(f, S)
  BY DEF Gate!SumFunctionOnSet, SumFunctionOnSet, Gate!FoldFunctionOnSet, FoldFunctionOnSet,
         Gate!MapThenFoldSet, MapThenFoldSet

LEMMA GateFinite == ASSUME Gate!GateAssumption PROVE IsFiniteSet(Engine) /\ IsFiniteSet(Severity)
  BY DEF Gate!GateAssumption, Gate!IsFiniteSet, IsFiniteSet

Kinds == {"shown", "hidden"}

LEMMA GateTotals ==
    ASSUME Gate!GateAssumption
    PROVE  /\ Gate!Nothing \in Gate!Breakdown /\ Gate!Total(Gate!Nothing) = 0
           /\ \A b \in Gate!Breakdown : Gate!Total(b) \in Nat
<1>1. IsFiniteSet(Severity)
  BY GateFinite
<1>2. Gate!Nothing \in Gate!Breakdown /\ \A s \in Severity : Gate!Nothing[s] = 0
  BY DEF Gate!Nothing, Gate!Breakdown
<1>3. Gate!Total(Gate!Nothing) = 0
  BY <1>1, <1>2, SumZero, GateSum DEF Gate!Total
<1>4. ASSUME NEW b \in Gate!Breakdown PROVE Gate!Total(b) \in Nat
  <2>1. \A s \in Severity : b[s] \in Nat
    BY DEF Gate!Breakdown
  <2> QED  BY <1>1, <2>1, SumNat, GateSum DEF Gate!Total
<1> QED  BY <1>2, <1>3, <1>4

LEMMA GateOneMore ==
    ASSUME Gate!GateAssumption, NEW b \in Gate!Breakdown, NEW s \in Severity
    PROVE  /\ [b EXCEPT ![s] = @ + 1] \in Gate!Breakdown
           /\ Gate!Total([b EXCEPT ![s] = @ + 1]) = Gate!Total(b) + 1
<1> DEFINE c == [b EXCEPT ![s] = @ + 1]
<1>1. IsFiniteSet(Severity)
  BY GateFinite
<1>2. c \in Gate!Breakdown /\ c[s] = b[s] + 1 /\ \A t \in Severity : t # s => b[t] = c[t]
  BY DEF Gate!Breakdown
<1>3. \A t \in Severity : b[t] \in Int /\ c[t] \in Int
  BY <1>2 DEF Gate!Breakdown
<1> HIDE DEF c
<1>4. Gate!Total(c) = Gate!Total(b) - b[s] + c[s]
  BY <1>1, <1>2, <1>3, SumChange, GateSum DEF Gate!Total
<1>5. Gate!Total(b) \in Nat /\ b[s] \in Int
  BY <1>3, GateTotals
<1>6. Gate!Total(c) = Gate!Total(b) + 1
  BY <1>2, <1>4, <1>5
<1> QED  BY <1>2, <1>6 DEF c

(* Drafts of one gate.                                                     *)
Distinct(D) ==
    /\ IsFiniteSet(D) /\ D \subseteq Gate!Draft
    /\ \A c, d \in D : c.window = d.window => c = d

LEMMA ToldType ==
    ASSUME Gate!GateAssumption, NEW d \in Gate!Draft, NEW k
    PROVE  Gate!Told(d, k) \in Nat
<1>1. d.delivered \in Nat /\ d.suppressed \in Gate!Breakdown
  BY DEF Gate!Draft
<1> QED  BY <1>1, GateTotals DEF Gate!Told

(* What is told of a window is what its one draft tells. *)
LEMMA HeldOne ==
    ASSUME Gate!GateAssumption, NEW k, NEW D, Distinct(D), NEW d \in D
    PROVE  Gate!Held(k, D, d.window) = Gate!Told(d, k)
<1> DEFINE f == [c \in D |-> Gate!Told(c, k)]
<1>1. {c \in D : c.window = d.window} = {d}
  BY DEF Distinct
<1>2. f[d] = Gate!Told(d, k) /\ f[d] \in Nat
  <2>1. d \in Gate!Draft
    BY DEF Distinct
  <2> QED  BY <2>1, ToldType
<1>3. Gate!Held(k, D, d.window) = SumFunctionOnSet(f, {d})
  BY <1>1, GateSum DEF Gate!Held
<1> HIDE DEF f
<1>4. IsFiniteSet({d}) /\ {d} \ {d} = {}
  BY FS_Singleton
<1>5. SumFunctionOnSet(f, {d}) = f[d] + SumFunctionOnSet(f, {d} \ {d})
  BY <1>2, <1>4, SumRemove
<1>6. SumFunctionOnSet(f, {d} \ {d}) = 0
  BY <1>4, SumEmpty
<1> QED  BY <1>2, <1>3, <1>5, <1>6

LEMMA HeldNone ==
    ASSUME NEW k, NEW D, NEW w, \A d \in D : d.window # w
    PROVE  Gate!Held(k, D, w) = 0
<1>1. {d \in D : d.window = w} = {}
  OBVIOUS
<1> QED  BY <1>1, SumEmpty, GateSum DEF Gate!Held

LEMMA HeldType ==
    ASSUME Gate!GateAssumption, NEW k, NEW D, Distinct(D), NEW w
    PROVE  Gate!Held(k, D, w) \in Nat
<1>1. CASE \E d \in D : d.window = w
  <2>1. PICK d \in D : d.window = w
    BY <1>1
  <2>2. d \in Gate!Draft
    BY DEF Distinct
  <2> QED  BY <2>1, <2>2, HeldOne, ToldType
<1>2. CASE \A d \in D : d.window # w
  BY <1>2, HeldNone
<1> QED  BY <1>1, <1>2

(* Fewer drafts tell no more. *)
LEMMA HeldLess ==
    ASSUME Gate!GateAssumption, NEW k, NEW D, Distinct(D), NEW C, C \subseteq D, NEW w
    PROVE  Distinct(C) /\ Gate!Held(k, C, w) <= Gate!Held(k, D, w)
<1>1. Distinct(C)
  BY FS_Subset DEF Distinct
<1>2. Gate!Held(k, D, w) \in Nat
  BY HeldType
<1>3. CASE \E d \in C : d.window = w
  <2>1. PICK d \in C : d.window = w
    BY <1>3
  <2>2. Gate!Held(k, C, w) = Gate!Told(d, k) /\ Gate!Held(k, D, w) = Gate!Told(d, k)
    BY <1>1, <2>1, HeldOne
  <2> QED  BY <1>1, <1>2, <2>2
<1>4. CASE \A d \in C : d.window # w
  <2>1. Gate!Held(k, C, w) = 0
    BY <1>4, HeldNone
  <2> QED  BY <1>1, <1>2, <2>1
<1> QED  BY <1>3, <1>4

(* Drafts that agree about a window tell the same of it. *)
LEMMA HeldSame ==
    ASSUME Gate!GateAssumption, NEW k, NEW D, Distinct(D), NEW C, Distinct(C), NEW w,
           \A d \in D : d.window = w => d \in C,
           \A d \in C : d.window = w => d \in D
    PROVE  Gate!Held(k, C, w) = Gate!Held(k, D, w)
<1>1. CASE \E d \in C : d.window = w
  <2>1. PICK d \in C : d.window = w
    BY <1>1
  <2>2. Gate!Held(k, C, w) = Gate!Told(d, k) /\ Gate!Held(k, D, w) = Gate!Told(d, k)
    BY <2>1, HeldOne
  <2> QED  BY <2>2
<1>2. CASE \A d \in C : d.window # w
  <2>1. Gate!Held(k, C, w) = 0 /\ Gate!Held(k, D, w) = 0
    BY <1>2, HeldNone
  <2> QED  BY <2>1
<1> QED  BY <1>1, <1>2

(* What one gate tells changes what all of them tell. *)
LEMMA Change ==
    ASSUME Gate!GateAssumption, NEW k, NEW w, NEW e \in Engine,
           \A x \in Engine : Gate!Held(k, Gate!Drafts(x), w) \in Nat /\ Gate!Held(k, Gate!Drafts(x), w)' \in Nat,
           \A x \in Engine : x # e => Gate!Drafts(x)' = Gate!Drafts(x)
    PROVE  /\ Gate!Remembered(k, w) \in Nat /\ Gate!Remembered(k, w)' \in Nat
           /\ Gate!Remembered(k, w)' = Gate!Remembered(k, w) - Gate!Held(k, Gate!Drafts(e), w) + Gate!Held(k, Gate!Drafts(e), w)'
<1> DEFINE f == [x \in Engine |-> Gate!Held(k, Gate!Drafts(x), w)]
           g == [x \in Engine |-> Gate!Held(k, Gate!Drafts(x), w)']
<1>1. IsFiniteSet(Engine)
  BY GateFinite
<1>2. \A x \in Engine : f[x] \in Nat /\ g[x] \in Nat /\ f[x] = Gate!Held(k, Gate!Drafts(x), w)
                        /\ g[x] = Gate!Held(k, Gate!Drafts(x), w)'
  OBVIOUS
<1>3. \A x \in Engine : x # e => f[x] = g[x]
  OBVIOUS
<1>4. Gate!Remembered(k, w) = SumFunctionOnSet(f, Engine) /\ Gate!Remembered(k, w)' = SumFunctionOnSet(g, Engine)
  BY GateSum DEF Gate!Remembered
<1> HIDE DEF f, g
<1>5. SumFunctionOnSet(f, Engine) \in Nat /\ SumFunctionOnSet(g, Engine) \in Nat
  BY <1>1, <1>2, SumNat
<1>6. SumFunctionOnSet(g, Engine) = SumFunctionOnSet(f, Engine) - f[e] + g[e]
  <2>1. \A y \in Engine : f[y] \in Int /\ g[y] \in Int
    BY <1>2
  <2> QED  BY <1>1, <1>3, <2>1, SumChange
<1> QED  BY <1>2, <1>4, <1>5, <1>6

LEMMA Unchanged ==
    ASSUME NEW k, NEW w, \A x \in Engine : Gate!Drafts(x)' = Gate!Drafts(x)
    PROVE  Gate!Remembered(k, w)' = Gate!Remembered(k, w)
<1>1. [x \in Engine |-> Gate!Held(k, Gate!Drafts(x), w)'] = [x \in Engine |-> Gate!Held(k, Gate!Drafts(x), w)]
  OBVIOUS
<1> QED  BY <1>1, GateSum DEF Gate!Remembered

(* The queues of a gate.                                                   *)
LEMMA RangeAppend ==
    ASSUME NEW S, NEW q \in Seq(S), NEW x \in S
    PROVE  Append(q, x) \in Seq(S) /\ Gate!Range(Append(q, x)) = Gate!Range(q) \union {x}
<1>1. /\ Append(q, x) \in Seq(S) /\ Len(q) \in Nat /\ DOMAIN q = 1..Len(q)
      /\ DOMAIN Append(q, x) = 1..(Len(q) + 1)
      /\ \A i \in 1..Len(q) : Append(q, x)[i] = q[i]
      /\ Append(q, x)[Len(q) + 1] = x
  OBVIOUS
<1>2. \A i \in 1..(Len(q) + 1) : i \in 1..Len(q) \/ i = Len(q) + 1
  BY <1>1
<1>3. Gate!Range(Append(q, x)) \subseteq Gate!Range(q) \union {x}
  BY <1>1, <1>2 DEF Gate!Range
<1>4. x \in Gate!Range(Append(q, x))
  BY <1>1 DEF Gate!Range
<1>5. Gate!Range(q) \subseteq Gate!Range(Append(q, x))
  BY <1>1 DEF Gate!Range
<1> QED  BY <1>1, <1>3, <1>4, <1>5

LEMMA RangeTail ==
    ASSUME NEW S, NEW q \in Seq(S), q # <<>>
    PROVE  /\ Head(q) = q[1] /\ Head(q) \in S /\ Head(q) \in Gate!Range(q)
           /\ Tail(q) \in Seq(S) /\ Len(Tail(q)) = Len(q) - 1 /\ Len(q) \in Nat \ {0}
           /\ \A i \in 1..(Len(q) - 1) : Tail(q)[i] = q[i + 1]
           /\ \A d \in Gate!Range(Tail(q)) : \E i \in 2..Len(q) : d = q[i]
           /\ Gate!Range(q) = {Head(q)} \union Gate!Range(Tail(q))
<1>1. /\ Len(q) \in Nat \ {0} /\ DOMAIN q = 1..Len(q) /\ Head(q) = q[1]
      /\ Tail(q) \in Seq(S) /\ DOMAIN Tail(q) = 1..(Len(q) - 1) /\ Len(Tail(q)) = Len(q) - 1
      /\ \A i \in 1..(Len(q) - 1) : Tail(q)[i] = q[i + 1]
  OBVIOUS
<1>2. Head(q) \in S /\ Head(q) \in Gate!Range(q)
  BY <1>1 DEF Gate!Range
<1>3. \A i \in 1..(Len(q) - 1) : i + 1 \in 2..Len(q) /\ i + 1 \in DOMAIN q
  BY <1>1
<1>4. \A d \in Gate!Range(Tail(q)) : \E i \in 2..Len(q) : d = q[i]
  BY <1>1, <1>3 DEF Gate!Range
<1>5. Gate!Range(Tail(q)) \subseteq Gate!Range(q)
  BY <1>1, <1>3 DEF Gate!Range
<1>6. ASSUME NEW i \in DOMAIN q PROVE q[i] \in {Head(q)} \union Gate!Range(Tail(q))
  <2>1. CASE i = 1
    BY <1>1, <2>1
  <2>2. CASE i # 1
    <3>1. i - 1 \in DOMAIN Tail(q) /\ i - 1 \in 1..(Len(q) - 1) /\ (i - 1) + 1 = i
      BY <1>1, <2>2
    <3>2. Tail(q)[i - 1] = q[i]
      BY <1>1, <3>1
    <3> QED  BY <3>1, <3>2 DEF Gate!Range
  <2> QED  BY <2>1, <2>2
<1>7. Gate!Range(q) \subseteq {Head(q)} \union Gate!Range(Tail(q))
  BY <1>6 DEF Gate!Range
<1> QED  BY <1>1, <1>2, <1>4, <1>5, <1>7

LEMMA RangeEmpty == ASSUME NEW S PROVE <<>> \in Seq(S) /\ Gate!Range(<<>>) = {} /\ Len(<<>>) = 0
  BY DEF Gate!Range

(* In a queue whose windows increase, no window occurs twice. *)
LEMMA QueueIsDistinct ==
    ASSUME NEW q \in Seq(Gate!Draft), NEW n \in Nat, Gate!Increasing(q, n)
    PROVE  Distinct(Gate!Range(q)) /\ \A d \in Gate!Range(q) : d \in Gate!Draft /\ d.window < n
<1>1. Len(q) \in Nat /\ DOMAIN q = 1..Len(q) /\ \A i \in 1..Len(q) : q[i] \in Gate!Draft
  OBVIOUS
<1>2. IsFiniteSet(Gate!Range(q))
  <2>1. IsFiniteSet(1..Len(q))
    <3>1. 1 \in Int /\ Len(q) \in Int
      BY <1>1
    <3> QED  BY <3>1, FS_Interval
  <2>2. q \in Surjection(1..Len(q), Gate!Range(q))
    BY <1>1 DEF Gate!Range, Surjection
  <2> QED  BY <2>1, <2>2, FS_Surjection
<1>3. \A d \in Gate!Range(q) : d \in Gate!Draft /\ d.window < n
  BY <1>1 DEF Gate!Range, Gate!Increasing
<1>4. ASSUME NEW i \in 1..Len(q), NEW j \in 1..Len(q), q[i].window = q[j].window
      PROVE  q[i] = q[j]
  <2>1. q[i].window \in Int /\ q[j].window \in Int
    BY <1>1 DEF Gate!Draft, Gate!Windows
  <2>2. ~ (i < j) /\ ~ (j < i)
    BY <1>4, <2>1 DEF Gate!Increasing
  <2> QED  BY <2>2
<1>5. \A c, d \in Gate!Range(q) : c.window = d.window => c = d
  BY <1>1, <1>4 DEF Gate!Range
<1> QED  BY <1>2, <1>3, <1>5 DEF Distinct

(* One more draft, of a window that is not there. *)
LEMMA DistinctAdd ==
    ASSUME NEW D, Distinct(D), NEW d \in Gate!Draft, \A c \in D : c.window # d.window
    PROVE  Distinct({d} \union D)
<1>1. IsFiniteSet({d} \union D)
  <2>1. {d} \union D = D \union {d}
    OBVIOUS
  <2> QED  BY <2>1, FS_AddElement DEF Distinct
<1> QED  BY <1>1 DEF Distinct

LEMMA OneDraftPerWindow ==
    ASSUME NEW c \in Gate!Draft, NEW r \in Seq(Gate!Draft), NEW q \in Seq(Gate!Draft),
           Gate!Increasing(r, c.window), Gate!Increasing(q, c.window), q # <<>> => r = <<>>
    PROVE  /\ Distinct({c} \union Gate!Range(r) \union Gate!Range(q)) /\ c.window \in Nat
           /\ \A d \in Gate!Range(r) \union Gate!Range(q) : d \in Gate!Draft /\ d.window < c.window
           /\ Gate!Range(r) = {} \/ Gate!Range(q) = {}
<1>1. c.window \in Nat
  BY DEF Gate!Draft, Gate!Windows
<1>2. /\ Distinct(Gate!Range(r)) /\ Distinct(Gate!Range(q))
      /\ \A d \in Gate!Range(r) \union Gate!Range(q) : d \in Gate!Draft /\ d.window < c.window
  BY <1>1, QueueIsDistinct
<1>3. Gate!Range(r) = {} \/ Gate!Range(q) = {}
  BY RangeEmpty
<1>4. Distinct(Gate!Range(r) \union Gate!Range(q))
  <2>1. CASE Gate!Range(r) = {}
    <3>1. Gate!Range(r) \union Gate!Range(q) = Gate!Range(q)
      BY <2>1
    <3> QED  BY <1>2, <3>1
  <2>2. CASE Gate!Range(q) = {}
    <3>1. Gate!Range(r) \union Gate!Range(q) = Gate!Range(r)
      BY <2>2
    <3> QED  BY <1>2, <3>1
  <2> QED  BY <1>3, <2>1, <2>2
<1>5. \A d \in Gate!Range(r) \union Gate!Range(q) : d.window # c.window
  <2> SUFFICES ASSUME NEW d \in Gate!Range(r) \union Gate!Range(q) PROVE d.window # c.window
    OBVIOUS
  <2>1. d.window \in Nat
    BY <1>2 DEF Gate!Draft, Gate!Windows
  <2> QED  BY <1>1, <1>2, <2>1
<1>6. {c} \union (Gate!Range(r) \union Gate!Range(q)) = {c} \union Gate!Range(r) \union Gate!Range(q)
  OBVIOUS
<1>7. Distinct({c} \union (Gate!Range(r) \union Gate!Range(q)))
  BY <1>4, <1>5, DistinctAdd
<1> QED  BY <1>1, <1>2, <1>3, <1>6, <1>7

LEMMA GateDrafts ==
    ASSUME Gate!TypeOK, Gate!GateInv, NEW e \in Engine
    PROVE  /\ Distinct(Gate!Drafts(e)) /\ gate_current[e] \in Gate!Drafts(e) /\ gate_current[e] \in Gate!Draft
           /\ gate_clock \in Nat /\ gate_current[e].window \in Nat /\ gate_current[e].window <= gate_clock
           /\ \A d \in Gate!Drafts(e) : d \in Gate!Draft /\ d.window <= gate_current[e].window
           /\ \A d \in Gate!Range(gate_ready[e]) \union Gate!Range(gate_drained[e]) : d.window < gate_current[e].window
           /\ Gate!Range(gate_ready[e]) = {} \/ Gate!Range(gate_drained[e]) = {}
<1>1. /\ gate_current[e] \in Gate!Draft /\ gate_ready[e] \in Seq(Gate!Draft) /\ gate_drained[e] \in Seq(Gate!Draft)
      /\ gate_clock \in Nat
  BY DEF Gate!TypeOK, Gate!Windows
<1>2. /\ Gate!Increasing(gate_ready[e], gate_current[e].window) /\ Gate!Increasing(gate_drained[e], gate_current[e].window)
      /\ gate_drained[e] # <<>> => gate_ready[e] = <<>>
      /\ gate_current[e].window <= gate_clock
  BY DEF Gate!GateInv
<1>3. /\ Distinct(Gate!Drafts(e)) /\ gate_current[e].window \in Nat
      /\ \A d \in Gate!Range(gate_ready[e]) \union Gate!Range(gate_drained[e]) : d \in Gate!Draft /\ d.window < gate_current[e].window
      /\ Gate!Range(gate_ready[e]) = {} \/ Gate!Range(gate_drained[e]) = {}
  BY <1>1, <1>2, OneDraftPerWindow DEF Gate!Drafts
<1>4. \A d \in Gate!Drafts(e) : d \in Gate!Draft /\ d.window \in Nat /\ (d = gate_current[e] \/ d.window < gate_current[e].window)
  BY <1>1, <1>3 DEF Gate!Drafts, Gate!Draft, Gate!Windows
<1>5. \A d \in Gate!Drafts(e) : d.window <= gate_current[e].window
  BY <1>3, <1>4
<1>6. gate_current[e] \in Gate!Drafts(e)
  BY DEF Gate!Drafts
<1> QED  BY <1>1, <1>2, <1>3, <1>4, <1>5, <1>6

(* The same of the state a step leads to. *)
LEMMA NextDrafts ==
    ASSUME Gate!TypeOK', Gate!GateInv', NEW e \in Engine
    PROVE  Distinct(Gate!Drafts(e)')
<1>1. /\ gate_current'[e] \in Gate!Draft /\ gate_ready'[e] \in Seq(Gate!Draft) /\ gate_drained'[e] \in Seq(Gate!Draft)
  BY DEF Gate!TypeOK
<1>2. /\ Gate!Increasing(gate_ready'[e], gate_current'[e].window) /\ Gate!Increasing(gate_drained'[e], gate_current'[e].window)
      /\ gate_drained'[e] # <<>> => gate_ready'[e] = <<>>
  BY DEF Gate!GateInv
<1>3. Gate!Drafts(e)' = {gate_current'[e]} \union Gate!Range(gate_ready'[e]) \union Gate!Range(gate_drained'[e])
  BY DEF Gate!Drafts
<1> QED  BY <1>1, <1>2, <1>3, OneDraftPerWindow

(* roll(): what the gate holds after it. *)
RolledDrafts(e) == {Gate!Rolled(e).now} \union Gate!Range(Gate!Rolled(e).closed)

LEMMA Rolling ==
    ASSUME Gate!GateAssumption, Gate!TypeOK, Gate!GateInv, NEW e \in Engine, gate_drained[e] = <<>>
    PROVE  /\ Gate!Rolled(e).now \in Gate!Draft /\ Gate!Rolled(e).now.window = gate_clock
           /\ Gate!Rolled(e).closed \in Seq(Gate!Draft) /\ Gate!Increasing(Gate!Rolled(e).closed, gate_clock)
           /\ \A i \in 1..Len(Gate!Rolled(e).closed) : Gate!Total(Gate!Rolled(e).closed[i].suppressed) > 0
           /\ Distinct(RolledDrafts(e))
           /\ \A d \in Gate!Range(Gate!Rolled(e).closed) : d \in Gate!Draft /\ d.window < gate_clock
           /\ \A d \in RolledDrafts(e) :
                 d \in Gate!Drafts(e) \/ (d = Gate!EmptyDraft(gate_clock) /\ gate_current[e].window < gate_clock)
           /\ \A k, w : Gate!Held(k, RolledDrafts(e), w) <= Gate!Held(k, Gate!Drafts(e), w)
           /\ \A w : Gate!Held("hidden", RolledDrafts(e), w) = Gate!Held("hidden", Gate!Drafts(e), w)
<1>1. /\ gate_current[e] \in Gate!Draft /\ gate_ready[e] \in Seq(Gate!Draft) /\ gate_clock \in Nat /\ gate_clock \in Gate!Windows
      /\ gate_current[e].window \in Nat /\ gate_current[e].window <= gate_clock
      /\ Gate!Increasing(gate_ready[e], gate_current[e].window)
      /\ \A i \in 1..Len(gate_ready[e]) : Gate!Total(gate_ready[e][i].suppressed) > 0
  BY GateDrafts DEF Gate!TypeOK, Gate!GateInv
<1>w. \A d \in Gate!Draft : d.window \in Nat
  BY DEF Gate!Draft, Gate!Windows
<1>2. Distinct(Gate!Drafts(e)) /\ Gate!Drafts(e) = {gate_current[e]} \union Gate!Range(gate_ready[e])
  BY GateDrafts, RangeEmpty DEF Gate!Drafts
<1>3. Gate!EmptyDraft(gate_clock) \in Gate!Draft
  BY <1>1, GateTotals DEF Gate!EmptyDraft, Gate!Draft
<1>4. CASE gate_current[e].window = gate_clock
  <2>1. Gate!Rolled(e).now = gate_current[e] /\ Gate!Rolled(e).closed = gate_ready[e]
    BY <1>4 DEF Gate!Rolled
  <2>2. RolledDrafts(e) = Gate!Drafts(e)
    BY <1>2, <2>1 DEF RolledDrafts
  <2>3. \A d \in Gate!Range(gate_ready[e]) : d \in Gate!Draft /\ d.window < gate_clock
    BY <1>1, <1>4, QueueIsDistinct
  <2>4. \A k, w : Gate!Held(k, Gate!Drafts(e), w) \in Nat
    BY <1>2, HeldType
  <2>5. \A k, w : Gate!Held(k, RolledDrafts(e), w) <= Gate!Held(k, Gate!Drafts(e), w)
    BY <2>2, <2>4
  <2> QED  BY <1>1, <1>2, <1>4, <2>1, <2>2, <2>3, <2>5
<1>5. CASE gate_current[e].window # gate_clock
  <2>1. gate_current[e].window < gate_clock
    BY <1>1, <1>5
  <2>2. /\ Gate!Rolled(e).now = Gate!EmptyDraft(gate_clock)
        /\ Gate!Rolled(e).closed = IF Gate!Total(gate_current[e].suppressed) > 0
                                THEN Append(gate_ready[e], gate_current[e]) ELSE gate_ready[e]
    BY <1>5 DEF Gate!Rolled
  <2>3. Gate!EmptyDraft(gate_clock).window = gate_clock
    BY DEF Gate!EmptyDraft
  <2> DEFINE n == Gate!EmptyDraft(gate_clock)
             q == Gate!Rolled(e).closed
  <2>4. /\ q \in Seq(Gate!Draft) /\ Gate!Range(q) \subseteq Gate!Drafts(e)
        /\ Gate!Range(gate_ready[e]) \subseteq Gate!Range(q)
        /\ gate_current[e] \in Gate!Range(q) \/ Gate!Total(gate_current[e].suppressed) = 0
        /\ \A i \in 1..Len(q) : Gate!Total(q[i].suppressed) > 0
        /\ Gate!Increasing(q, gate_clock)
    <3>1. CASE Gate!Total(gate_current[e].suppressed) > 0
      <4>1. q = Append(gate_ready[e], gate_current[e])
        BY <2>2, <3>1
      <4>2. q \in Seq(Gate!Draft) /\ Gate!Range(q) = Gate!Range(gate_ready[e]) \union {gate_current[e]}
        BY <1>1, <4>1, RangeAppend
      <4>3. /\ Len(gate_ready[e]) \in Nat /\ Len(q) = Len(gate_ready[e]) + 1
            /\ \A i \in 1..Len(gate_ready[e]) : q[i] = gate_ready[e][i] /\ gate_ready[e][i] \in Gate!Draft
            /\ q[Len(gate_ready[e]) + 1] = gate_current[e]
            /\ \A i \in 1..Len(q) : i \in 1..Len(gate_ready[e]) \/ i = Len(gate_ready[e]) + 1
        BY <1>1, <4>1
      <4>4. \A i \in 1..Len(q) : Gate!Total(q[i].suppressed) > 0
        BY <1>1, <3>1, <4>3
      <4>5. \A i \in 1..Len(gate_ready[e]) : q[i].window < gate_current[e].window /\ q[i].window \in Nat
        BY <1>1, <1>w, <4>3 DEF Gate!Increasing
      <4>6. \A i \in 1..Len(q) : q[i].window < gate_clock
        BY <1>1, <2>1, <4>3, <4>5
      <4>7. ASSUME NEW i \in 1..Len(q), NEW j \in 1..Len(q), i < j
            PROVE  q[i].window < q[j].window
        <5>1. i \in 1..Len(gate_ready[e])
          BY <4>3, <4>7
        <5>2. CASE j \in 1..Len(gate_ready[e])
          BY <1>1, <4>3, <4>7, <5>1, <5>2 DEF Gate!Increasing
        <5>3. CASE j = Len(gate_ready[e]) + 1
          BY <4>3, <4>5, <5>1, <5>3
        <5> QED  BY <4>3, <5>2, <5>3
      <4>8. Gate!Increasing(q, gate_clock)
        BY <4>6, <4>7 DEF Gate!Increasing
      <4> QED  BY <1>2, <4>2, <4>4, <4>8
    <3>2. CASE ~ (Gate!Total(gate_current[e].suppressed) > 0)
      <4>1. q = gate_ready[e]
        BY <2>2, <3>2
      <4>2. Gate!Total(gate_current[e].suppressed) \in Nat
        BY <1>1, GateTotals DEF Gate!Draft
      <4>3. Gate!Total(gate_current[e].suppressed) = 0
        BY <3>2, <4>2
      <4>4. \A i \in 1..Len(gate_ready[e]) : gate_ready[e][i].window \in Nat
        BY <1>1, <1>w
      <4>5. Gate!Increasing(q, gate_clock)
        BY <1>1, <2>1, <4>1, <4>4 DEF Gate!Increasing
      <4> QED  BY <1>1, <1>2, <4>1, <4>3, <4>5
    <3> QED  BY <3>1, <3>2
  <2>5. Distinct(Gate!Range(q)) /\ \A d \in Gate!Range(q) : d \in Gate!Draft /\ d.window < gate_clock
    BY <1>1, <2>4, QueueIsDistinct
  <2>6. RolledDrafts(e) = {n} \union Gate!Range(q)
    BY <2>2 DEF RolledDrafts
  <2>7. \A d \in Gate!Range(q) : d.window # n.window
    <3>1. \A d \in Gate!Range(q) : d.window \in Nat
      BY <2>5 DEF Gate!Draft, Gate!Windows
    <3> QED  BY <1>1, <2>3, <2>5, <3>1
  <2>8. Distinct(RolledDrafts(e))
    BY <1>3, <2>5, <2>6, <2>7, DistinctAdd
  <2>9. \A k : Gate!Told(n, k) = 0
    BY GateTotals DEF Gate!Told, Gate!EmptyDraft
  <2>10. \A d \in Gate!Drafts(e) : d.window < gate_clock
    <3>1. \A d \in Gate!Drafts(e) : d \in Gate!Draft /\ d.window \in Nat /\ d.window <= gate_current[e].window
      BY GateDrafts DEF Gate!Draft, Gate!Windows
    <3> QED  BY <1>1, <2>1, <3>1
  <2> HIDE DEF n, q
  <2>11. ASSUME NEW k, NEW w
         PROVE  /\ Gate!Held(k, RolledDrafts(e), w) <= Gate!Held(k, Gate!Drafts(e), w)
                /\ k = "hidden" => Gate!Held(k, RolledDrafts(e), w) = Gate!Held(k, Gate!Drafts(e), w)
    <3>0. Gate!Held(k, Gate!Drafts(e), w) \in Nat
      BY <1>2, HeldType
    <3>1. CASE w = gate_clock
      <4>1. Gate!Held(k, RolledDrafts(e), n.window) = Gate!Told(n, k)
        BY <2>6, <2>8, HeldOne
      <4>2. Gate!Held(k, Gate!Drafts(e), w) = 0
        <5>1. \A d \in Gate!Drafts(e) : d.window \in Nat
          BY GateDrafts DEF Gate!Draft, Gate!Windows
        <5>2. \A d \in Gate!Drafts(e) : d.window # w
          BY <1>1, <2>10, <3>1, <5>1
        <5> QED  BY <5>2, HeldNone
      <4>3. n.window = w
        BY <2>3, <3>1 DEF n
      <4> QED  BY <2>9, <4>1, <4>2, <4>3
    <3>2. CASE w # gate_clock
      <4>1. Gate!Held(k, RolledDrafts(e), w) = Gate!Held(k, Gate!Range(q), w)
        <5>1. n.window # w
          BY <2>3, <3>2 DEF n
        <5>2. \A d \in RolledDrafts(e) : d.window = w => d \in Gate!Range(q)
          BY <2>6, <5>1
        <5>3. \A d \in Gate!Range(q) : d.window = w => d \in RolledDrafts(e)
          BY <2>6
        <5> QED  BY <2>5, <2>8, <5>2, <5>3, HeldSame
      <4>2. Gate!Held(k, Gate!Range(q), w) <= Gate!Held(k, Gate!Drafts(e), w)
        BY <1>2, <2>4, HeldLess DEF q
      <4>3. ASSUME k = "hidden" PROVE Gate!Held(k, Gate!Range(q), w) = Gate!Held(k, Gate!Drafts(e), w)
        <5>1. CASE gate_current[e] \in Gate!Range(q)
          <6>1. Gate!Range(q) = Gate!Drafts(e)
            BY <1>2, <2>4, <5>1 DEF q
          <6> QED  BY <6>1
        <5>2. CASE gate_current[e] \notin Gate!Range(q)
          <6>1. Gate!Total(gate_current[e].suppressed) = 0 /\ Gate!Told(gate_current[e], k) = 0
            BY <2>4, <4>3, <5>2 DEF Gate!Told, q
          <6>2. CASE gate_current[e].window = w
            <7>1. Gate!Held(k, Gate!Drafts(e), w) = 0
              BY <1>2, <6>1, <6>2, HeldOne
            <7>2. Gate!Held(k, Gate!Range(q), w) \in Nat
              BY <2>5, HeldType
            <7> QED  BY <4>2, <7>1, <7>2
          <6>3. CASE gate_current[e].window # w
            <7>1. \A d \in Gate!Drafts(e) : d.window = w => d \in Gate!Range(q)
              BY <1>2, <2>4, <6>3 DEF q
            <7>2. \A d \in Gate!Range(q) : d.window = w => d \in Gate!Drafts(e)
              BY <2>4 DEF q
            <7> QED  BY <1>2, <2>5, <7>1, <7>2, HeldSame
          <6> QED  BY <6>2, <6>3
        <5> QED  BY <5>1, <5>2
      <4> QED  BY <4>1, <4>2, <4>3
    <3> QED  BY <3>1, <3>2
  <2>12. \A d \in RolledDrafts(e) : d \in Gate!Drafts(e) \/ (d = Gate!EmptyDraft(gate_clock) /\ gate_current[e].window < gate_clock)
    BY <2>1, <2>4, <2>6 DEF n, q
  <2>13. Gate!Rolled(e).now \in Gate!Draft /\ Gate!Rolled(e).now.window = gate_clock
    BY <1>3, <2>2, <2>3
  <2> QED  BY <2>4, <2>5, <2>8, <2>11, <2>12, <2>13 DEF q
<1> QED  BY <1>4, <1>5

LEMMA CountTypes ==
    ASSUME Gate!GateAssumption, Gate!TypeOK, NEW k \in Kinds, NEW w \in Gate!Windows
    PROVE  Gate!Row(k, w) \in Nat /\ Gate!Happened(k, w) \in Nat
<1>1. gate_digests[w] \in Gate!Digest /\ gate_shown[w] \in Nat /\ gate_hidden[w] \in Gate!Breakdown
  BY DEF Gate!TypeOK
<1>2. gate_digests[w].delivered \in Nat /\ gate_digests[w].suppressed \in Nat
  BY <1>1 DEF Gate!Digest
<1> QED  BY <1>1, <1>2, GateTotals DEF Gate!Row, Gate!Happened

LEMMA NextCountTypes ==
    ASSUME Gate!GateAssumption, Gate!TypeOK', NEW k \in Kinds, NEW w \in Gate!Windows
    PROVE  Gate!Row(k, w)' \in Nat /\ Gate!Happened(k, w)' \in Nat
<1>1. gate_digests'[w] \in Gate!Digest /\ gate_shown'[w] \in Nat /\ gate_hidden'[w] \in Gate!Breakdown
  BY DEF Gate!TypeOK
<1>2. gate_digests'[w].delivered \in Nat /\ gate_digests'[w].suppressed \in Nat
  BY <1>1 DEF Gate!Digest
<1> QED  BY <1>1, <1>2, GateTotals DEF Gate!Row, Gate!Happened

(* The step of one gate keeps the sums when it keeps the gate's own.       *)
LEMMA SumStep ==
    ASSUME Gate!GateAssumption, Gate!TypeOK, Gate!GateInv, Gate!SumInv, Gate!TypeOK', Gate!GateInv', NEW e \in Engine,
           \A x \in Engine : x # e => Gate!Drafts(x)' = Gate!Drafts(x),
           \A k \in Kinds, w \in Gate!Windows :
              Gate!Row(k, w)' + Gate!Held(k, Gate!Drafts(e), w)' + Gate!Happened(k, w)
                 <= Gate!Happened(k, w)' + Gate!Row(k, w) + Gate!Held(k, Gate!Drafts(e), w),
           gate_stops' = 0 => gate_stops = 0 /\ \A w \in Gate!Windows :
              Gate!Row("hidden", w)' + Gate!Held("hidden", Gate!Drafts(e), w)' + Gate!Happened("hidden", w)
                 = Gate!Happened("hidden", w)' + Gate!Row("hidden", w) + Gate!Held("hidden", Gate!Drafts(e), w)
    PROVE  Gate!SumInv'
<1>1. \A x \in Engine : \A k, w : Gate!Held(k, Gate!Drafts(x), w) \in Nat /\ Gate!Held(k, Gate!Drafts(x), w)' \in Nat
  <2> SUFFICES ASSUME NEW x \in Engine, NEW k, NEW w
               PROVE  Gate!Held(k, Gate!Drafts(x), w) \in Nat /\ Gate!Held(k, Gate!Drafts(x), w)' \in Nat
    OBVIOUS
  <2>1. Distinct(Gate!Drafts(x)) /\ Distinct(Gate!Drafts(x)')
    BY GateDrafts, NextDrafts
  <2> QED  BY <2>1, HeldType
<1>2. ASSUME NEW k \in Kinds, NEW w \in Gate!Windows
      PROVE  /\ Gate!Row(k, w)' + Gate!Remembered(k, w)' <= Gate!Happened(k, w)'
             /\ gate_stops' = 0 /\ k = "hidden" => Gate!Row(k, w)' + Gate!Remembered(k, w)' = Gate!Happened(k, w)'
  <2> DEFINE h0 == Gate!Held(k, Gate!Drafts(e), w)
             h1 == Gate!Held(k, Gate!Drafts(e), w)'
             r0 == Gate!Remembered(k, w)
             r1 == Gate!Remembered(k, w)'
             d0 == Gate!Row(k, w)
             d1 == Gate!Row(k, w)'
             t0 == Gate!Happened(k, w)
             t1 == Gate!Happened(k, w)'
  <2>1. r0 \in Nat /\ r1 \in Nat /\ r1 = r0 - h0 + h1
    BY <1>1, Change
  <2>2. h0 \in Nat /\ h1 \in Nat /\ d0 \in Nat /\ d1 \in Nat /\ t0 \in Nat /\ t1 \in Nat
    BY <1>1, CountTypes, NextCountTypes
  <2>3. d0 + r0 <= t0 /\ (k = "hidden" /\ gate_stops = 0 => d0 + r0 = t0)
    BY DEF Gate!SumInv, Kinds
  <2>4. d1 + h1 + t0 <= t1 + d0 + h0
    OBVIOUS
  <2>5. k = "hidden" /\ gate_stops' = 0 => gate_stops = 0 /\ d1 + h1 + t0 = t1 + d0 + h0
    OBVIOUS
  <2> HIDE DEF h0, h1, r0, r1, d0, d1, t0, t1
  <2>6. d1 + r1 <= t1
    BY <2>1, <2>2, <2>3, <2>4
  <2>7. k = "hidden" /\ gate_stops' = 0 => d1 + r1 = t1
    BY <2>1, <2>2, <2>3, <2>5
  <2> QED  BY <2>6, <2>7 DEF r1, d1, t1
<1>3. "shown" \in Kinds /\ "hidden" \in Kinds
  BY DEF Kinds
<1>4. \A w \in Gate!Windows : gate_stops' = 0 => Gate!Row("hidden", w)' + Gate!Remembered("hidden", w)' = Gate!Happened("hidden", w)'
  BY <1>2, <1>3
<1>5. \A w \in Gate!Windows : \A k \in {"shown", "hidden"} : Gate!Row(k, w)' + Gate!Remembered(k, w)' <= Gate!Happened(k, w)'
  BY <1>2 DEF Kinds
<1> QED  BY <1>4, <1>5 DEF Gate!SumInv

(* The steps, one lemma for each.                                          *)
LEMMA EmptyHeld ==
    ASSUME Gate!GateAssumption, NEW n \in Gate!Windows
    PROVE  /\ Gate!EmptyDraft(n) \in Gate!Draft /\ Gate!EmptyDraft(n).window = n /\ Gate!EmptyDraft(n).delivered = 0
           /\ Gate!EmptyDraft(n).suppressed = Gate!Nothing
           /\ Distinct({Gate!EmptyDraft(n)})
           /\ \A k, w : Gate!Held(k, {Gate!EmptyDraft(n)}, w) = 0
<1> DEFINE d == Gate!EmptyDraft(n)
<1>1. d \in Gate!Draft /\ d.window = n /\ d.delivered = 0 /\ d.suppressed = Gate!Nothing
  BY GateTotals DEF Gate!EmptyDraft, Gate!Draft
<1> HIDE DEF d
<1>2. Distinct({d})
  BY <1>1, FS_Singleton DEF Distinct
<1>3. ASSUME NEW k, NEW w PROVE Gate!Held(k, {d}, w) = 0
  <2>1. Gate!Told(d, k) = 0
    BY <1>1, GateTotals DEF Gate!Told
  <2>2. CASE d.window = w
    <3>1. Gate!Held(k, {d}, d.window) = Gate!Told(d, k)
      BY <1>2, HeldOne
    <3> QED  BY <2>1, <2>2, <3>1
  <2>3. CASE d.window # w
    BY <2>3, HeldNone
  <2> QED  BY <2>2, <2>3
<1> QED  BY <1>1, <1>2, <1>3 DEF d

LEMMA TickInv ==
    ASSUME Gate!GateAssumption, Gate!IInv, Gate!Tick
    PROVE  Gate!IInv'
<1>1. Gate!TypeOK /\ Gate!GateInv /\ Gate!SumInv /\ Gate!CapInv /\ Gate!OneGateInv /\ Gate!DigestReportsWindow
  BY DEF Gate!IInv
<1>2. /\ gate_clock \in Nat /\ gate_clock' = gate_clock + 1 /\ gate_clock' \in Gate!Windows
      /\ gate_current' = gate_current /\ gate_ready' = gate_ready /\ gate_drained' = gate_drained /\ gate_up' = gate_up
      /\ gate_digests' = gate_digests /\ gate_shown' = gate_shown /\ gate_hidden' = gate_hidden
      /\ gate_raised' = gate_raised /\ gate_stops' = gate_stops
  BY <1>1 DEF Gate!Tick, Gate!gates, Gate!history, Gate!TypeOK, Gate!Windows, Gate!GateAssumption
<1>3. Gate!TypeOK'
  BY <1>1, <1>2 DEF Gate!TypeOK
<1>4. Gate!GateInv'
  <2>1. \A e \in Engine : gate_current[e].window \in Nat /\ gate_current[e].window <= gate_clock
    BY <1>1, GateDrafts
  <2>2. \A e \in Engine : gate_current[e].window <= gate_clock'
    BY <1>2, <2>1
  <2> QED  BY <1>1, <1>2, <2>2 DEF Gate!GateInv
<1>5. \A e \in Engine : Gate!Drafts(e)' = Gate!Drafts(e)
  BY <1>2 DEF Gate!Drafts
<1>6. Gate!SumInv'
  <2>1. \A k, w : Gate!Remembered(k, w)' = Gate!Remembered(k, w)
    BY <1>5, Unchanged
  <2> QED  BY <1>1, <1>2, <2>1 DEF Gate!SumInv, Gate!Row, Gate!Happened
<1>7. Gate!CapInv'
  BY <1>1, <1>2, <1>5 DEF Gate!CapInv
<1>8. Gate!OneGateInv' /\ Gate!DigestReportsWindow'
  BY <1>1, <1>2, <1>5 DEF Gate!OneGateInv, Gate!Untouched, Gate!DigestReportsWindow
<1> QED  BY <1>3, <1>4, <1>6, <1>7, <1>8 DEF Gate!IInv

(* Start and Stop leave an engine with an empty draft. *)
LEMMA Emptied ==
    ASSUME Gate!GateAssumption, Gate!TypeOK, Gate!GateInv, NEW e \in Engine, NEW u \in SUBSET Engine,
           u \ {e} = gate_up \ {e}, gate_clock' = gate_clock, gate_up' = u,
           gate_current' = [gate_current EXCEPT ![e] = Gate!EmptyDraft(gate_clock)],
           gate_ready' = [gate_ready EXCEPT ![e] = <<>>],
           gate_drained' = [gate_drained EXCEPT ![e] = <<>>],
           gate_digests' = gate_digests, gate_shown' = gate_shown, gate_hidden' = gate_hidden,
           gate_raised' = gate_raised, gate_stops' \in 0..MaxStops
    PROVE  /\ Gate!TypeOK' /\ Gate!GateInv' /\ Gate!Drafts(e)' = {Gate!EmptyDraft(gate_clock)}
           /\ \A x \in Engine : x # e => Gate!Drafts(x)' = Gate!Drafts(x)
<1>1. gate_clock \in Gate!Windows /\ gate_clock \in Nat
  BY DEF Gate!TypeOK, Gate!Windows
<1>2. Gate!EmptyDraft(gate_clock) \in Gate!Draft /\ Gate!EmptyDraft(gate_clock).window = gate_clock
  BY <1>1, EmptyHeld
<1>3. <<>> \in Seq(Gate!Draft) /\ Len(<<>>) = 0 /\ Gate!Range(<<>>) = {}
  BY RangeEmpty
<1>4. /\ gate_current'[e] = Gate!EmptyDraft(gate_clock) /\ gate_ready'[e] = <<>> /\ gate_drained'[e] = <<>>
      /\ \A x \in Engine : x # e => /\ gate_current'[x] = gate_current[x] /\ gate_ready'[x] = gate_ready[x]
                                    /\ gate_drained'[x] = gate_drained[x] /\ (x \in gate_up' <=> x \in gate_up)
  BY DEF Gate!TypeOK
<1>5. Gate!TypeOK'
  <2>1. gate_current' \in [Engine -> Gate!Draft] /\ gate_ready' \in [Engine -> Seq(Gate!Draft)] /\ gate_drained' \in [Engine -> Seq(Gate!Draft)]
    BY <1>2, <1>3 DEF Gate!TypeOK
  <2>2. ASSUME NEW x \in Engine, NEW i \in 1..Len(gate_ready'[x])
        PROVE  gate_ready'[x][i].window < gate_current'[x].window /\ Gate!Total(gate_ready'[x][i].suppressed) > 0
    <3>1. x # e
      BY <1>3, <1>4
    <3> QED  BY <1>4, <2>2, <3>1 DEF Gate!TypeOK
  <2> QED  BY <2>1, <2>2 DEF Gate!TypeOK
<1>6. Gate!GateInv'
  <2>1. \A x \in Engine : x # e =>
          /\ gate_current'[x].window <= gate_clock'
          /\ Gate!Increasing(gate_ready'[x], gate_current'[x].window)
          /\ Gate!Increasing(gate_drained'[x], gate_current'[x].window)
          /\ gate_drained'[x] # <<>> => gate_ready'[x] = <<>>
          /\ x \notin gate_up' => /\ gate_ready'[x] = <<>> /\ gate_drained'[x] = <<>>
                             /\ gate_current'[x] = Gate!EmptyDraft(gate_current'[x].window)
    BY <1>4 DEF Gate!GateInv
  <2>2. /\ gate_current'[e].window <= gate_clock'
        /\ Gate!Increasing(gate_ready'[e], gate_current'[e].window)
        /\ Gate!Increasing(gate_drained'[e], gate_current'[e].window)
        /\ gate_drained'[e] # <<>> => gate_ready'[e] = <<>>
        /\ e \notin gate_up' => /\ gate_ready'[e] = <<>> /\ gate_drained'[e] = <<>>
                           /\ gate_current'[e] = Gate!EmptyDraft(gate_current'[e].window)
    BY <1>1, <1>2, <1>3, <1>4 DEF Gate!Increasing
  <2> QED  BY <2>1, <2>2 DEF Gate!GateInv
<1>7. Gate!Drafts(e)' = {Gate!EmptyDraft(gate_clock)} /\ \A x \in Engine : x # e => Gate!Drafts(x)' = Gate!Drafts(x)
  BY <1>3, <1>4 DEF Gate!Drafts
<1> QED  BY <1>5, <1>6, <1>7

LEMMA StartInv ==
    ASSUME Gate!GateAssumption, Gate!IInv, NEW e \in Engine, Gate!Start(e)
    PROVE  Gate!IInv'
<1>1. Gate!TypeOK /\ Gate!GateInv /\ Gate!SumInv /\ Gate!CapInv /\ Gate!OneGateInv /\ Gate!DigestReportsWindow
  BY DEF Gate!IInv
<1>2. /\ gate_clock' = gate_clock /\ gate_digests' = gate_digests /\ gate_shown' = gate_shown /\ gate_hidden' = gate_hidden
      /\ gate_raised' = gate_raised /\ gate_stops' = gate_stops /\ e \notin gate_up /\ gate_up' = gate_up \union {e}
      /\ gate_clock \in Gate!Windows /\ gate_clock \in Nat
  BY <1>1 DEF Gate!Start, Gate!history, Gate!TypeOK, Gate!Windows
<1>3. /\ Gate!TypeOK' /\ Gate!GateInv' /\ Gate!Drafts(e)' = {Gate!EmptyDraft(gate_clock)}
      /\ \A x \in Engine : x # e => Gate!Drafts(x)' = Gate!Drafts(x)
  <2>1. gate_up' \in SUBSET Engine /\ gate_up' \ {e} = gate_up \ {e} /\ gate_stops' \in 0..MaxStops
    BY <1>1, <1>2 DEF Gate!TypeOK
  <2> QED  BY <1>1, <1>2, <2>1, Emptied DEF Gate!Start
<1>4. gate_current'[e] = Gate!EmptyDraft(gate_clock) /\ gate_current'[e].window = gate_clock
  BY <1>1, <1>2, EmptyHeld DEF Gate!Start, Gate!TypeOK
<1>5. Gate!SumInv'
  <2>0. \A k, w : Gate!Held(k, {Gate!EmptyDraft(gate_clock)}, w) = 0
    BY <1>2, EmptyHeld
  <2>1. \A k, w : Gate!Held(k, Gate!Drafts(e), w)' = 0
    BY <1>3, <2>0
  <2>2. \A k, w : Gate!Held(k, Gate!Drafts(e), w) = 0
    <3>1. Gate!Drafts(e) = {Gate!EmptyDraft(gate_current[e].window)}
      BY <1>1, <1>2, RangeEmpty DEF Gate!GateInv, Gate!Drafts
    <3>2. gate_current[e].window \in Gate!Windows
      BY <1>1 DEF Gate!TypeOK, Gate!Draft
    <3>3. \A k, w : Gate!Held(k, {Gate!EmptyDraft(gate_current[e].window)}, w) = 0
      BY <3>2, EmptyHeld
    <3> QED  BY <3>1, <3>3
  <2>3. \A k, w : Gate!Row(k, w)' = Gate!Row(k, w) /\ Gate!Happened(k, w)' = Gate!Happened(k, w)
    BY <1>2 DEF Gate!Row, Gate!Happened
  <2>4. \A k \in Kinds, w \in Gate!Windows : Gate!Row(k, w) \in Nat /\ Gate!Happened(k, w) \in Nat
    BY <1>1, CountTypes
  <2>5. \A k \in Kinds, w \in Gate!Windows :
          Gate!Row(k, w)' + Gate!Held(k, Gate!Drafts(e), w)' + Gate!Happened(k, w)
            = Gate!Happened(k, w)' + Gate!Row(k, w) + Gate!Held(k, Gate!Drafts(e), w)
    <3> SUFFICES ASSUME NEW k \in Kinds, NEW w \in Gate!Windows
                 PROVE  Gate!Row(k, w) + 0 + Gate!Happened(k, w) = Gate!Happened(k, w) + Gate!Row(k, w) + 0
      BY <2>1, <2>2, <2>3
    <3> QED  BY <2>4
  <2>6. \A k \in Kinds, w \in Gate!Windows :
          Gate!Row(k, w)' + Gate!Held(k, Gate!Drafts(e), w)' + Gate!Happened(k, w)
            <= Gate!Happened(k, w)' + Gate!Row(k, w) + Gate!Held(k, Gate!Drafts(e), w)
    <3> SUFFICES ASSUME NEW k \in Kinds, NEW w \in Gate!Windows
                 PROVE  Gate!Row(k, w) + 0 + Gate!Happened(k, w) <= Gate!Happened(k, w) + Gate!Row(k, w) + 0
      BY <2>1, <2>2, <2>3
    <3> QED  BY <2>4
  <2>7. "hidden" \in Kinds
    BY DEF Kinds
  <2> QED  BY <1>1, <1>2, <1>3, <2>5, <2>6, <2>7, SumStep
<1>6. Gate!CapInv'
  <2>1. \A x \in Engine : x # e => \A d \in Gate!Drafts(x)' : d.delivered <= gate_shown'[d.window]
    BY <1>1, <1>2, <1>3 DEF Gate!CapInv
  <2>2. \A d \in Gate!Drafts(e)' : d.delivered <= gate_shown'[d.window]
    <3>1. gate_shown'[gate_clock] \in Nat
      BY <1>1, <1>2 DEF Gate!TypeOK
    <3>2. Gate!EmptyDraft(gate_clock).delivered = 0 /\ Gate!EmptyDraft(gate_clock).window = gate_clock
      BY <1>2, EmptyHeld
    <3> QED  BY <1>3, <3>1, <3>2
  <2> QED  BY <1>1, <1>2, <2>1, <2>2 DEF Gate!CapInv
<1>7. Gate!OneGateInv'
  <2> SUFFICES ASSUME gate_stops = 0, Engine = {e}
               PROVE  /\ e \notin gate_up' => \A w \in Gate!Windows : Gate!Untouched(w)'
                      /\ \A d \in Gate!Drafts(e)' : /\ gate_digests'[d.window] = Gate!NoDigest
                                               /\ d.delivered = gate_shown'[d.window]
                                               /\ d.suppressed = gate_hidden'[d.window]
                      /\ \A w \in Gate!Windows : w > gate_current'[e].window => Gate!Untouched(w)'
    BY <1>2 DEF Gate!OneGateInv
  <2>1. \A w \in Gate!Windows : Gate!Untouched(w) /\ Gate!Untouched(w)'
    BY <1>1, <1>2 DEF Gate!OneGateInv, Gate!Untouched
  <2>2. \A d \in Gate!Drafts(e)' : /\ gate_digests'[d.window] = Gate!NoDigest
                              /\ d.delivered = gate_shown'[d.window]
                              /\ d.suppressed = gate_hidden'[d.window]
    BY <1>2, <1>3, <2>1, EmptyHeld DEF Gate!Untouched
  <2> QED  BY <2>1, <2>2
<1>8. Gate!DigestReportsWindow'
  BY <1>1, <1>2 DEF Gate!DigestReportsWindow
<1> QED  BY <1>3, <1>5, <1>6, <1>7, <1>8 DEF Gate!IInv

LEMMA StopInv ==
    ASSUME Gate!GateAssumption, Gate!IInv, NEW e \in Engine, Gate!Stop(e)
    PROVE  Gate!IInv'
<1>1. Gate!TypeOK /\ Gate!GateInv /\ Gate!SumInv /\ Gate!CapInv /\ Gate!OneGateInv /\ Gate!DigestReportsWindow
  BY DEF Gate!IInv
<1>2. /\ gate_clock' = gate_clock /\ gate_digests' = gate_digests /\ gate_shown' = gate_shown /\ gate_hidden' = gate_hidden
      /\ gate_raised' = gate_raised /\ gate_stops' = gate_stops + 1 /\ gate_stops' \in 0..MaxStops /\ gate_stops' # 0
      /\ gate_clock \in Gate!Windows /\ gate_clock \in Nat /\ gate_up' = gate_up \ {e}
  BY <1>1 DEF Gate!Stop, Gate!history, Gate!TypeOK, Gate!Windows, Gate!GateAssumption
<1>3. /\ Gate!TypeOK' /\ Gate!GateInv' /\ Gate!Drafts(e)' = {Gate!EmptyDraft(gate_clock)}
      /\ \A x \in Engine : x # e => Gate!Drafts(x)' = Gate!Drafts(x)
  <2>1. gate_up' \in SUBSET Engine /\ gate_up' \ {e} = gate_up \ {e}
    BY <1>1, <1>2 DEF Gate!TypeOK
  <2> QED  BY <1>1, <1>2, <2>1, Emptied DEF Gate!Stop
<1>4. Gate!SumInv'
  <2>0. \A k, w : Gate!Held(k, {Gate!EmptyDraft(gate_clock)}, w) = 0
    BY <1>2, EmptyHeld
  <2>1. \A k, w : Gate!Held(k, Gate!Drafts(e), w)' = 0
    BY <1>3, <2>0
  <2>2. \A k, w : Gate!Held(k, Gate!Drafts(e), w) \in Nat
    BY <1>1, GateDrafts, HeldType
  <2>3. \A k, w : Gate!Row(k, w)' = Gate!Row(k, w) /\ Gate!Happened(k, w)' = Gate!Happened(k, w)
    BY <1>2 DEF Gate!Row, Gate!Happened
  <2>4. \A k \in Kinds, w \in Gate!Windows : Gate!Row(k, w) \in Nat /\ Gate!Happened(k, w) \in Nat
    BY <1>1, CountTypes
  <2>5. \A k \in Kinds, w \in Gate!Windows :
          Gate!Row(k, w)' + Gate!Held(k, Gate!Drafts(e), w)' + Gate!Happened(k, w)
            <= Gate!Happened(k, w)' + Gate!Row(k, w) + Gate!Held(k, Gate!Drafts(e), w)
    <3> SUFFICES ASSUME NEW k \in Kinds, NEW w \in Gate!Windows
                 PROVE  Gate!Row(k, w) + 0 + Gate!Happened(k, w) <= Gate!Happened(k, w) + Gate!Row(k, w) + Gate!Held(k, Gate!Drafts(e), w)
      BY <2>1, <2>3
    <3> QED  BY <2>2, <2>4
  <2> QED  BY <1>1, <1>2, <1>3, <2>5, SumStep
<1>5. Gate!CapInv'
  <2>1. \A x \in Engine : x # e => \A d \in Gate!Drafts(x)' : d.delivered <= gate_shown'[d.window]
    BY <1>1, <1>2, <1>3 DEF Gate!CapInv
  <2>2. \A d \in Gate!Drafts(e)' : d.delivered <= gate_shown'[d.window]
    <3>1. gate_shown'[gate_clock] \in Nat
      BY <1>1, <1>2 DEF Gate!TypeOK
    <3>2. Gate!EmptyDraft(gate_clock).delivered = 0 /\ Gate!EmptyDraft(gate_clock).window = gate_clock
      BY <1>2, EmptyHeld
    <3> QED  BY <1>3, <3>1, <3>2
  <2> QED  BY <1>1, <1>2, <2>1, <2>2 DEF Gate!CapInv
<1>6. Gate!OneGateInv' /\ Gate!DigestReportsWindow'
  BY <1>2 DEF Gate!OneGateInv, Gate!DigestReportsWindow
<1> QED  BY <1>3, <1>4, <1>5, <1>6 DEF Gate!IInv

Holding(c, r, q) == {c} \union Gate!Range(r) \union Gate!Range(q)

(* The other steps of an engine give it a current draft and two queues. *)
LEMMA GateStep ==
    ASSUME Gate!TypeOK, Gate!GateInv, NEW e \in Engine, e \in gate_up,
           NEW c \in Gate!Draft, NEW r \in Seq(Gate!Draft), NEW q \in Seq(Gate!Draft), c.window <= gate_clock,
           Gate!Increasing(r, c.window), Gate!Increasing(q, c.window), q # <<>> => r = <<>>,
           \A i \in 1..Len(r) : Gate!Total(r[i].suppressed) > 0,
           gate_clock' = gate_clock, gate_up' = gate_up,
           gate_current' = [gate_current EXCEPT ![e] = c],
           gate_ready' = [gate_ready EXCEPT ![e] = r],
           gate_drained' = [gate_drained EXCEPT ![e] = q],
           gate_digests' \in [Gate!Windows -> Gate!Digest], gate_shown' \in [Gate!Windows -> Nat],
           gate_hidden' \in [Gate!Windows -> Gate!Breakdown], gate_raised' \in 0..MaxAlerts, gate_stops' \in 0..MaxStops
    PROVE  /\ Gate!TypeOK' /\ Gate!GateInv' /\ Gate!Drafts(e)' = Holding(c, r, q)
           /\ \A x \in Engine : x # e => Gate!Drafts(x)' = Gate!Drafts(x)
           /\ gate_current'[e] = c /\ \A x \in Engine : x # e => gate_current'[x] = gate_current[x]
<1>1. /\ gate_current'[e] = c /\ gate_ready'[e] = r /\ gate_drained'[e] = q
      /\ \A x \in Engine : x # e => /\ gate_current'[x] = gate_current[x] /\ gate_ready'[x] = gate_ready[x]
                                    /\ gate_drained'[x] = gate_drained[x]
  BY DEF Gate!TypeOK
<1>2. Gate!TypeOK'
  <2>1. /\ gate_current' \in [Engine -> Gate!Draft] /\ gate_ready' \in [Engine -> Seq(Gate!Draft)]
        /\ gate_drained' \in [Engine -> Seq(Gate!Draft)]
    BY DEF Gate!TypeOK
  <2>2. ASSUME NEW x \in Engine, NEW i \in 1..Len(gate_ready'[x])
        PROVE  gate_ready'[x][i].window < gate_current'[x].window /\ Gate!Total(gate_ready'[x][i].suppressed) > 0
    <3>1. CASE x = e
      BY <1>1, <3>1 DEF Gate!Increasing
    <3>2. CASE x # e
      BY <1>1, <2>2, <3>2 DEF Gate!TypeOK
    <3> QED  BY <3>1, <3>2
  <2> QED  BY <2>1, <2>2 DEF Gate!TypeOK
<1>3. Gate!GateInv'
  <2>1. \A x \in Engine : x # e =>
          /\ gate_current'[x].window <= gate_clock'
          /\ Gate!Increasing(gate_ready'[x], gate_current'[x].window)
          /\ Gate!Increasing(gate_drained'[x], gate_current'[x].window)
          /\ gate_drained'[x] # <<>> => gate_ready'[x] = <<>>
          /\ x \notin gate_up' => /\ gate_ready'[x] = <<>> /\ gate_drained'[x] = <<>>
                             /\ gate_current'[x] = Gate!EmptyDraft(gate_current'[x].window)
    BY <1>1 DEF Gate!GateInv
  <2>2. /\ gate_current'[e].window <= gate_clock'
        /\ Gate!Increasing(gate_ready'[e], gate_current'[e].window)
        /\ Gate!Increasing(gate_drained'[e], gate_current'[e].window)
        /\ gate_drained'[e] # <<>> => gate_ready'[e] = <<>>
        /\ e \notin gate_up' => /\ gate_ready'[e] = <<>> /\ gate_drained'[e] = <<>>
                           /\ gate_current'[e] = Gate!EmptyDraft(gate_current'[e].window)
    BY <1>1
  <2> QED  BY <2>1, <2>2 DEF Gate!GateInv
<1>4. Gate!Drafts(e)' = Holding(c, r, q) /\ \A x \in Engine : x # e => Gate!Drafts(x)' = Gate!Drafts(x)
  BY <1>1 DEF Gate!Drafts, Holding
<1> QED  BY <1>1, <1>2, <1>3, <1>4

LEMMA FlushFailsInv ==
    ASSUME Gate!GateAssumption, Gate!IInv, NEW e \in Engine, Gate!FlushFails(e)
    PROVE  Gate!IInv'
<1>1. Gate!TypeOK /\ Gate!GateInv /\ Gate!SumInv /\ Gate!CapInv /\ Gate!OneGateInv /\ Gate!DigestReportsWindow
  BY DEF Gate!IInv
<1>2. /\ gate_clock' = gate_clock /\ gate_digests' = gate_digests /\ gate_shown' = gate_shown /\ gate_hidden' = gate_hidden
      /\ gate_raised' = gate_raised /\ gate_stops' = gate_stops + 1 /\ gate_stops' \in 0..MaxStops /\ gate_stops' # 0
      /\ gate_up' = gate_up /\ e \in gate_up /\ gate_current' = gate_current /\ gate_ready' = gate_ready
      /\ gate_drained' = [gate_drained EXCEPT ![e] = <<>>]
  BY <1>1 DEF Gate!FlushFails, Gate!history, Gate!TypeOK, Gate!GateAssumption
<1>3. /\ Gate!TypeOK' /\ Gate!GateInv'
      /\ Gate!Drafts(e)' = Holding(gate_current[e], gate_ready[e], <<>>)
      /\ \A x \in Engine : x # e => Gate!Drafts(x)' = Gate!Drafts(x)
  <2> DEFINE c == gate_current[e]
             r == gate_ready[e]
             q == <<>>
  <2>1. /\ c \in Gate!Draft /\ r \in Seq(Gate!Draft) /\ q \in Seq(Gate!Draft) /\ (q # <<>> => r = <<>>)
        /\ c.window <= gate_clock /\ Gate!Increasing(r, c.window) /\ Gate!Increasing(q, c.window)
        /\ \A i \in 1..Len(r) : Gate!Total(r[i].suppressed) > 0
    BY <1>1 DEF Gate!TypeOK, Gate!GateInv, Gate!Increasing
  <2>2. gate_current' = [gate_current EXCEPT ![e] = c] /\ gate_ready' = [gate_ready EXCEPT ![e] = r]
    BY <1>1, <1>2 DEF Gate!TypeOK
  <2>3. /\ gate_digests' \in [Gate!Windows -> Gate!Digest] /\ gate_shown' \in [Gate!Windows -> Nat]
        /\ gate_hidden' \in [Gate!Windows -> Gate!Breakdown] /\ gate_raised' \in 0..MaxAlerts
    BY <1>1, <1>2 DEF Gate!TypeOK
  <2>4. e \in gate_up /\ gate_clock' = gate_clock /\ gate_up' = gate_up /\ gate_drained' = [gate_drained EXCEPT ![e] = q] /\ gate_stops' \in 0..MaxStops
    BY <1>2
  <2> HIDE DEF c, r, q
  <2>5. /\ Gate!TypeOK' /\ Gate!GateInv' /\ Gate!Drafts(e)' = Holding(c, r, q)
        /\ \A x \in Engine : x # e => Gate!Drafts(x)' = Gate!Drafts(x)
    BY <1>1, <2>1, <2>2, <2>3, <2>4, GateStep
  <2> QED  BY <2>5 DEF c, r, q
<1>4. Gate!Drafts(e)' \subseteq Gate!Drafts(e)
  BY <1>3, RangeEmpty DEF Gate!Drafts, Holding
<1>5. Gate!SumInv'
  <2>1. \A k, w : Gate!Held(k, Gate!Drafts(e), w)' <= Gate!Held(k, Gate!Drafts(e), w)
    BY <1>1, <1>4, GateDrafts, HeldLess
  <2>2. \A k, w : Gate!Held(k, Gate!Drafts(e), w) \in Nat /\ Gate!Held(k, Gate!Drafts(e), w)' \in Nat
    BY <1>1, <1>3, GateDrafts, NextDrafts, HeldType
  <2>3. \A k, w : Gate!Row(k, w)' = Gate!Row(k, w) /\ Gate!Happened(k, w)' = Gate!Happened(k, w)
    BY <1>2 DEF Gate!Row, Gate!Happened
  <2>4. \A k \in Kinds, w \in Gate!Windows : Gate!Row(k, w) \in Nat /\ Gate!Happened(k, w) \in Nat
    BY <1>1, CountTypes
  <2>5. \A k \in Kinds, w \in Gate!Windows :
          Gate!Row(k, w)' + Gate!Held(k, Gate!Drafts(e), w)' + Gate!Happened(k, w)
            <= Gate!Happened(k, w)' + Gate!Row(k, w) + Gate!Held(k, Gate!Drafts(e), w)
    <3> SUFFICES ASSUME NEW k \in Kinds, NEW w \in Gate!Windows
                 PROVE  Gate!Row(k, w) + Gate!Held(k, Gate!Drafts(e), w)' + Gate!Happened(k, w)
                          <= Gate!Happened(k, w) + Gate!Row(k, w) + Gate!Held(k, Gate!Drafts(e), w)
      BY <2>3
    <3> QED  BY <2>1, <2>2, <2>4
  <2> QED  BY <1>1, <1>2, <1>3, <2>5, SumStep
<1>6. Gate!CapInv'
  BY <1>1, <1>2, <1>3, <1>4 DEF Gate!CapInv
<1>7. Gate!OneGateInv' /\ Gate!DigestReportsWindow'
  BY <1>2 DEF Gate!OneGateInv, Gate!DigestReportsWindow
<1> QED  BY <1>3, <1>5, <1>6, <1>7 DEF Gate!IInv

(* A roll leaves drafts that agree with the history where they did before. *)
LEMMA RolledIsTrue ==
    ASSUME Gate!GateAssumption, Gate!TypeOK, Gate!GateInv, Gate!CapInv, NEW e \in Engine, gate_drained[e] = <<>>
    PROVE  \A d \in RolledDrafts(e) : d.delivered <= gate_shown[d.window]
<1>1. gate_clock \in Gate!Windows /\ gate_shown[gate_clock] \in Nat
  BY DEF Gate!TypeOK
<1>2. \A d \in RolledDrafts(e) : d \in Gate!Drafts(e) \/ (d = Gate!EmptyDraft(gate_clock) /\ gate_current[e].window < gate_clock)
  BY Rolling
<1>3. Gate!EmptyDraft(gate_clock).delivered = 0 /\ Gate!EmptyDraft(gate_clock).window = gate_clock
  BY <1>1, EmptyHeld
<1> QED  BY <1>1, <1>2, <1>3 DEF Gate!CapInv

LEMMA RolledIsExact ==
    ASSUME Gate!GateAssumption, Gate!TypeOK, Gate!GateInv, Gate!OneGateInv, NEW e \in Engine, gate_drained[e] = <<>>,
           gate_stops = 0, Engine = {e}
    PROVE  /\ \A d \in RolledDrafts(e) : /\ gate_digests[d.window] = Gate!NoDigest
                                        /\ d.delivered = gate_shown[d.window]
                                        /\ d.suppressed = gate_hidden[d.window]
           /\ \A w \in Gate!Windows : w > gate_clock => Gate!Untouched(w)
<1>1. gate_clock \in Gate!Windows /\ gate_clock \in Nat /\ gate_current[e].window \in Nat /\ gate_current[e].window <= gate_clock
  BY GateDrafts DEF Gate!TypeOK
<1>2. /\ \A d \in Gate!Drafts(e) : /\ gate_digests[d.window] = Gate!NoDigest
                              /\ d.delivered = gate_shown[d.window]
                              /\ d.suppressed = gate_hidden[d.window]
      /\ \A w \in Gate!Windows : w > gate_current[e].window => Gate!Untouched(w)
  BY DEF Gate!OneGateInv
<1>3. ASSUME NEW d \in RolledDrafts(e)
      PROVE  /\ gate_digests[d.window] = Gate!NoDigest
             /\ d.delivered = gate_shown[d.window]
             /\ d.suppressed = gate_hidden[d.window]
  <2>1. CASE d \in Gate!Drafts(e)
    BY <1>2, <2>1
  <2>2. CASE d = Gate!EmptyDraft(gate_clock) /\ gate_current[e].window < gate_clock
    <3>1. Gate!Untouched(gate_clock)
      BY <1>1, <1>2, <2>2
    <3>2. d.window = gate_clock /\ d.delivered = 0 /\ d.suppressed = Gate!Nothing
      BY <1>1, <2>2, EmptyHeld
    <3> QED  BY <3>1, <3>2 DEF Gate!Untouched
  <2> QED  BY <2>1, <2>2, Rolling
<1>4. ASSUME NEW w \in Gate!Windows, w > gate_clock PROVE Gate!Untouched(w)
  <2>1. w \in Nat
    BY DEF Gate!Windows
  <2>2. w > gate_current[e].window
    BY <1>1, <1>4, <2>1
  <2> QED  BY <1>2, <2>2
<1> QED  BY <1>3, <1>4

LEMMA DrainInv ==
    ASSUME Gate!GateAssumption, Gate!IInv, NEW e \in Engine, Gate!Drain(e)
    PROVE  Gate!IInv'
<1> DEFINE c == Gate!Rolled(e).now
           q == Gate!Rolled(e).closed
<1>1. Gate!TypeOK /\ Gate!GateInv /\ Gate!SumInv /\ Gate!CapInv /\ Gate!OneGateInv /\ Gate!DigestReportsWindow
  BY DEF Gate!IInv
<1>2. /\ gate_clock' = gate_clock /\ gate_digests' = gate_digests /\ gate_shown' = gate_shown /\ gate_hidden' = gate_hidden
      /\ gate_raised' = gate_raised /\ gate_stops' = gate_stops /\ gate_up' = gate_up /\ e \in gate_up /\ gate_drained[e] = <<>>
      /\ gate_current' = [gate_current EXCEPT ![e] = c] /\ gate_ready' = [gate_ready EXCEPT ![e] = <<>>]
      /\ gate_drained' = [gate_drained EXCEPT ![e] = q]
      /\ gate_clock \in Nat /\ gate_clock \in Gate!Windows
  BY <1>1 DEF Gate!Drain, Gate!Idle, Gate!history, Gate!TypeOK, Gate!Windows
<1>3. /\ c \in Gate!Draft /\ c.window = gate_clock /\ q \in Seq(Gate!Draft) /\ Gate!Increasing(q, gate_clock)
      /\ Distinct(RolledDrafts(e)) /\ RolledDrafts(e) = {c} \union Gate!Range(q)
      /\ \A d \in RolledDrafts(e) : d \in Gate!Drafts(e) \/ (d = Gate!EmptyDraft(gate_clock) /\ gate_current[e].window < gate_clock)
      /\ \A k, w : Gate!Held(k, RolledDrafts(e), w) <= Gate!Held(k, Gate!Drafts(e), w)
      /\ \A w : Gate!Held("hidden", RolledDrafts(e), w) = Gate!Held("hidden", Gate!Drafts(e), w)
  BY <1>1, <1>2, Rolling DEF RolledDrafts
<1> HIDE DEF c, q
<1>4. /\ Gate!TypeOK' /\ Gate!GateInv' /\ Gate!Drafts(e)' = RolledDrafts(e) /\ gate_current'[e] = c
      /\ \A x \in Engine : x # e => Gate!Drafts(x)' = Gate!Drafts(x)
  <2>1. <<>> \in Seq(Gate!Draft) /\ Gate!Increasing(<<>>, c.window) /\ Gate!Increasing(q, c.window) /\ c.window <= gate_clock
        /\ \A i \in 1..Len(<<>>) : Gate!Total(<<>>[i].suppressed) > 0
    BY <1>2, <1>3 DEF Gate!Increasing
  <2>2. /\ gate_digests' \in [Gate!Windows -> Gate!Digest] /\ gate_shown' \in [Gate!Windows -> Nat]
        /\ gate_hidden' \in [Gate!Windows -> Gate!Breakdown] /\ gate_raised' \in 0..MaxAlerts /\ gate_stops' \in 0..MaxStops
    BY <1>1, <1>2 DEF Gate!TypeOK
  <2>3. /\ Gate!TypeOK' /\ Gate!GateInv' /\ Gate!Drafts(e)' = Holding(c, <<>>, q) /\ gate_current'[e] = c
        /\ \A x \in Engine : x # e => Gate!Drafts(x)' = Gate!Drafts(x)
    BY <1>1, <1>2, <1>3, <2>1, <2>2, GateStep
  <2> QED  BY <1>3, <2>3, RangeEmpty DEF Holding
<1>5. Gate!SumInv'
  <2>1. \A k, w : /\ Gate!Held(k, Gate!Drafts(e), w)' <= Gate!Held(k, Gate!Drafts(e), w)
                  /\ Gate!Held("hidden", Gate!Drafts(e), w)' = Gate!Held("hidden", Gate!Drafts(e), w)
    BY <1>3, <1>4
  <2>2. \A k, w : Gate!Held(k, Gate!Drafts(e), w) \in Nat /\ Gate!Held(k, Gate!Drafts(e), w)' \in Nat
    BY <1>1, <1>4, GateDrafts, NextDrafts, HeldType
  <2>3. \A k, w : Gate!Row(k, w)' = Gate!Row(k, w) /\ Gate!Happened(k, w)' = Gate!Happened(k, w)
    BY <1>2 DEF Gate!Row, Gate!Happened
  <2>4. \A k \in Kinds, w \in Gate!Windows : Gate!Row(k, w) \in Nat /\ Gate!Happened(k, w) \in Nat
    BY <1>1, CountTypes
  <2>5. \A k \in Kinds, w \in Gate!Windows :
          Gate!Row(k, w)' + Gate!Held(k, Gate!Drafts(e), w)' + Gate!Happened(k, w)
            <= Gate!Happened(k, w)' + Gate!Row(k, w) + Gate!Held(k, Gate!Drafts(e), w)
    <3> SUFFICES ASSUME NEW k \in Kinds, NEW w \in Gate!Windows
                 PROVE  Gate!Row(k, w) + Gate!Held(k, Gate!Drafts(e), w)' + Gate!Happened(k, w)
                          <= Gate!Happened(k, w) + Gate!Row(k, w) + Gate!Held(k, Gate!Drafts(e), w)
      BY <2>3
    <3> QED  BY <2>1, <2>2, <2>4
  <2>6. "hidden" \in Kinds
    BY DEF Kinds
  <2>7. \A w \in Gate!Windows :
          Gate!Row("hidden", w)' + Gate!Held("hidden", Gate!Drafts(e), w)' + Gate!Happened("hidden", w)
            = Gate!Happened("hidden", w)' + Gate!Row("hidden", w) + Gate!Held("hidden", Gate!Drafts(e), w)
    <3> SUFFICES ASSUME NEW w \in Gate!Windows
                 PROVE  Gate!Row("hidden", w) + Gate!Held("hidden", Gate!Drafts(e), w) + Gate!Happened("hidden", w)
                          = Gate!Happened("hidden", w) + Gate!Row("hidden", w) + Gate!Held("hidden", Gate!Drafts(e), w)
      BY <2>1, <2>3
    <3> QED  BY <2>2, <2>4, <2>6
  <2> QED  BY <1>1, <1>2, <1>4, <2>5, <2>7, SumStep
<1>6. Gate!CapInv'
  <2>1. \A x \in Engine : x # e => \A d \in Gate!Drafts(x)' : d.delivered <= gate_shown'[d.window]
    BY <1>1, <1>2, <1>4 DEF Gate!CapInv
  <2>2. \A d \in Gate!Drafts(e)' : d.delivered <= gate_shown'[d.window]
    BY <1>1, <1>2, <1>4, RolledIsTrue
  <2> QED  BY <1>1, <1>2, <2>1, <2>2 DEF Gate!CapInv
<1>7. Gate!OneGateInv'
  <2> SUFFICES ASSUME gate_stops = 0, Engine = {e}
               PROVE  /\ \A d \in Gate!Drafts(e)' : /\ gate_digests'[d.window] = Gate!NoDigest
                                               /\ d.delivered = gate_shown'[d.window]
                                               /\ d.suppressed = gate_hidden'[d.window]
                      /\ \A w \in Gate!Windows : w > gate_current'[e].window => Gate!Untouched(w)'
    BY <1>2 DEF Gate!OneGateInv
  <2>1. /\ \A d \in RolledDrafts(e) : /\ gate_digests[d.window] = Gate!NoDigest
                                      /\ d.delivered = gate_shown[d.window]
                                      /\ d.suppressed = gate_hidden[d.window]
        /\ \A w \in Gate!Windows : w > gate_clock => Gate!Untouched(w)
    BY <1>1, <1>2, RolledIsExact
  <2> QED  BY <1>2, <1>3, <1>4, <2>1 DEF Gate!Untouched
<1>8. Gate!DigestReportsWindow'
  BY <1>1, <1>2 DEF Gate!DigestReportsWindow
<1> QED  BY <1>4, <1>5, <1>6, <1>7, <1>8 DEF Gate!IInv

LEMMA WriteDigestInv ==
    ASSUME Gate!GateAssumption, Gate!IInv, NEW e \in Engine, Gate!WriteDigest(e)
    PROVE  Gate!IInv'
<1> DEFINE c == gate_current[e]
           r == gate_ready[e]
           h == Head(gate_drained[e])
           q == Tail(gate_drained[e])
<1>1. Gate!TypeOK /\ Gate!GateInv /\ Gate!SumInv /\ Gate!CapInv /\ Gate!OneGateInv /\ Gate!DigestReportsWindow
  BY DEF Gate!IInv
<1>2. /\ gate_clock' = gate_clock /\ gate_shown' = gate_shown /\ gate_hidden' = gate_hidden
      /\ gate_raised' = gate_raised /\ gate_stops' = gate_stops /\ gate_up' = gate_up /\ e \in gate_up /\ gate_drained[e] # <<>>
      /\ gate_current' = [gate_current EXCEPT ![e] = c] /\ gate_ready' = [gate_ready EXCEPT ![e] = r]
      /\ gate_drained' = [gate_drained EXCEPT ![e] = q]
      /\ gate_digests' = [gate_digests EXCEPT ![h.window] = Gate!Merged(gate_digests[h.window], h)]
  BY <1>1 DEF Gate!WriteDigest, Gate!history, Gate!TypeOK
<1>3. /\ c \in Gate!Draft /\ c.window \in Nat /\ c.window <= gate_clock /\ r = <<>> /\ gate_drained[e] \in Seq(Gate!Draft)
      /\ Gate!Increasing(r, c.window) /\ Gate!Increasing(gate_drained[e], c.window)
  BY <1>1, <1>2, GateDrafts DEF Gate!TypeOK, Gate!GateInv
<1>4. /\ h = gate_drained[e][1] /\ h \in Gate!Draft /\ h \in Gate!Range(gate_drained[e])
      /\ q \in Seq(Gate!Draft) /\ Len(q) = Len(gate_drained[e]) - 1 /\ Len(gate_drained[e]) \in Nat \ {0}
      /\ \A i \in 1..(Len(gate_drained[e]) - 1) : q[i] = gate_drained[e][i + 1]
      /\ \A d \in Gate!Range(q) : \E i \in 2..Len(gate_drained[e]) : d = gate_drained[e][i]
      /\ Gate!Range(gate_drained[e]) = {h} \union Gate!Range(q)
  BY <1>2, <1>3, RangeTail
<1>5. Gate!Increasing(q, c.window)
  <2>1. \A i \in 1..Len(q) : i + 1 \in 1..Len(gate_drained[e]) /\ q[i] = gate_drained[e][i + 1]
    BY <1>4
  <2>2. \A i, j \in 1..Len(q) : i < j => i + 1 < j + 1
    BY <1>4
  <2> HIDE DEF q, c
  <2> QED  BY <1>3, <2>1, <2>2 DEF Gate!Increasing
<1>6. h.window \in Gate!Windows /\ h.window < c.window /\ \A d \in {c} \union Gate!Range(q) : d.window # h.window
  <2>1. \A d \in Gate!Draft : d.window \in Nat /\ d.window \in Gate!Windows
    BY DEF Gate!Draft, Gate!Windows
  <2>2. \A i \in 2..Len(gate_drained[e]) : h.window < gate_drained[e][i].window
    BY <1>3, <1>4 DEF Gate!Increasing
  <2>3. h.window < c.window
    BY <1>3, <1>4 DEF Gate!Increasing
  <2>4. ASSUME NEW d \in Gate!Range(q) PROVE d.window # h.window
    <3>1. PICK i \in 2..Len(gate_drained[e]) : d = gate_drained[e][i]
      BY <1>4
    <3>2. h.window < d.window /\ h.window \in Nat
      BY <1>4, <2>1, <2>2, <3>1
    <3> QED  BY <3>2
  <2>5. h.window \in Nat /\ h.window \in Gate!Windows
    BY <1>4, <2>1
  <2> HIDE DEF h, c, q
  <2>6. c.window # h.window
    BY <1>3, <2>3, <2>5
  <2> QED  BY <2>3, <2>4, <2>5, <2>6
<1>7. gate_digests[h.window] \in Gate!Digest /\ Gate!Merged(gate_digests[h.window], h) \in Gate!Digest /\ Gate!Total(h.suppressed) \in Nat
  <2>1. gate_digests[h.window] \in Gate!Digest
    BY <1>1, <1>6 DEF Gate!TypeOK
  <2>2. h.delivered \in Nat /\ h.suppressed \in Gate!Breakdown /\ Gate!Total(h.suppressed) \in Nat
    BY <1>4, GateTotals DEF Gate!Draft
  <2> HIDE DEF h
  <2> QED  BY <2>1, <2>2 DEF Gate!Merged, Gate!Digest
<1>8. \A w \in Gate!Windows : gate_digests'[w] = IF w = h.window THEN Gate!Merged(gate_digests[h.window], h) ELSE gate_digests[w]
  BY <1>1, <1>2 DEF Gate!TypeOK
<1>9. /\ Distinct(Gate!Drafts(e)) /\ Gate!Drafts(e) = {h} \union ({c} \union Gate!Range(q))
  <2>1. Gate!Range(r) = {}
    BY <1>3, RangeEmpty
  <2>2. Gate!Drafts(e) = {c} \union Gate!Range(r) \union Gate!Range(gate_drained[e])
    BY DEF Gate!Drafts
  <2>3. Distinct(Gate!Drafts(e))
    BY <1>1, GateDrafts
  <2> HIDE DEF c, r, h, q
  <2> QED  BY <1>4, <2>1, <2>2, <2>3
<1> HIDE DEF c, r, h, q
<1>10. /\ Gate!TypeOK' /\ Gate!GateInv' /\ Gate!Drafts(e)' = {c} \union Gate!Range(q) /\ gate_current'[e] = c
       /\ \A x \in Engine : x # e => Gate!Drafts(x)' = Gate!Drafts(x)
  <2>1. r \in Seq(Gate!Draft) /\ (q # <<>> => r = <<>>) /\ Gate!Range(r) = {}
        /\ \A i \in 1..Len(r) : Gate!Total(r[i].suppressed) > 0
    BY <1>3, RangeEmpty
  <2>2. gate_digests' \in [Gate!Windows -> Gate!Digest]
    BY <1>1, <1>2, <1>7 DEF Gate!TypeOK
  <2>3. /\ gate_shown' \in [Gate!Windows -> Nat] /\ gate_hidden' \in [Gate!Windows -> Gate!Breakdown]
        /\ gate_raised' \in 0..MaxAlerts /\ gate_stops' \in 0..MaxStops
    BY <1>1, <1>2 DEF Gate!TypeOK
  <2>4. /\ Gate!TypeOK' /\ Gate!GateInv' /\ Gate!Drafts(e)' = Holding(c, r, q) /\ gate_current'[e] = c
        /\ \A x \in Engine : x # e => Gate!Drafts(x)' = Gate!Drafts(x)
    BY <1>1, <1>2, <1>3, <1>4, <1>5, <2>1, <2>2, <2>3, GateStep
  <2> QED  BY <2>1, <2>4 DEF Holding
<1>11. Distinct(Gate!Drafts(e)')
  BY <1>10, NextDrafts
<1>12. Gate!SumInv'
  <2>1. ASSUME NEW k \in Kinds, NEW w \in Gate!Windows
        PROVE  /\ Gate!Row(k, w)' + Gate!Held(k, Gate!Drafts(e), w)' + Gate!Happened(k, w)
                    <= Gate!Happened(k, w)' + Gate!Row(k, w) + Gate!Held(k, Gate!Drafts(e), w)
               /\ Gate!Row(k, w)' + Gate!Held(k, Gate!Drafts(e), w)' + Gate!Happened(k, w)
                    = Gate!Happened(k, w)' + Gate!Row(k, w) + Gate!Held(k, Gate!Drafts(e), w)
    <3>1. Gate!Happened(k, w)' = Gate!Happened(k, w)
      BY <1>2 DEF Gate!Happened
    <3>2. Gate!Row(k, w) \in Nat /\ Gate!Happened(k, w) \in Nat /\ Gate!Held(k, Gate!Drafts(e), w) \in Nat
      BY <1>1, <1>9, CountTypes, HeldType
    <3>3. CASE w = h.window
      <4>1. Gate!Held(k, Gate!Drafts(e), w) = Gate!Told(h, k)
        BY <1>9, <3>3, HeldOne
      <4>2. Gate!Held(k, Gate!Drafts(e), w)' = 0
        BY <1>6, <1>10, <3>3, HeldNone
      <4>3. Gate!Row(k, w)' = Gate!Row(k, w) + Gate!Told(h, k)
        BY <1>8, <3>3 DEF Gate!Row, Gate!Told, Gate!Merged, Kinds
      <4> QED  BY <3>1, <3>2, <4>1, <4>2, <4>3
    <3>4. CASE w # h.window
      <4>1. Gate!Row(k, w)' = Gate!Row(k, w)
        BY <1>8, <3>4 DEF Gate!Row
      <4>2. Gate!Held(k, Gate!Drafts(e)', w) = Gate!Held(k, Gate!Drafts(e), w)
        <5>1. \A d \in Gate!Drafts(e) : d.window = w => d \in Gate!Drafts(e)'
          BY <1>9, <1>10, <3>4
        <5>2. \A d \in Gate!Drafts(e)' : d.window = w => d \in Gate!Drafts(e)
          BY <1>9, <1>10
        <5> QED  BY <1>9, <1>11, <5>1, <5>2, HeldSame
      <4> QED  BY <3>1, <3>2, <4>1, <4>2
    <3> QED  BY <3>3, <3>4
  <2>2. "hidden" \in Kinds
    BY DEF Kinds
  <2> QED  BY <1>1, <1>2, <1>10, <2>1, <2>2, SumStep
<1>13. Gate!CapInv'
  BY <1>1, <1>2, <1>9, <1>10 DEF Gate!CapInv
<1>14. ASSUME gate_stops = 0, Engine = {e}
       PROVE  /\ \A d \in Gate!Drafts(e) : /\ gate_digests[d.window] = Gate!NoDigest
                                      /\ d.delivered = gate_shown[d.window]
                                      /\ d.suppressed = gate_hidden[d.window]
              /\ \A w \in Gate!Windows : w > c.window => Gate!Untouched(w)
  BY <1>1, <1>14 DEF Gate!OneGateInv, c
<1>15. Gate!OneGateInv'
  <2> SUFFICES ASSUME gate_stops = 0, Engine = {e}
               PROVE  /\ \A d \in Gate!Drafts(e)' : /\ gate_digests'[d.window] = Gate!NoDigest
                                               /\ d.delivered = gate_shown'[d.window]
                                               /\ d.suppressed = gate_hidden'[d.window]
                      /\ \A w \in Gate!Windows : w > gate_current'[e].window => Gate!Untouched(w)'
    BY <1>2 DEF Gate!OneGateInv
  <2>1. \A d \in Gate!Drafts(e)' : d \in Gate!Drafts(e) /\ d.window \in Gate!Windows /\ d.window # h.window
    BY <1>6, <1>9, <1>10 DEF Distinct, Gate!Draft
  <2>2. \A d \in Gate!Drafts(e)' : gate_digests'[d.window] = gate_digests[d.window]
    BY <1>8, <2>1
  <2>3. \A w \in Gate!Windows : w > c.window => gate_digests'[w] = gate_digests[w]
    <3>1. \A w \in Gate!Windows : w \in Nat
      BY DEF Gate!Windows
    <3>2. \A w \in Gate!Windows : w > c.window => w # h.window
      BY <1>3, <1>6, <3>1
    <3> QED  BY <1>8, <3>2
  <2> QED  BY <1>2, <1>10, <1>14, <2>1, <2>2, <2>3 DEF Gate!Untouched
<1>16. Gate!DigestReportsWindow'
  <2> SUFFICES ASSUME gate_stops = 0, NEW x \in Engine, Engine = {x}, NEW w \in Gate!Windows, gate_digests'[w] # Gate!NoDigest
               PROVE  gate_digests'[w] = [delivered |-> gate_shown[w], suppressed |-> Gate!Total(gate_hidden[w]),
                                     bySeverity |-> gate_hidden[w]]
    BY <1>2 DEF Gate!DigestReportsWindow
  <2>1. CASE w = h.window
    <3>1. gate_digests[w] = Gate!NoDigest /\ h.delivered = gate_shown[w] /\ h.suppressed = gate_hidden[w]
      BY <1>9, <1>14, <2>1
    <3>2. gate_digests'[w] = [delivered |-> 0 + gate_shown[w], suppressed |-> 0 + Gate!Total(gate_hidden[w]), bySeverity |-> gate_hidden[w]]
      BY <1>8, <2>1, <3>1 DEF Gate!Merged, Gate!NoDigest
    <3>3. gate_shown[w] \in Nat /\ Gate!Total(gate_hidden[w]) \in Nat
      BY <1>1, <1>7, <2>1, <3>1 DEF Gate!TypeOK
    <3> QED  BY <3>2, <3>3
  <2>2. CASE w # h.window
    BY <1>1, <1>8, <2>2 DEF Gate!DigestReportsWindow
  <2> QED  BY <2>1, <2>2
<1> QED  BY <1>10, <1>12, <1>13, <1>15, <1>16 DEF Gate!IInv

(* An alert: the rolled draft counts it, as shown below the cap and as     *)
(* hidden above it. *)
LEMMA AdmitInv ==
    ASSUME Gate!GateAssumption, Gate!IInv, NEW e \in Engine, NEW s \in Severity, Gate!Admit(e, s)
    PROVE  Gate!IInv'
<1> DEFINE b == Gate!Rolled(e).now
           r == Gate!Rolled(e).closed
           more == [b.suppressed EXCEPT ![s] = @ + 1]
           c == IF b.delivered < Cap THEN [b EXCEPT !.delivered = @ + 1]
                                     ELSE [b EXCEPT !.suppressed = more]
           q == <<>>
<1>1. Gate!TypeOK /\ Gate!GateInv /\ Gate!SumInv /\ Gate!CapInv /\ Gate!OneGateInv /\ Gate!DigestReportsWindow /\ Cap \in Nat \ {0}
  BY DEF Gate!IInv, Gate!GateAssumption
<1>2. /\ gate_clock \in Nat /\ gate_clock \in Gate!Windows /\ e \in gate_up /\ gate_drained[e] = <<>>
      /\ b \in Gate!Draft /\ b.window = gate_clock /\ r \in Seq(Gate!Draft) /\ Gate!Increasing(r, gate_clock)
      /\ \A i \in 1..Len(r) : Gate!Total(r[i].suppressed) > 0
      /\ Distinct(RolledDrafts(e)) /\ RolledDrafts(e) = {b} \union Gate!Range(r)
      /\ \A d \in Gate!Range(r) : d \in Gate!Draft /\ d.window < gate_clock
      /\ \A k, w : Gate!Held(k, RolledDrafts(e), w) <= Gate!Held(k, Gate!Drafts(e), w)
      /\ \A w : Gate!Held("hidden", RolledDrafts(e), w) = Gate!Held("hidden", Gate!Drafts(e), w)
  <2>1. e \in gate_up /\ gate_drained[e] = <<>> /\ gate_clock \in Gate!Windows /\ gate_clock \in Nat
    BY <1>1 DEF Gate!Admit, Gate!Idle, Gate!TypeOK, Gate!Windows
  <2> QED  BY <1>1, <2>1, Rolling DEF RolledDrafts
<1>3. /\ b.window \in Gate!Windows /\ b.delivered \in Nat /\ b.suppressed \in Gate!Breakdown
      /\ b = [window |-> b.window, delivered |-> b.delivered, suppressed |-> b.suppressed]
  BY <1>2 DEF Gate!Draft
<1>4. more \in Gate!Breakdown /\ Gate!Total(more) = Gate!Total(b.suppressed) + 1 /\ Gate!Total(b.suppressed) \in Nat
  BY <1>3, GateOneMore, GateTotals
<1>5. /\ gate_clock' = gate_clock /\ gate_digests' = gate_digests /\ gate_stops' = gate_stops /\ gate_up' = gate_up
      /\ gate_raised' \in 0..MaxAlerts
      /\ gate_ready' = [gate_ready EXCEPT ![e] = r] /\ gate_drained' = [gate_drained EXCEPT ![e] = q]
  <2>1. gate_drained' = gate_drained
    BY DEF Gate!Admit
  <2>2. gate_drained' = [gate_drained EXCEPT ![e] = q]
    BY <1>1, <1>2, <2>1 DEF Gate!TypeOK
  <2>3. gate_raised' \in 0..MaxAlerts
    BY <1>1 DEF Gate!Admit, Gate!TypeOK, Gate!GateAssumption
  <2> QED  BY <2>2, <2>3 DEF Gate!Admit
<1>6. IF b.delivered < Cap
        THEN /\ gate_current' = [gate_current EXCEPT ![e] = [b EXCEPT !.delivered = @ + 1]]
             /\ gate_shown' = [gate_shown EXCEPT ![gate_clock] = @ + 1] /\ gate_hidden' = gate_hidden
        ELSE /\ gate_current' = [gate_current EXCEPT ![e] = [b EXCEPT !.suppressed[s] = @ + 1]]
             /\ gate_hidden' = [gate_hidden EXCEPT ![gate_clock][s] = @ + 1] /\ gate_shown' = gate_shown
  BY DEF Gate!Admit
<1>7. [b EXCEPT !.suppressed[s] = @ + 1] = [b EXCEPT !.suppressed = more]
  OBVIOUS
<1>8. gate_current' = [gate_current EXCEPT ![e] = c]
  BY <1>6, <1>7
<1> HIDE DEF b, r, more, q
<1>9. /\ c \in Gate!Draft /\ c.window = gate_clock
      /\ c.delivered = IF b.delivered < Cap THEN b.delivered + 1 ELSE b.delivered
      /\ c.suppressed = IF b.delivered < Cap THEN b.suppressed ELSE more
  <2>1. CASE b.delivered < Cap
    <3>1. c = [window |-> b.window, delivered |-> b.delivered + 1, suppressed |-> b.suppressed]
      BY <1>3, <2>1
    <3> QED  BY <1>2, <1>3, <2>1, <3>1 DEF Gate!Draft
  <2>2. CASE ~ (b.delivered < Cap)
    <3>1. c = [window |-> b.window, delivered |-> b.delivered, suppressed |-> more]
      BY <1>3, <2>2
    <3> QED  BY <1>2, <1>3, <1>4, <2>2, <3>1 DEF Gate!Draft
  <2> QED  BY <2>1, <2>2
<1> HIDE DEF c
<1>10. /\ \A w \in Gate!Windows : gate_shown[w] \in Nat /\ gate_hidden[w] \in Gate!Breakdown
       /\ \A w \in Gate!Windows : gate_shown'[w] = IF w = gate_clock /\ b.delivered < Cap THEN gate_shown[w] + 1 ELSE gate_shown[w]
       /\ \A w \in Gate!Windows : w # gate_clock => gate_hidden'[w] = gate_hidden[w]
       /\ gate_hidden'[gate_clock] = IF b.delivered < Cap THEN gate_hidden[gate_clock]
                           ELSE [gate_hidden[gate_clock] EXCEPT ![s] = @ + 1]
       /\ gate_hidden'[gate_clock] \in Gate!Breakdown
       /\ gate_shown' \in [Gate!Windows -> Nat] /\ gate_hidden' \in [Gate!Windows -> Gate!Breakdown]
  <2>1. gate_hidden[gate_clock] \in Gate!Breakdown /\ [gate_hidden[gate_clock] EXCEPT ![s] = @ + 1] \in Gate!Breakdown
    BY <1>1, <1>2, GateOneMore DEF Gate!TypeOK
  <2>2. CASE b.delivered < Cap
    <3>1. gate_shown' = [gate_shown EXCEPT ![gate_clock] = @ + 1] /\ gate_hidden' = gate_hidden
      BY <1>6, <2>2
    <3>2. gate_shown \in [Gate!Windows -> Nat] /\ gate_hidden \in [Gate!Windows -> Gate!Breakdown]
      BY <1>1 DEF Gate!TypeOK
    <3>3. \A w \in Gate!Windows : gate_shown'[w] = IF w = gate_clock THEN gate_shown[w] + 1 ELSE gate_shown[w]
      BY <3>1, <3>2
    <3>4. gate_shown' \in [Gate!Windows -> Nat]
      BY <1>2, <3>1, <3>2
    <3> QED  BY <1>2, <2>1, <2>2, <3>1, <3>2, <3>3, <3>4
  <2>3. CASE ~ (b.delivered < Cap)
    <3>1. gate_hidden' = [gate_hidden EXCEPT ![gate_clock] = [gate_hidden[gate_clock] EXCEPT ![s] = @ + 1]]
      BY <1>6, <2>3
    <3> QED  BY <1>1, <1>2, <1>6, <2>1, <2>3, <3>1 DEF Gate!TypeOK
  <2> QED  BY <2>2, <2>3
<1>11. q \in Seq(Gate!Draft) /\ Gate!Increasing(q, c.window) /\ Gate!Range(q) = {} /\ q = <<>>
  BY RangeEmpty DEF q, Gate!Increasing
<1>12. /\ Gate!TypeOK' /\ Gate!GateInv' /\ Gate!Drafts(e)' = {c} \union Gate!Range(r) /\ gate_current'[e] = c
       /\ \A x \in Engine : x # e => Gate!Drafts(x)' = Gate!Drafts(x)
  <2>1. c.window <= gate_clock /\ Gate!Increasing(r, c.window) /\ (q # <<>> => r = <<>>)
    BY <1>2, <1>9, <1>11
  <2>2. gate_digests' \in [Gate!Windows -> Gate!Digest] /\ gate_stops' \in 0..MaxStops
    BY <1>1, <1>5 DEF Gate!TypeOK
  <2>3. /\ Gate!TypeOK' /\ Gate!GateInv' /\ Gate!Drafts(e)' = Holding(c, r, q) /\ gate_current'[e] = c
        /\ \A x \in Engine : x # e => Gate!Drafts(x)' = Gate!Drafts(x)
    <3>1. /\ Gate!TypeOK /\ Gate!GateInv /\ e \in gate_up /\ c \in Gate!Draft /\ r \in Seq(Gate!Draft) /\ q \in Seq(Gate!Draft)
          /\ Gate!Increasing(q, c.window) /\ gate_clock' = gate_clock /\ gate_up' = gate_up
          /\ \A i \in 1..Len(r) : Gate!Total(r[i].suppressed) > 0
      BY <1>1, <1>2, <1>5, <1>9, <1>11
    <3>2. /\ gate_ready' = [gate_ready EXCEPT ![e] = r] /\ gate_drained' = [gate_drained EXCEPT ![e] = q]
          /\ gate_raised' \in 0..MaxAlerts /\ gate_shown' \in [Gate!Windows -> Nat] /\ gate_hidden' \in [Gate!Windows -> Gate!Breakdown]
      BY <1>5, <1>10
    <3> QED  BY <1>8, <2>1, <2>2, <3>1, <3>2, GateStep
  <2> QED  BY <1>11, <2>3 DEF Holding
<1>13. Distinct(Gate!Drafts(e)')
  BY <1>12, NextDrafts
<1>14. \A d \in Gate!Range(r) : d.window # gate_clock /\ d.window \in Gate!Windows
  <2>1. \A d \in Gate!Draft : d.window \in Nat /\ d.window \in Gate!Windows
    BY DEF Gate!Draft, Gate!Windows
  <2>2. ASSUME NEW d \in Gate!Range(r) PROVE d.window # gate_clock /\ d.window \in Gate!Windows
    <3>1. d \in Gate!Draft /\ d.window < gate_clock
      BY <1>2
    <3>2. d.window \in Nat /\ d.window \in Gate!Windows
      BY <2>1, <3>1
    <3> QED  BY <1>2, <3>1, <3>2
  <2> QED  BY <2>2
<1>15. ASSUME NEW k \in Kinds, NEW w \in Gate!Windows
       PROVE  Gate!Held(k, Gate!Drafts(e)', w) + Gate!Happened(k, w) = Gate!Happened(k, w)' + Gate!Held(k, RolledDrafts(e), w)
  <2>0. /\ Gate!Happened(k, w) \in Nat /\ Gate!Held(k, RolledDrafts(e), w) \in Nat
    BY <1>1, <1>2, CountTypes, HeldType
  <2>1. CASE w = gate_clock
    <3>1. Gate!Held(k, RolledDrafts(e), w) = Gate!Told(b, k) /\ Gate!Held(k, Gate!Drafts(e)', w) = Gate!Told(c, k)
      <4>1. b \in RolledDrafts(e) /\ c \in Gate!Drafts(e)'
        BY <1>2, <1>12
      <4> QED  BY <1>2, <1>9, <1>13, <2>1, <4>1, HeldOne
    <3>2. CASE k = "shown"
      <4>1. Gate!Told(b, k) = b.delivered /\ Gate!Told(c, k) = c.delivered
        BY <3>2 DEF Gate!Told
      <4>2. Gate!Happened(k, w) = gate_shown[w] /\ Gate!Happened(k, w)' = gate_shown'[w]
        BY <3>2 DEF Gate!Happened
      <4> QED  BY <1>3, <1>9, <1>10, <2>1, <3>1, <4>1, <4>2
    <3>3. CASE k = "hidden"
      <4>1. Gate!Told(b, k) = Gate!Total(b.suppressed) /\ Gate!Told(c, k) = Gate!Total(c.suppressed)
        BY <3>3 DEF Gate!Told
      <4>2. Gate!Happened(k, w) = Gate!Total(gate_hidden[w]) /\ Gate!Happened(k, w)' = Gate!Total(gate_hidden'[w])
        BY <3>3 DEF Gate!Happened
      <4>3. CASE b.delivered < Cap
        BY <1>4, <1>9, <1>10, <2>0, <2>1, <3>1, <4>1, <4>2, <4>3
      <4>4. CASE ~ (b.delivered < Cap)
        <5>1. Gate!Total(gate_hidden'[w]) = Gate!Total(gate_hidden[w]) + 1
          <6>1. gate_hidden'[gate_clock] = [gate_hidden[gate_clock] EXCEPT ![s] = @ + 1] /\ gate_hidden[gate_clock] \in Gate!Breakdown
            BY <1>2, <1>10, <4>4
          <6> QED  BY <2>1, <6>1, GateOneMore
        <5>2. Gate!Total(c.suppressed) = Gate!Total(b.suppressed) + 1
          BY <1>4, <1>9, <4>4
        <5> QED  BY <1>4, <2>0, <3>1, <4>1, <4>2, <5>1, <5>2
      <4> QED  BY <4>3, <4>4
    <3> QED  BY <3>2, <3>3 DEF Kinds
  <2>2. CASE w # gate_clock
    <3>1. Gate!Happened(k, w)' = Gate!Happened(k, w)
      BY <1>10, <2>2 DEF Gate!Happened
    <3>2. Gate!Held(k, Gate!Drafts(e)', w) = Gate!Held(k, RolledDrafts(e), w)
      <4>1. \A d \in RolledDrafts(e) : d.window = w => d \in Gate!Drafts(e)'
        BY <1>2, <1>12, <2>2
      <4>2. \A d \in Gate!Drafts(e)' : d.window = w => d \in RolledDrafts(e)
        BY <1>2, <1>9, <1>12, <2>2
      <4> QED  BY <1>2, <1>13, <4>1, <4>2, HeldSame
    <3> QED  BY <2>0, <3>1, <3>2
  <2> QED  BY <2>1, <2>2
<1>16. Gate!SumInv'
  <2>1. \A k, w : Gate!Row(k, w)' = Gate!Row(k, w)
    BY <1>5 DEF Gate!Row
  <2>2. \A k, w : /\ Gate!Held(k, Gate!Drafts(e), w) \in Nat /\ Gate!Held(k, RolledDrafts(e), w) \in Nat
                  /\ Gate!Held(k, Gate!Drafts(e)', w) \in Nat
    BY <1>1, <1>2, <1>13, GateDrafts, HeldType
  <2>3. \A k \in Kinds, w \in Gate!Windows : Gate!Row(k, w) \in Nat /\ Gate!Happened(k, w) \in Nat /\ Gate!Happened(k, w)' \in Nat
    BY <1>1, <1>12, CountTypes, NextCountTypes
  <2>4. ASSUME NEW k \in Kinds, NEW w \in Gate!Windows
        PROVE  /\ Gate!Row(k, w)' + Gate!Held(k, Gate!Drafts(e), w)' + Gate!Happened(k, w)
                    <= Gate!Happened(k, w)' + Gate!Row(k, w) + Gate!Held(k, Gate!Drafts(e), w)
               /\ k = "hidden" => Gate!Row(k, w)' + Gate!Held(k, Gate!Drafts(e), w)' + Gate!Happened(k, w)
                                    = Gate!Happened(k, w)' + Gate!Row(k, w) + Gate!Held(k, Gate!Drafts(e), w)
    <3> DEFINE h0 == Gate!Held(k, Gate!Drafts(e), w)
               h1 == Gate!Held(k, RolledDrafts(e), w)
               h2 == Gate!Held(k, Gate!Drafts(e)', w)
               d0 == Gate!Row(k, w)
               t0 == Gate!Happened(k, w)
               t1 == Gate!Happened(k, w)'
    <3>1. /\ h0 \in Nat /\ h1 \in Nat /\ h2 \in Nat /\ d0 \in Nat /\ t0 \in Nat /\ t1 \in Nat
          /\ h2 + t0 = t1 + h1 /\ h1 <= h0 /\ (k = "hidden" => h1 = h0)
      BY <1>2, <1>15, <2>2, <2>3
    <3>2. Gate!Row(k, w)' = d0 /\ Gate!Held(k, Gate!Drafts(e), w)' = h2
      BY <2>1
    <3> HIDE DEF h0, h1, h2, d0, t0, t1
    <3>3. d0 + h2 + t0 <= t1 + d0 + h0
      BY <3>1
    <3>4. k = "hidden" => d0 + h2 + t0 = t1 + d0 + h0
      BY <3>1
    <3> QED  BY <3>2, <3>3, <3>4 DEF h0, h2, d0, t0, t1
  <2>5. "hidden" \in Kinds
    BY DEF Kinds
  <2> QED  BY <1>1, <1>5, <1>12, <2>4, <2>5, SumStep
<1>17. \A d \in RolledDrafts(e) : d.delivered <= gate_shown[d.window]
  BY <1>1, <1>2, RolledIsTrue
<1>18. Gate!CapInv'
  <2>0. \A w \in Gate!Windows : gate_shown[w] \in Nat /\ gate_shown'[w] \in Nat /\ gate_shown[w] <= gate_shown'[w]
    BY <1>10
  <2>t. \A d \in Gate!Draft : d.delivered \in Nat /\ d.window \in Gate!Windows
    BY DEF Gate!Draft
  <2>1. ASSUME NEW d \in Gate!Draft, d.delivered <= gate_shown[d.window] PROVE d.delivered <= gate_shown'[d.window]
    BY <2>0, <2>t, <2>1
  <2>2. ASSUME NEW x \in Engine, NEW d \in Gate!Drafts(x)' PROVE d.delivered <= gate_shown'[d.window]
    <3>1. CASE x # e
      <4>1. d \in Gate!Drafts(x) /\ d \in Gate!Draft
        BY <1>1, <1>12, <2>2, <3>1, GateDrafts
      <4> QED  BY <1>1, <2>1, <4>1 DEF Gate!CapInv
    <3>2. CASE x = e /\ d \in Gate!Range(r)
      BY <1>2, <1>17, <2>1, <3>2
    <3>3. CASE x = e /\ d = c
      <4>1. b.delivered <= gate_shown[gate_clock]
        BY <1>2, <1>17
      <4>2. gate_shown'[gate_clock] = IF b.delivered < Cap THEN gate_shown[gate_clock] + 1 ELSE gate_shown[gate_clock]
        BY <1>2, <1>10
      <4>3. gate_shown[gate_clock] \in Nat
        BY <1>2, <1>10
      <4>4. c.delivered <= gate_shown'[gate_clock]
        BY <1>3, <1>9, <4>1, <4>2, <4>3
      <4> QED  BY <1>9, <3>3, <4>4
    <3> QED  BY <1>12, <2>2, <3>1, <3>2, <3>3
  <2>3. ASSUME NEW w \in Gate!Windows, gate_hidden'[w] # Gate!Nothing PROVE gate_shown'[w] >= Cap
    <3>1. CASE gate_hidden[w] # Gate!Nothing
      <4>1. gate_shown[w] >= Cap
        BY <1>1, <3>1 DEF Gate!CapInv
      <4> QED  BY <1>1, <2>0, <4>1
    <3>2. CASE gate_hidden[w] = Gate!Nothing
      <4>1. w = gate_clock /\ ~ (b.delivered < Cap)
        BY <1>10, <2>3, <3>2
      <4>2. b.delivered <= gate_shown[w]
        BY <1>2, <1>17, <4>1
      <4>3. gate_shown[w] >= Cap
        BY <1>1, <1>3, <2>0, <4>1, <4>2
      <4> QED  BY <1>1, <2>0, <4>3
    <3> QED  BY <3>1, <3>2
  <2> QED  BY <2>2, <2>3 DEF Gate!CapInv
<1>19. Gate!OneGateInv' /\ Gate!DigestReportsWindow'
  <2> SUFFICES ASSUME gate_stops = 0, Engine = {e}
               PROVE  /\ \A d \in Gate!Drafts(e)' : /\ gate_digests'[d.window] = Gate!NoDigest
                                               /\ d.delivered = gate_shown'[d.window]
                                               /\ d.suppressed = gate_hidden'[d.window]
                      /\ \A w \in Gate!Windows : w > gate_current'[e].window => Gate!Untouched(w)'
                      /\ Gate!DigestReportsWindow'
    <3>1. \A x \in Engine : Engine = {x} => x = e
      OBVIOUS
    <3>2. e \in gate_up'
      BY <1>2, <1>5
    <3> QED  BY <1>5, <3>1, <3>2 DEF Gate!OneGateInv, Gate!DigestReportsWindow
  <2>1. /\ \A d \in RolledDrafts(e) : /\ gate_digests[d.window] = Gate!NoDigest
                                      /\ d.delivered = gate_shown[d.window]
                                      /\ d.suppressed = gate_hidden[d.window]
        /\ \A w \in Gate!Windows : w > gate_clock => Gate!Untouched(w)
    BY <1>1, <1>2, RolledIsExact
  <2>2. \A w \in Gate!Windows : w # gate_clock => gate_shown'[w] = gate_shown[w] /\ gate_hidden'[w] = gate_hidden[w]
    BY <1>10
  <2>3. gate_digests[gate_clock] = Gate!NoDigest /\ b.delivered = gate_shown[gate_clock] /\ b.suppressed = gate_hidden[gate_clock]
    BY <1>2, <2>1
  <2>4. c.delivered = gate_shown'[gate_clock] /\ c.suppressed = gate_hidden'[gate_clock]
    <3>1. more = [gate_hidden[gate_clock] EXCEPT ![s] = @ + 1]
      BY <2>3 DEF more
    <3> QED  BY <1>2, <1>9, <1>10, <2>3, <3>1
  <2>5. ASSUME NEW d \in Gate!Drafts(e)'
        PROVE  /\ gate_digests'[d.window] = Gate!NoDigest
               /\ d.delivered = gate_shown'[d.window]
               /\ d.suppressed = gate_hidden'[d.window]
    <3>1. CASE d = c
      BY <1>5, <1>9, <2>3, <2>4, <3>1
    <3>2. CASE d \in Gate!Range(r)
      <4>1. d \in RolledDrafts(e) /\ d.window # gate_clock /\ d.window \in Gate!Windows
        BY <1>2, <1>14, <3>2
      <4> QED  BY <1>5, <2>1, <2>2, <4>1
    <3> QED  BY <1>12, <3>1, <3>2
  <2>6. ASSUME NEW w \in Gate!Windows, w > gate_current'[e].window PROVE Gate!Untouched(w)'
    <3>1. w > gate_clock /\ w \in Nat
      BY <1>9, <1>12, <2>6 DEF Gate!Windows
    <3>2. w # gate_clock
      BY <1>2, <3>1
    <3> QED  BY <1>5, <2>1, <2>2, <3>1, <3>2 DEF Gate!Untouched
  <2>7. ASSUME NEW w \in Gate!Windows, gate_digests'[w] # Gate!NoDigest
        PROVE  gate_digests'[w] = [delivered |-> gate_shown'[w], suppressed |-> Gate!Total(gate_hidden'[w]),
                              bySeverity |-> gate_hidden'[w]]
    <3>1. w # gate_clock
      BY <1>5, <2>3, <2>7
    <3>2. gate_digests[w] = [delivered |-> gate_shown[w], suppressed |-> Gate!Total(gate_hidden[w]), bySeverity |-> gate_hidden[w]]
      BY <1>1, <1>5, <2>7 DEF Gate!DigestReportsWindow
    <3> QED  BY <1>5, <2>2, <3>1, <3>2
  <2> QED  BY <2>5, <2>6, <2>7 DEF Gate!DigestReportsWindow
<1> QED  BY <1>12, <1>16, <1>18, <1>19 DEF Gate!IInv

LEMMA GateInit ==
    ASSUME Gate!GateAssumption, Gate!Init
    PROVE  Gate!IInv
<1>1. 0 \in Gate!Windows /\ 0 \in 0..MaxAlerts /\ 0 \in 0..MaxStops /\ IsFiniteSet(Engine) /\ Cap \in Nat \ {0}
  BY GateFinite DEF Gate!GateAssumption, Gate!Windows
<1>2. /\ gate_clock = 0 /\ gate_raised = 0 /\ gate_stops = 0 /\ gate_up = {}
      /\ gate_current = [e \in Engine |-> Gate!EmptyDraft(0)]
      /\ gate_ready = [e \in Engine |-> <<>>] /\ gate_drained = [e \in Engine |-> <<>>]
      /\ gate_digests = [w \in Gate!Windows |-> Gate!NoDigest]
      /\ gate_shown = [w \in Gate!Windows |-> 0] /\ gate_hidden = [w \in Gate!Windows |-> Gate!Nothing]
  BY DEF Gate!Init
<1>3. Gate!EmptyDraft(0) \in Gate!Draft /\ Gate!EmptyDraft(0).window = 0 /\ <<>> \in Seq(Gate!Draft) /\ Len(<<>>) = 0
  <2>1. Gate!EmptyDraft(0) \in Gate!Draft /\ Gate!EmptyDraft(0).window = 0
    BY <1>1, EmptyHeld
  <2> QED  BY <2>1
<1>4. Gate!NoDigest \in Gate!Digest /\ Gate!Nothing \in Gate!Breakdown /\ Gate!Total(Gate!Nothing) = 0
  BY GateTotals DEF Gate!NoDigest, Gate!Digest
<1>5. Gate!TypeOK
  BY <1>1, <1>2, <1>3, <1>4 DEF Gate!TypeOK
<1>6. Gate!GateInv
  BY <1>2, <1>3 DEF Gate!GateInv, Gate!Increasing
<1>7. \A e \in Engine : Gate!Drafts(e) = {Gate!EmptyDraft(0)}
  BY <1>2, RangeEmpty DEF Gate!Drafts
<1>8. \A k, w : Gate!Remembered(k, w) = 0
  <2> SUFFICES ASSUME NEW k, NEW w PROVE Gate!Remembered(k, w) = 0
    OBVIOUS
  <2> DEFINE f == [e \in Engine |-> Gate!Held(k, Gate!Drafts(e), w)]
  <2>1. Gate!Held(k, {Gate!EmptyDraft(0)}, w) = 0
    BY <1>1, EmptyHeld
  <2>2. \A e \in Engine : f[e] = 0
    BY <1>7, <2>1
  <2> HIDE DEF f
  <2>3. SumFunctionOnSet(f, Engine) = 0
    BY <1>1, <2>2, SumZero
  <2> QED  BY <2>3, GateSum DEF Gate!Remembered, f
<1>9. Gate!SumInv
  <2>1. \A k \in {"shown", "hidden"}, w \in Gate!Windows : Gate!Row(k, w) = 0 /\ Gate!Happened(k, w) = 0
    BY <1>2, <1>4 DEF Gate!Row, Gate!Happened, Gate!NoDigest
  <2> QED  BY <1>8, <2>1 DEF Gate!SumInv
<1>10. Gate!CapInv
  <2>1. Gate!EmptyDraft(0).delivered = 0
    BY <1>1, EmptyHeld
  <2> QED  BY <1>1, <1>2, <1>3, <1>7, <2>1 DEF Gate!CapInv
<1>11. Gate!OneGateInv
  <2>1. \A w \in Gate!Windows : Gate!Untouched(w)
    BY <1>2 DEF Gate!Untouched
  <2>2. Gate!EmptyDraft(0).delivered = 0 /\ Gate!EmptyDraft(0).suppressed = Gate!Nothing
    BY <1>1, EmptyHeld
  <2> QED  BY <1>1, <1>3, <1>7, <2>1, <2>2 DEF Gate!OneGateInv, Gate!Untouched
<1>12. Gate!DigestReportsWindow
  BY <1>2 DEF Gate!DigestReportsWindow
<1> QED  BY <1>5, <1>6, <1>9, <1>10, <1>11, <1>12 DEF Gate!IInv

LEMMA GateKept ==
    ASSUME Gate!GateAssumption, Gate!IInv, [Gate!Next]_(Gate!vars)
    PROVE  Gate!IInv'
<1>1. CASE UNCHANGED Gate!vars
  <2>1. /\ gate_clock' = gate_clock /\ gate_current' = gate_current /\ gate_ready' = gate_ready /\ gate_drained' = gate_drained
        /\ gate_up' = gate_up /\ gate_digests' = gate_digests /\ gate_shown' = gate_shown /\ gate_hidden' = gate_hidden
        /\ gate_raised' = gate_raised /\ gate_stops' = gate_stops
    BY <1>1 DEF Gate!vars, Gate!gates, Gate!history
  <2>2. \A e \in Engine : Gate!Drafts(e)' = Gate!Drafts(e)
    BY <2>1 DEF Gate!Drafts
  <2>3. \A k, w : Gate!Remembered(k, w)' = Gate!Remembered(k, w)
    BY <2>2, Unchanged
  <2>4. Gate!TypeOK' /\ Gate!GateInv'
    BY <2>1 DEF Gate!IInv, Gate!TypeOK, Gate!GateInv
  <2>5. Gate!SumInv'
    BY <2>1, <2>3 DEF Gate!IInv, Gate!SumInv, Gate!Row, Gate!Happened
  <2>6. Gate!CapInv' /\ Gate!OneGateInv' /\ Gate!DigestReportsWindow'
    BY <2>1, <2>2 DEF Gate!IInv, Gate!CapInv, Gate!OneGateInv, Gate!Untouched, Gate!DigestReportsWindow
  <2> QED  BY <2>4, <2>5, <2>6 DEF Gate!IInv
<1> QED
  BY <1>1, TickInv, StartInv, DrainInv, WriteDigestInv, FlushFailsInv, StopInv, AdmitInv DEF Gate!Next

(* For any number of gates: one draft per window in each of them, and the  *)
(* rows and drafts together never tell more than what happened.            *)
THEOREM GateInvariance == ASSUME Gate!GateAssumption PROVE Gate!Spec => []Gate!IInv
<1>1. Gate!GateAssumption /\ Gate!Init => Gate!IInv
  BY GateInit
<1>2. Gate!GateAssumption /\ Gate!IInv /\ [Gate!Next]_(Gate!vars) => Gate!IInv'
  BY GateKept
<1> QED  BY <1>1, <1>2, PTL DEF Gate!Spec

(* A digest is honest (flush and the upsert of alert_digests): without a   *)
(* stop nothing suppressed is missing, a lone gate tells its window        *)
(* exactly, and whatever fails no row claims more than happened.           *)
THEOREM GateHonest == ASSUME Gate!GateAssumption PROVE Gate!Spec => []Gate!DigestsAreHonest
<1>1. ASSUME Gate!IInv PROVE Gate!DigestsAreHonest
  <2>1. Gate!SuppressedIsAccountedFor
    BY <1>1 DEF Gate!IInv, Gate!SumInv, Gate!Row, Gate!Happened, Gate!SuppressedIsAccountedFor, Gate!NothingIsDropped
  <2>2. Gate!DigestNeverOverstates
    <3>1. \A k, w : Gate!Remembered(k, w) \in Nat
      <4> SUFFICES ASSUME NEW k, NEW w PROVE Gate!Remembered(k, w) \in Nat
        OBVIOUS
      <4> DEFINE f == [e \in Engine |-> Gate!Held(k, Gate!Drafts(e), w)]
      <4>1. \A e \in Engine : f[e] \in Nat
        BY <1>1, GateDrafts, HeldType DEF Gate!IInv
      <4> HIDE DEF f
      <4>2. SumFunctionOnSet(f, Engine) \in Nat
        BY <4>1, SumNat, GateFinite
      <4> QED  BY <4>2, GateSum DEF Gate!Remembered, f
    <3>2. ASSUME NEW k \in Kinds, NEW w \in Gate!Windows PROVE Gate!Row(k, w) <= Gate!Happened(k, w)
      <4>1. Gate!Row(k, w) \in Nat /\ Gate!Happened(k, w) \in Nat /\ Gate!Row(k, w) + Gate!Remembered(k, w) <= Gate!Happened(k, w)
        BY <1>1, CountTypes DEF Gate!IInv, Gate!SumInv, Kinds
      <4>2. Gate!Remembered(k, w) \in Nat
        BY <3>1
      <4> QED  BY <4>1, <4>2
    <3>3. \A w \in Gate!Windows : /\ gate_digests[w].delivered <= gate_shown[w]
                             /\ gate_digests[w].suppressed <= Gate!Total(gate_hidden[w])
      <4>1. \A w \in Gate!Windows : Gate!Row("shown", w) <= Gate!Happened("shown", w) /\ Gate!Row("hidden", w) <= Gate!Happened("hidden", w)
        BY <3>2 DEF Kinds
      <4> QED  BY <4>1 DEF Gate!Row, Gate!Happened
    <3> QED  BY <1>1, <3>3 DEF Gate!IInv, Gate!CapInv, Gate!DigestNeverOverstates
  <2> QED  BY <1>1, <2>1, <2>2 DEF Gate!IInv, Gate!DigestsAreHonest, Gate!DigestsAreComplete
<1> QED  BY <1>1, GateInvariance, PTL

(* Every behaviour of the alert engine keeps its digests honest, for every  *)
(* cap, window, number of engines, alerts and stops (alert-delivery.ts).    *)
THEOREM Honest == EngineSpec => []DigestsAreHonest
<1>1. Gate!Spec => []Gate!DigestsAreHonest
  BY GateConstants, GateHonest
<1>2. EngineInit => Gate!Init
  BY DEF EngineInit
<1>3. [EngineNext]_engineVars => [Gate!Next]_(Gate!vars)
  <2> SUFFICES ASSUME [EngineNext]_engineVars
               PROVE  Gate!Next \/ UNCHANGED gateVars
    BY DEF gateVars, Gate!vars, Gate!gates, Gate!history
  <2>1. CASE UNCHANGED engineVars
    BY <2>1 DEF engineVars
  <2>2. CASE EngineNext
    BY <2>2 DEF EngineNext
  <2> QED  BY <2>1, <2>2
<1>4. Gate!DigestsAreHonest => DigestsAreHonest
  BY DEF DigestsAreHonest
<1> QED  BY <1>1, <1>2, <1>3, <1>4, PTL DEF EngineSpec, Gate!Spec

-----------------------------------------------------------------------------
(* The confidence of a read and of its match, combined, is a number.       *)
LEMMA CombinedIsNumber ==
    ASSUME NEW r \in Reads
    PROVE  Reason!CombinedConfidence(r) \in Int
<1>1. r.conf \in Int /\ r.matchConf \in Int
  BY ReasonConstants DEF Reason!ReasonAssumption
<1>2. Reason!ValidityFactor(r.validity) \in Int
  <2>1. r.validity \in {"valid", "partial", "invalid"}
    BY ReasonConstants DEF Reason!ReasonAssumption
  <2> QED  BY <2>1 DEF Reason!ValidityFactor
<1> DEFINE factor == Reason!ValidityFactor(r.validity)
           repaired == IF r.fixes = 0 THEN 10 ELSE 9
           plate == IF r.nonPlate THEN 25 ELSE 100
<1>3. repaired \in Int /\ plate \in Int
  OBVIOUS
<1> HIDE DEF factor, repaired, plate
<1>4. r.conf * factor * repaired * plate + 5 \in Int
  BY <1>1, <1>2, <1>3 DEF factor
<1>5. (r.conf * factor * repaired * plate + 5) \div 10 \in Int
  BY <1>4
<1>6. Reason!AdjustConfidence(r) \in Int
  BY <1>5 DEF Reason!AdjustConfidence, factor, repaired, plate
<1>7. Reason!AdjustConfidence(r) * r.matchConf + 50 \in Int
  BY <1>1, <1>6
<1>8. (Reason!AdjustConfidence(r) * r.matchConf + 50) \div 100 \in Int
  BY <1>7
<1> QED  BY <1>8 DEF Reason!CombinedConfidence

(* A set of severities has a lowest one. *)
LEMMA LowestSeverity ==
    ASSUME NEW S \in SUBSET (1..4), S # {}
    PROVE  \E b \in S : \A x \in S : b <= x
<1>1. CASE 1 \in S  BY <1>1
<1>2. CASE 1 \notin S /\ 2 \in S  BY <1>2
<1>3. CASE 1 \notin S /\ 2 \notin S /\ 3 \in S  BY <1>3
<1>4. CASE 1 \notin S /\ 2 \notin S /\ 3 \notin S
  <2>1. \A x \in S : x = 4  BY <1>4
  <2>2. 4 \in S  BY <2>1
  <2> QED  BY <2>1, <2>2
<1> QED  BY <1>1, <1>2, <1>3, <1>4

(* What a read may ask for: its category, its entry and the ceilings the   *)
(* policy file sets for reads like it.                                     *)
Asked(r) ==
    {Reason!ByCategory(Entry.category), Entry.severity}
        \cup {c.max : c \in {d \in Reason!Ceilings :
                                Reason!Applies(d, r, Reason!CombinedConfidence(r))}}

LEMMA SeverityIsLowest ==
    ASSUME NEW r \in Reads
    PROVE  /\ Reason!SeverityFor(r).final \in Asked(r)
           /\ \A x \in Asked(r) : Reason!SeverityFor(r).final <= x
           /\ Asked(r) \subseteq 1..4
           /\ Asked(r) # {}
<1>1. Reason!ByCategory(Entry.category) \in 1..4
  BY ReasonConstants DEF Reason!ReasonAssumption, Reason!ByCategory
<1>2. Entry.severity \in 1..4
  BY ReasonConstants DEF Reason!ReasonAssumption
<1>3. \A c \in Reason!Ceilings : c.max \in 1..4
  BY DEF Reason!Ceilings, Reason!Ceiling
<1>4. Asked(r) \in SUBSET (1..4) /\ Asked(r) # {}
  BY <1>1, <1>2, <1>3 DEF Asked
<1>5. \E b \in Asked(r) : \A x \in Asked(r) : b <= x
  BY <1>4, LowestSeverity
<1> DEFINE final == CHOOSE b \in Asked(r) : \A x \in Asked(r) : b <= x
<1>6. final \in Asked(r) /\ \A x \in Asked(r) : final <= x
  BY <1>5
<1>7. Reason!SeverityFor(r).final = final
  BY DEF Reason!SeverityFor, Asked
<1> QED  BY <1>4, <1>6, <1>7
(* At every boundary of the policy the label and the severity of a read    *)
(* tell the same story.                                                    *)
Agree(strength, severity) ==
    CASE strength = "weak" -> severity = 1
      [] strength = "possible" -> severity <= 2
      [] strength = "probable" -> severity <= 3
      [] strength = "confirmed" ->
            severity = Reason!Lower(Reason!ByCategory(Entry.category), Entry.severity)

LEMMA LabelAgrees ==
    ASSUME NEW r \in Reads
    PROVE  Agree(Reason!IdentificationStrength(r), Reason!SeverityFor(r).final)
<1> DEFINE c == Reason!CombinedConfidence(r)
           final == Reason!SeverityFor(r).final
           strength == Reason!IdentificationStrength(r)
<1>1. c \in Int
  BY CombinedIsNumber
<1>2. /\ final \in Asked(r) /\ Asked(r) \subseteq 1..4
      /\ \A x \in Asked(r) : final <= x
  BY SeverityIsLowest
<1>3. /\ r.match \in {"exact", "fuzzy"} /\ r.validity \in {"valid", "partial", "invalid"}
      /\ NA \notin Int
  BY ReasonConstants DEF Reason!ReasonAssumption
<1>4. /\ strength \in {"confirmed", "probable", "possible", "weak"}
      /\ strength = "confirmed" => r.match = "exact" /\ r.validity = "valid" /\ c >= 800000
      /\ strength # "confirmed" => r.match # "exact" \/ r.validity # "valid" \/ ~ (c >= 800000)
      /\ strength = "possible" => ~ (c >= 550000)
      /\ strength = "weak" => ~ (c >= 300000) /\ ~ (c >= 550000)
  BY DEF Reason!IdentificationStrength
<1>5. \A k \in Reason!Ceilings :
         r.match \in k.match /\ r.validity \in k.validity /\ (k.below # NA => c < k.below)
            => k.max \in Asked(r)
  BY DEF Asked, Reason!Applies
<1>6. /\ c < 300000 => 1 \in Asked(r)
      /\ c < 550000 => 2 \in Asked(r)
      /\ c < 800000 => 3 \in Asked(r)
  <2>1. Reason!Ceiling(Reason!Matches, Reason!Validities, 300000, 1) \in Reason!Ceilings
    BY DEF Reason!Ceilings
  <2>2. Reason!Ceiling(Reason!Matches, Reason!Validities, 550000, 2) \in Reason!Ceilings
    BY DEF Reason!Ceilings
  <2>3. Reason!Ceiling(Reason!Matches, Reason!Validities, 800000, 3) \in Reason!Ceilings
    BY DEF Reason!Ceilings
  <2> QED
    BY <1>3, <1>5, <2>1, <2>2, <2>3 DEF Reason!Ceiling, Reason!Matches, Reason!Validities
<1>7. /\ r.match = "fuzzy" => 3 \in Asked(r)
      /\ r.validity = "partial" => 3 \in Asked(r)
      /\ r.validity = "invalid" => 1 \in Asked(r)
  <2>1. Reason!Ceiling({"fuzzy"}, Reason!Validities, NA, 3) \in Reason!Ceilings
    BY DEF Reason!Ceilings
  <2>2. Reason!Ceiling(Reason!Matches, {"partial"}, NA, 3) \in Reason!Ceilings
    BY DEF Reason!Ceilings
  <2>3. Reason!Ceiling(Reason!Matches, {"invalid"}, NA, 1) \in Reason!Ceilings
    BY DEF Reason!Ceilings
  <2> QED
    BY <1>3, <1>5, <2>1, <2>2, <2>3 DEF Reason!Ceiling, Reason!Matches, Reason!Validities
<1> HIDE DEF c, final, strength
<1>8. CASE strength = "confirmed"
  <2>1. r.match = "exact" /\ r.validity = "valid" /\ c >= 800000
    BY <1>4, <1>8
  <2>2. \A k \in Reason!Ceilings : ~ Reason!Applies(k, r, c)
    BY <1>1, <1>3, <2>1 DEF Reason!Ceilings, Reason!Ceiling, Reason!Applies,
                            Reason!Matches, Reason!Validities
  <2>3. Asked(r) = {Reason!ByCategory(Entry.category), Entry.severity}
    BY <2>2 DEF Asked, c
  <2>4. /\ final \in {Reason!ByCategory(Entry.category), Entry.severity}
        /\ final <= Reason!ByCategory(Entry.category) /\ final <= Entry.severity
        /\ Reason!ByCategory(Entry.category) \in 1..4 /\ Entry.severity \in 1..4
    BY <1>2, <2>3
  <2>5. final = Reason!Lower(Reason!ByCategory(Entry.category), Entry.severity)
    BY <2>4 DEF Reason!Lower
  <2> QED  BY <1>8, <2>5 DEF Agree, strength, final
<1>9. CASE strength = "weak"
  <2>1. c < 300000  BY <1>1, <1>4, <1>9
  <2>2. final = 1  BY <1>2, <1>6, <2>1
  <2> QED  BY <1>9, <2>2 DEF Agree, strength, final
<1>10. CASE strength = "possible"
  <2>1. c < 550000  BY <1>1, <1>4, <1>10
  <2>2. final <= 2  BY <1>2, <1>6, <2>1
  <2> QED  BY <1>10, <2>2 DEF Agree, strength, final
<1>11. CASE strength = "probable"
  <2>1. 3 \in Asked(r) \/ 1 \in Asked(r)
    BY <1>1, <1>3, <1>4, <1>6, <1>7, <1>11
  <2>2. final <= 3  BY <1>2, <2>1
  <2> QED  BY <1>11, <2>2 DEF Agree, strength, final
<1>12. strength \in {"confirmed", "weak", "possible", "probable"}
  BY <1>4
<1> QED  BY <1>8, <1>9, <1>10, <1>11, <1>12
-----------------------------------------------------------------------------
(* What a step of an alert's life leaves in place: the types of its state,  *)
(* and a label that agrees with the severity both were raised with.         *)
Why ==
    {Reason!ReasonFor(x[1], x[2], x[3], x[4]) :
        x \in Sightings \X Reads \X Reason!Cameras \X Reason!Crops}
Card == [severity : 1..4, last : Sightings, folded : SUBSET Sightings, reason : Why]
CardInv ==
    /\ reason_camera \in Reason!Cameras /\ reason_cache \in Reason!Cameras \cup {NA}
    /\ reason_seen \subseteq Sightings
    /\ reason_plate \in [Sightings -> Reason!Crops]
    /\ reason_vehicle \in [Sightings -> Reason!Crops]
    /\ reason_probes \in 0..MaxProbes
    /\ reason_alert # NA =>
          /\ reason_alert \in Card
          /\ reason_alert.last \in reason_seen
          /\ Agree(reason_alert.reason.strength, reason_alert.severity)

LEMMA CardInit == Reason!Init => CardInv
<1>1. MaxProbes \in Nat
  BY ReasonConstants DEF Reason!ReasonAssumption
<1> QED  BY <1>1 DEF Reason!Init, CardInv, Reason!Crops

(* The reason a read is given is a reason, and its severity one of four.   *)
LEMMA ReasonIsTyped ==
    ASSUME CardInv, NEW s \in Sightings, NEW r \in Reads, NEW cam \in Reason!Cameras
    PROVE  /\ Reason!ReasonFor(s, r, cam, Reason!CropOf(s, r)) \in Why
           /\ Reason!ReasonFor(s, r, cam, Reason!CropOf(s, r)).strength
                 = Reason!IdentificationStrength(r)
           /\ Reason!SeverityFor(r).final \in 1..4
<1> DEFINE crop == Reason!CropOf(s, r)
           reason == Reason!ReasonFor(s, r, cam, crop)
<1>1. Reason!BestCrop \in Reason!Crops
  <2>1. CASE \E b \in BestShots \cap reason_seen : reason_vehicle[b] # "none"
    <3> DEFINE best == CHOOSE b \in BestShots \cap reason_seen : reason_vehicle[b] # "none"
    <3>1. best \in Sightings  BY <2>1 DEF CardInv
    <3>2. Reason!BestCrop = reason_vehicle[best]  BY <2>1 DEF Reason!BestCrop
    <3> HIDE DEF best
    <3> QED  BY <3>1, <3>2 DEF CardInv
  <2>2. CASE ~ \E b \in BestShots \cap reason_seen : reason_vehicle[b] # "none"
    BY <2>2 DEF Reason!BestCrop, Reason!Crops
  <2> QED  BY <2>1, <2>2
<1>2. r.crop \in Reason!Crops
  BY ReasonConstants DEF Reason!ReasonAssumption, Reason!Crops
<1>3. crop \in Reason!Crops
  BY <1>1, <1>2 DEF Reason!CropOf, Reason!OrElse, CardInv
<1> HIDE DEF crop
<1>4. reason \in Why
  <2>1. <<s, r, cam, crop>> \in Sightings \X Reads \X Reason!Cameras \X Reason!Crops
    BY <1>3
  <2> QED  BY <2>1 DEF Why
<1>5. reason.strength = Reason!IdentificationStrength(r)
  BY DEF Reason!ReasonFor
<1>6. Reason!SeverityFor(r).final \in 1..4
  BY SeverityIsLowest
<1> QED  BY <1>4, <1>5, <1>6 DEF crop

LEMMA FoldKeepsCard ==
    ASSUME NEW a \in Card, NEW s \in Sightings
    PROVE  LET b == [a EXCEPT !.last = s, !.folded = @ \cup {s}]
           IN  b \in Card /\ b.last = s /\ b.severity = a.severity /\ b.reason = a.reason
<1> DEFINE b == [a EXCEPT !.last = s, !.folded = @ \cup {s}]
<1>1. b \in Card
  BY Zenon DEF Card
<1>2. b.last = s /\ b.severity = a.severity /\ b.reason = a.reason
  BY Zenon DEF Card
<1> QED  BY <1>1, <1>2

LEMMA CardStep == CardInv /\ Reason!Next => CardInv'
<1> SUFFICES ASSUME CardInv, Reason!Next PROVE CardInv'
  OBVIOUS
<1> USE DEF CardInv
<1>1. ASSUME NEW s \in Sightings, NEW r \in Reads, Reason!Correlate(s, r)
      PROVE  CardInv'
  <2> DEFINE cam == IF reason_cache = NA THEN reason_camera ELSE reason_cache
             raised == [severity |-> Reason!SeverityFor(r).final, last |-> s, folded |-> {s},
                        reason |-> Reason!ReasonFor(s, r, cam, Reason!CropOf(s, r))]
             folded == [reason_alert EXCEPT !.last = s, !.folded = @ \cup {s}]
  <2>1. cam \in Reason!Cameras
    OBVIOUS
  <2>2. /\ reason_seen' = reason_seen \cup {s}
        /\ reason_plate' = [reason_plate EXCEPT ![s] = r.crop]
        /\ UNCHANGED <<reason_camera, reason_vehicle, reason_probes>>
        /\ \/ UNCHANGED <<reason_cache, reason_alert>>
           \/ reason_cache' = cam /\ reason_alert = NA /\ reason_alert' = raised
           \/ reason_cache' = cam /\ reason_alert # NA /\ reason_alert' = folded
    BY <1>1 DEF Reason!Correlate
  <2>3. r.crop \in Reason!Crops
    BY ReasonConstants DEF Reason!ReasonAssumption, Reason!Crops
  <2> HIDE DEF cam
  <2>4. CASE UNCHANGED <<reason_cache, reason_alert>>
    BY <2>2, <2>3, <2>4
  <2>5. CASE reason_cache' = cam /\ reason_alert = NA /\ reason_alert' = raised
    <3>1. Agree(raised.reason.strength, raised.severity)
      BY <2>1, ReasonIsTyped, LabelAgrees
    <3>2. raised \in Card
      BY <2>1, ReasonIsTyped DEF Card
    <3>3. raised.last = s
      OBVIOUS
    <3> HIDE DEF raised
    <3> QED  BY <2>1, <2>2, <2>3, <2>5, <3>1, <3>2, <3>3
  <2>6. CASE reason_cache' = cam /\ reason_alert # NA /\ reason_alert' = folded
    <3>1. /\ folded \in Card
          /\ folded.last = s /\ folded.severity = reason_alert.severity
          /\ folded.reason = reason_alert.reason
      BY <2>6, FoldKeepsCard
    <3> HIDE DEF folded
    <3> QED  BY <2>1, <2>2, <2>3, <2>6, <3>1
  <2> QED  BY <2>2, <2>4, <2>5, <2>6
<1>2. ASSUME NEW s \in Sightings, Reason!UploadPlate(s) \/ Reason!UploadVehicle(s)
      PROVE  CardInv'
  BY <1>2 DEF Reason!UploadPlate, Reason!UploadVehicle, Reason!Crops
<1>3. ASSUME NEW c \in Reason!Cameras, Reason!ChangeCamera(c)
      PROVE  CardInv'
  <2>1. MaxProbes \in Nat
    BY ReasonConstants DEF Reason!ReasonAssumption
  <2> QED  BY <1>3, <2>1 DEF Reason!ChangeCamera
<1>4. CASE Reason!Restart
  BY <1>4 DEF Reason!Restart
<1> QED  BY <1>1, <1>2, <1>3, <1>4 DEF Reason!Next

(* Whatever the reads, the probes, the uploads and the restarts between    *)
(* them, an alert's label agrees with its severity at every boundary of    *)
(* the policy file, and a link is shown only for a stored object and never *)
(* beside a caveat that there is none (services/alerts.ts).                *)
THEOREM CardAgrees == EngineSpec => []CardIsConsistent
<1>1. EngineInit => CardInv
  BY CardInit DEF EngineInit
<1>2. CardInv /\ [EngineNext]_engineVars => CardInv'
  <2> SUFFICES ASSUME CardInv, [EngineNext]_engineVars PROVE CardInv'
    OBVIOUS
  <2>1. CASE UNCHANGED reasonVars
    BY <2>1 DEF reasonVars, CardInv
  <2>2. CASE Reason!Next
    BY <2>2, CardStep
  <2> QED  BY <2>1, <2>2 DEF EngineNext, engineVars
<1>3. CardInv => CardIsConsistent
  <2> SUFFICES ASSUME CardInv PROVE Reason!CardIsConsistent
    BY DEF CardIsConsistent
  <2>1. Reason!TypeOK
    BY DEF CardInv, Card, Reason!TypeOK, Reason!Severities
  <2>2. Reason!LabelAgreesWithSeverity
    BY DEF CardInv, Agree, Reason!LabelAgreesWithSeverity
  <2>3. Reason!LinkIsServable
    BY DEF Reason!LinkIsServable, Reason!ShownEvidence, Reason!ShownCaveats, Reason!Presign
  <2> QED  BY <2>1, <2>2, <2>3 DEF Reason!CardIsConsistent
<1> QED  BY <1>1, <1>2, <1>3, PTL DEF EngineSpec

-----------------------------------------------------------------------------
(* The sweep for impossible transitions.  What the instance counts with.   *)
LEMMA SameSize ==
    \A S : Sweep!Cardinality(S) = Cardinality(S) /\ (Sweep!IsFiniteSet(S) <=> IsFiniteSet(S))
  BY DEF Sweep!Cardinality, Cardinality, Sweep!IsFiniteSet, IsFiniteSet

LEMMA ShotIsFinite ==
    IsFiniteSet(DOMAIN Shot) /\ DOMAIN Shot \subseteq Nat /\ \A s \in DOMAIN Shot : Shot[s].ts \in Int
  BY SweepConstants, SameSize DEF Sweep!SweepAssumption

(* A one-to-one image of a finite set is as large as the set. *)
LEMMA PairsAreAsMany ==
    ASSUME NEW F, IsFiniteSet(F), \A f, g \in F : Sweep!Pair(f) = Sweep!Pair(g) => f = g
    PROVE  /\ IsFiniteSet({Sweep!Pair(f) : f \in F})
           /\ Cardinality({Sweep!Pair(f) : f \in F}) = Cardinality(F)
<1> DEFINE P == {Sweep!Pair(f) : f \in F}
           h == [f \in F |-> Sweep!Pair(f)]
<1>1. h \in Surjection(F, P) /\ h \in Injection(F, P)
  BY DEF Surjection, Injection, IsInjective
<1> HIDE DEF h, P
<1>2. IsFiniteSet(P) /\ Cardinality(P) = Cardinality(F)
  BY <1>1, FS_Surjection
<1> QED  BY <1>2 DEF P

LEMMA PairsAreFinite ==
    ASSUME NEW F, IsFiniteSet(F)
    PROVE  IsFiniteSet({Sweep!Pair(f) : f \in F})
<1> DEFINE P == {Sweep!Pair(f) : f \in F}
           h == [f \in F |-> Sweep!Pair(f)]
<1>1. h \in Surjection(F, P)
  BY DEF Surjection
<1> HIDE DEF h, P
<1>2. IsFiniteSet(P)
  BY <1>1, FS_Surjection
<1> QED  BY <1>2 DEF P

LEMMA ReportIsFinite ==
    ASSUME NEW r, NEW n \in Nat, DOMAIN r = 1..n
    PROVE  IsFiniteSet(Sweep!ToSet(r))
<1> DEFINE T == Sweep!ToSet(r)
           h == [i \in 1..n |-> r[i]]
<1>1. h \in Surjection(1..n, T)
  BY DEF Surjection, Sweep!ToSet
<1>2. IsFiniteSet(1..n)
  BY FS_Interval
<1> HIDE DEF h, T
<1>3. IsFiniteSet(T)
  BY <1>1, <1>2, FS_Surjection
<1> QED  BY <1>3 DEF T

(* The sightings of a trace are in the order of their clock, each once. *)
LEMMA TraceHoldsEachOnce ==
    ASSUME NEW S, S \subseteq DOMAIN Shot
    PROVE  /\ Sweep!InOrder(S) \in Seq(S)
           /\ \A i, j \in DOMAIN Sweep!InOrder(S) :
                Sweep!InOrder(S)[i] = Sweep!InOrder(S)[j] => i = j
<1> DEFINE order == {p \in S \X S : Sweep!Before(p[1], p[2])}
           n == Cardinality(S)
           t == Sweep!InOrder(S)
<1>1. IsFiniteSet(S) /\ S \subseteq Nat /\ \A s \in S : Shot[s].ts \in Int
  BY ShotIsFinite, FS_Subset
<1>2. n \in Nat
  BY <1>1, FS_CardinalityType
<1>3. \A a, b \in S : <<a, b>> \in order <=> Sweep!Before(a, b)
  OBVIOUS
<1>4. TotalOn(S, order)
  <2> HIDE DEF order
  <2> QED  BY <1>1, <1>3 DEF TotalOn, Sweep!Before
<1>5. \A s \in S : RankIn(S, order, s) = Cardinality({x \in S : Sweep!Before(x, s)})
  <2> SUFFICES ASSUME NEW s \in S
               PROVE  {x \in S : <<x, s>> \in order} = {x \in S : Sweep!Before(x, s)}
    BY DEF RankIn
  <2> QED  BY <1>3
<1> HIDE DEF order, n
<1>6. \A k \in 0..(n - 1) : \E s \in S : Cardinality({x \in S : Sweep!Before(x, s)}) = k
  BY <1>1, <1>4, <1>5, RanksIn DEF n
<1>7. t = [i \in 1..n |-> CHOOSE s \in S : Cardinality({x \in S : Sweep!Before(x, s)}) = i - 1]
  BY DEF Sweep!InOrder, n, Sweep!Cardinality, Cardinality
<1> HIDE DEF t
<1>8. ASSUME NEW i \in 1..n
      PROVE  t[i] \in S /\ Cardinality({x \in S : Sweep!Before(x, t[i])}) = i - 1
  <2>1. i - 1 \in 0..(n - 1)
    BY <1>2
  <2>2. PICK s \in S : Cardinality({x \in S : Sweep!Before(x, s)}) = i - 1
    BY <1>6, <2>1
  <2> QED  BY <1>7, <2>2
<1>9. t \in [1..n -> S]
  BY <1>7, <1>8
<1>10. t \in Seq(S) /\ DOMAIN t = 1..n
  BY <1>2, <1>9, SequenceOf
<1>11. \A i, j \in 1..n : t[i] = t[j] => i = j
  <2> SUFFICES ASSUME NEW i \in 1..n, NEW j \in 1..n, t[i] = t[j]
               PROVE  i = j
    OBVIOUS
  <2>1. i - 1 = j - 1
    BY <1>8
  <2> QED  BY <1>2, <2>1
<1> QED  BY <1>10, <1>11 DEF t

(* platesToSweep has an order to put the plates in. *)
LEMMA MostReadFirstIsAnOrder ==
    ASSUME sweep_read \subseteq DOMAIN Shot
    PROVE  Sweep!MostReadFirst \in Seq(Sweep!Plates)
<1> DEFINE P == {p \in Sweep!Plates : Sweep!Count(p) > 0}
           n == Cardinality(P)
           all == {Shot[s].plate : s \in DOMAIN Shot}
           h == [s \in DOMAIN Shot |-> Shot[s].plate]
<1>1. IsFiniteSet(P)
  <2>1. h \in Surjection(DOMAIN Shot, all)
    BY DEF Surjection
  <2>2. IsFiniteSet(DOMAIN Shot)
    BY ShotIsFinite
  <2> HIDE DEF h
  <2>3. IsFiniteSet(all)
    <3> HIDE DEF all
    <3> QED  BY <2>1, <2>2, FS_Surjection
  <2>4. P \in SUBSET all
    BY DEF Sweep!Plates
  <2> HIDE DEF P, all
  <2> QED  BY <2>3, <2>4, FS_Subset
<1>2. n \in Nat /\ ExistsBijection(1..n, P)
  BY <1>1, FS_CardinalityType
<1>3. PICK b \in Bijection(1..n, P) : TRUE
  BY <1>2 DEF ExistsBijection
<1>4. \A p \in P : Sweep!Count(p) \in Nat
  <2> SUFFICES ASSUME NEW p \in P PROVE Sweep!Count(p) \in Nat
    OBVIOUS
  <2>1. IsFiniteSet(DOMAIN Shot) /\ {s \in sweep_read : Shot[s].plate = p} \in SUBSET DOMAIN Shot
    BY ShotIsFinite
  <2>2. IsFiniteSet({s \in sweep_read : Shot[s].plate = p})
    BY <2>1, FS_Subset
  <2> QED  BY <2>2, FS_CardinalityType, SameSize DEF Sweep!Count
<1> DEFINE order == {pq \in P \X P : \/ Sweep!Count(pq[1]) > Sweep!Count(pq[2])
                                   \/ /\ Sweep!Count(pq[1]) = Sweep!Count(pq[2])
                                      /\ \E i, j \in 1..n : i < j /\ b[i] = pq[1] /\ b[j] = pq[2]}
<1>5. \A p, q \in P : <<p, q>> \in order <=>
         \/ Sweep!Count(p) > Sweep!Count(q)
         \/ /\ Sweep!Count(p) = Sweep!Count(q)
            /\ \E i, j \in 1..n : i < j /\ b[i] = p /\ b[j] = q
  OBVIOUS
<1>6. /\ \A p \in P : \E i \in 1..n : b[i] = p
      /\ \A i, j \in 1..n : b[i] = b[j] => i = j
  BY <1>3 DEF Bijection, Injection, Surjection, IsInjective
<1> HIDE DEF order, P, n
<1>7. TotalOn(P, order)
  <2>1. \A p \in P : <<p, p>> \notin order
    BY <1>2, <1>4, <1>5, <1>6
  <2>2. \A p, q \in P : p = q \/ <<p, q>> \in order \/ <<q, p>> \in order
    <3> SUFFICES ASSUME NEW p \in P, NEW q \in P, p # q
                 PROVE  <<p, q>> \in order \/ <<q, p>> \in order
      OBVIOUS
    <3>1. PICK i \in 1..n, j \in 1..n : b[i] = p /\ b[j] = q
      BY <1>6
    <3>2. i < j \/ j < i
      BY <1>2, <3>1
    <3>3. \/ Sweep!Count(p) > Sweep!Count(q) \/ Sweep!Count(q) > Sweep!Count(p)
          \/ Sweep!Count(p) = Sweep!Count(q)
      BY <1>4
    <3> QED  BY <1>5, <3>1, <3>2, <3>3
  <2>3. ASSUME NEW p \in P, NEW q \in P, NEW r \in P, <<p, q>> \in order, <<q, r>> \in order
        PROVE  <<p, r>> \in order
    <3>1. CASE Sweep!Count(p) > Sweep!Count(q) \/ Sweep!Count(q) > Sweep!Count(r)
      <4>1. Sweep!Count(p) >= Sweep!Count(q) /\ Sweep!Count(q) >= Sweep!Count(r)
        BY <1>4, <1>5, <2>3
      <4>2. Sweep!Count(p) > Sweep!Count(r)
        BY <1>4, <3>1, <4>1
      <4> QED  BY <1>5, <4>2
    <3>2. CASE ~(Sweep!Count(p) > Sweep!Count(q)) /\ ~(Sweep!Count(q) > Sweep!Count(r))
      <4>1. PICK i \in 1..n, j \in 1..n : i < j /\ b[i] = p /\ b[j] = q
        BY <1>5, <2>3, <3>2
      <4>2. PICK k \in 1..n, l \in 1..n : k < l /\ b[k] = q /\ b[l] = r
        BY <1>5, <2>3, <3>2
      <4>3. i < l
        BY <1>2, <1>6, <4>1, <4>2
      <4>4. Sweep!Count(p) = Sweep!Count(r)
        BY <1>5, <2>3, <3>2
      <4> QED  BY <1>5, <4>1, <4>2, <4>3, <4>4
    <3> QED  BY <3>1, <3>2
  <2> QED  BY <2>1, <2>2, <2>3 DEF TotalOn
<1>8. /\ \A p, q \in P : <<p, q>> \in order => RankIn(P, order, p) < RankIn(P, order, q)
      /\ \A p \in P : RankIn(P, order, p) \in 0..(n - 1)
      /\ \A k \in 0..(n - 1) : \E p \in P : RankIn(P, order, p) = k
  BY <1>1, <1>7, RanksIn DEF n
<1> DEFINE Fits(f) == /\ \A i, j \in DOMAIN f : i # j => f[i] # f[j]
                      /\ \A i \in 1..Len(f) - 1 : Sweep!Count(f[i]) >= Sweep!Count(f[i + 1])
           f0 == [i \in 1..n |-> CHOOSE p \in P : RankIn(P, order, p) = i - 1]
<1>9. \A i \in 1..n : f0[i] \in P /\ RankIn(P, order, f0[i]) = i - 1
  <2> SUFFICES ASSUME NEW i \in 1..n PROVE f0[i] \in P /\ RankIn(P, order, f0[i]) = i - 1
    OBVIOUS
  <2>1. i - 1 \in 0..(n - 1)
    BY <1>2
  <2>2. PICK p \in P : RankIn(P, order, p) = i - 1
    BY <1>8, <2>1
  <2> QED  BY <2>2
<1>10. f0 \in [1..n -> P]
  BY <1>9
<1>11. f0 \in Seq(P) /\ Len(f0) = n /\ DOMAIN f0 = 1..n
  BY <1>2, <1>10, SequenceOf
<1> HIDE DEF f0
<1>12. \A i, j \in 1..n : i # j => f0[i] # f0[j]
  <2> SUFFICES ASSUME NEW i \in 1..n, NEW j \in 1..n, f0[i] = f0[j]
               PROVE  i = j
    OBVIOUS
  <2>1. i - 1 = j - 1
    BY <1>9
  <2> QED  BY <1>2, <2>1
<1>13. \A i \in 1..n - 1 : Sweep!Count(f0[i]) >= Sweep!Count(f0[i + 1])
  <2> SUFFICES ASSUME NEW i \in 1..n - 1, ~(Sweep!Count(f0[i]) >= Sweep!Count(f0[i + 1]))
               PROVE  FALSE
    OBVIOUS
  <2>1. i \in 1..n /\ i + 1 \in 1..n
    BY <1>2
  <2>2. /\ f0[i] \in P /\ RankIn(P, order, f0[i]) = i - 1
        /\ f0[i + 1] \in P /\ RankIn(P, order, f0[i + 1]) = i
    BY <1>2, <1>9, <2>1
  <2>3. Sweep!Count(f0[i + 1]) > Sweep!Count(f0[i])
    BY <1>4, <2>2
  <2>4. RankIn(P, order, f0[i + 1]) < RankIn(P, order, f0[i])
    BY <1>5, <1>8, <2>2, <2>3
  <2> QED  BY <1>2, <2>1, <2>2, <2>4
<1>14. Fits(f0)
  BY <1>11, <1>12, <1>13
<1>15. Sweep!MostReadFirst = CHOOSE f \in [1..n -> P] : Fits(f)
  BY SameSize DEF Sweep!MostReadFirst, P, n
<1> HIDE DEF Fits
<1>16. Sweep!MostReadFirst \in [1..n -> P]
  BY <1>10, <1>14, <1>15
<1>17. P \subseteq Sweep!Plates
  BY DEF P
<1>18. Sweep!MostReadFirst \in Seq(P)
  BY <1>2, <1>16, SequenceOf
<1> QED  BY <1>17, <1>18, SeqMonotonic

(* A finding is one of three verdicts, an impossible one has one of three  *)
(* explanations, and only a likely clone is alerted.                       *)
Verdict(f) ==
    /\ f.feasibility \in {"impossible", "feasible", "indeterminate"}
    /\ f.explanation \in {"likely_misread", "likely_cloned", "undetermined"}
    /\ f.alert # NA => f.feasibility = "impossible" /\ f.explanation = "likely_cloned"

LEMMA FindingIsVerdict ==
    ASSUME NEW segments, NEW g, NEW w
    PROVE  Verdict(Sweep!Finding(segments, g, w)) /\ Sweep!Finding(segments, g, w).from = g.from
<1>1. Sweep!Feasibility(g) \in {"impossible", "feasible", "indeterminate"}
  BY DEF Sweep!Feasibility
<1>2. \A n : Sweep!Explanation(g.from, g.to, n) \in {"likely_misread", "likely_cloned", "undetermined"}
  BY DEF Sweep!Explanation
<1> QED  BY <1>1, <1>2 DEF Verdict, Sweep!Finding, Sweep!Impossible

(* What the route cache holds for a plate follows the trace it was built   *)
(* from.                                                                   *)
Follows(segments, t) ==
    DOMAIN segments = 1..(Len(t) - 1) /\ \A i \in 1..(Len(t) - 1) : segments[i].from = t[i]

CacheFollows ==
    /\ \E R : sweep_cache \in [Sweep!Plates -> R]
    /\ \A p \in Sweep!Plates : sweep_cache[p] # NA => Follows(sweep_cache[p].segments, sweep_cache[p].fingerprint)

LEMMA BuiltFollows ==
    ASSUME NEW p
    PROVE  /\ Follows(Sweep!Built(p), Sweep!Trace(p))
           /\ Follows([i \in DOMAIN Sweep!Built(p) |-> Sweep!AsStored(Sweep!Built(p)[i])], Sweep!Trace(p))
<1>1. Follows(Sweep!Built(p), Sweep!Trace(p))
  BY DEF Follows, Sweep!Built, Sweep!Segment
<1>2. \A i \in DOMAIN Sweep!Built(p) : Sweep!AsStored(Sweep!Built(p)[i]).from = Sweep!Built(p)[i].from
  <2> SUFFICES ASSUME NEW i \in DOMAIN Sweep!Built(p)
               PROVE  Sweep!AsStored(Sweep!Built(p)[i]).from = Sweep!Built(p)[i].from
    OBVIOUS
  <2>1. PICK a, b, k, e, w : Sweep!Built(p)[i] = [from |-> a, to |-> b, kind |-> k, elapsed |-> e, way |-> w]
    BY DEF Sweep!Built, Sweep!Segment
  <2> QED  BY <2>1 DEF Sweep!AsStored
<1> QED  BY <1>1, <1>2 DEF Follows

LEMMA ReportIsSound ==
    ASSUME NEW p \in Sweep!Plates, sweep_read \subseteq DOMAIN Shot, CacheFollows,
           Len(Sweep!Trace(p)) >= 2
    PROVE  /\ \E n \in Nat : DOMAIN Sweep!Report(p) = 1..n
           /\ \A f \in Sweep!ToSet(Sweep!Report(p)) : Verdict(f)
           /\ \A f, g \in Sweep!ToSet(Sweep!Report(p)) : Sweep!Pair(f) = Sweep!Pair(g) => f = g
<1> DEFINE t == Sweep!Trace(p)
           r == Sweep!Report(p)
<1>1. /\ t \in Seq(DOMAIN Shot)
      /\ \A i, j \in DOMAIN t : t[i] = t[j] => i = j
  <2> DEFINE S == {s \in sweep_read : Shot[s].plate # NA /\ Strength[p][Shot[s].plate] > 0}
  <2>1. S \subseteq DOMAIN Shot
    OBVIOUS
  <2>2. t = Sweep!InOrder(S)
    BY DEF Sweep!Trace
  <2> HIDE DEF S, t
  <2>3. t \in Seq(S) /\ \A i, j \in DOMAIN t : t[i] = t[j] => i = j
    BY <2>1, <2>2, TraceHoldsEachOnce
  <2> QED  BY <2>1, <2>3, SeqMonotonic
<1>2. Follows(Sweep!Route(p), t)
  BY BuiltFollows DEF Sweep!Route, Sweep!Hit, CacheFollows
<1>3. DOMAIN r = 1..(Len(t) - 1) /\ \A i \in DOMAIN r : r[i].from = t[i] /\ Verdict(r[i])
  <2>1. DOMAIN r = DOMAIN Sweep!Route(p)
    BY DEF Sweep!Report
  <2>2. \A i \in DOMAIN r : r[i].from = Sweep!Route(p)[i].from /\ Verdict(r[i])
    <3> SUFFICES ASSUME NEW i \in DOMAIN Sweep!Route(p)
                 PROVE  r[i].from = Sweep!Route(p)[i].from /\ Verdict(r[i])
      BY <2>1
    <3> DEFINE g == Sweep!Route(p)[i]
               w == Sweep!LinkConfidence(p, g.from) * Sweep!LinkConfidence(p, g.to)
    <3>1. r[i] = Sweep!Finding(Sweep!Route(p), g, w)
      BY DEF Sweep!Report
    <3> HIDE DEF g, w, r
    <3>2. Verdict(r[i]) /\ r[i].from = g.from
      BY <3>1, FindingIsVerdict
    <3> QED  BY <3>2 DEF g
  <2> QED  BY <1>2, <2>1, <2>2 DEF Follows
<1> HIDE DEF r, t
<1>4. Len(t) \in Nat /\ DOMAIN t = 1..Len(t) /\ Len(t) - 1 \in Nat
  BY <1>1, LenProperties DEF t
<1>5. \A i, j \in DOMAIN r : r[i].from = r[j].from => i = j
  BY <1>1, <1>3, <1>4
<1>6. \A f, g \in Sweep!ToSet(r) : Sweep!Pair(f) = Sweep!Pair(g) => f = g
  <2> SUFFICES ASSUME NEW i \in DOMAIN r, NEW j \in DOMAIN r, Sweep!Pair(r[i]) = Sweep!Pair(r[j])
               PROVE  r[i] = r[j]
    BY DEF Sweep!ToSet
  <2>1. r[i].from = r[j].from
    BY DEF Sweep!Pair
  <2> QED  BY <1>5, <2>1
<1>7. \A f \in Sweep!ToSet(r) : Verdict(f)
  BY <1>3 DEF Sweep!ToSet
<1> QED  BY <1>3, <1>4, <1>6, <1>7 DEF r

(* What the totals owe to the findings that were shown. *)
Sums(t, S) ==
    /\ t.segments = Cardinality({Sweep!Pair(f) : f \in S})
    /\ t.misread + t.cloned + t.undetermined = t.impossible
    /\ t.impossible <= t.evaluable /\ t.alerts <= t.cloned
    /\ t.impossible <= Cardinality({Sweep!Pair(f) : f \in {x \in S : x.feasibility = "impossible"}})
    /\ t.evaluable > t.impossible => \E f \in S : f.feasibility = "feasible"

Totals == [traced : Nat, segments : Nat, evaluable : Nat, impossible : Nat, misread : Nat,
           cloned : Nat, undetermined : Nat, alerts : Nat]

LEMMA TotalsAreTyped == Totals = [DOMAIN Sweep!Zero -> Nat]
  BY DEF Totals, Sweep!Zero

LEMMA TallyAddsUp ==
    ASSUME NEW total \in Totals, NEW old, IsFiniteSet(old), NEW new, IsFiniteSet(new),
           \A f \in new : Verdict(f),
           \A f, g \in new : Sweep!Pair(f) = Sweep!Pair(g) => f = g,
           NEW fresh, fresh = {f \in new : Sweep!Pair(f) \notin {Sweep!Pair(g) : g \in old}},
           Sums(total, old)
    PROVE  Sweep!Tally(total, fresh) \in Totals /\ Sums(Sweep!Tally(total, fresh), old \union new)
<1> DEFINE Pairs(S) == {Sweep!Pair(f) : f \in S}
           Imp(S) == {x \in S : x.feasibility = "impossible"}
           Of(why) == {f \in Imp(fresh) : f.explanation = why}
           eval == {f \in fresh : f.feasibility # "indeterminate"}
           alerted == {f \in Imp(fresh) : f.alert # NA}
           t == Sweep!Tally(total, fresh)
<1>1. fresh \in SUBSET new /\ IsFiniteSet(fresh)
  BY FS_Subset
<1>2. \A T \in SUBSET fresh : IsFiniteSet(T) /\ Cardinality(T) \in Nat /\ Cardinality(T) <= Cardinality(fresh)
  BY <1>1, FS_Subset, FS_CardinalityType
<1>3. \A T \in SUBSET fresh : Cardinality(Pairs(T)) = Cardinality(T) /\ IsFiniteSet(Pairs(T))
  <2> SUFFICES ASSUME NEW T \in SUBSET fresh
               PROVE  Cardinality(Pairs(T)) = Cardinality(T) /\ IsFiniteSet(Pairs(T))
    OBVIOUS
  <2> QED  BY <1>1, <1>2, PairsAreAsMany
<1>4. t = [traced |-> total.traced + 1, segments |-> total.segments + Cardinality(fresh),
           evaluable |-> total.evaluable + Cardinality(eval),
           impossible |-> total.impossible + Cardinality(Imp(fresh)),
           misread |-> total.misread + Cardinality(Of("likely_misread")),
           cloned |-> total.cloned + Cardinality(Of("likely_cloned")),
           undetermined |-> total.undetermined + Cardinality(Of("undetermined")),
           alerts |-> total.alerts + Cardinality(alerted)]
  BY SameSize DEF Sweep!Tally
<1>5. /\ eval \in SUBSET fresh /\ Imp(fresh) \in SUBSET eval /\ alerted \in SUBSET Of("likely_cloned")
      /\ Imp(fresh) \in SUBSET fresh /\ alerted \in SUBSET fresh
      /\ \A why : Of(why) \in SUBSET fresh
  BY <1>1 DEF Verdict
<1>6. Imp(fresh) = Of("likely_misread") \union (Of("likely_cloned") \union Of("undetermined"))
  BY <1>1 DEF Verdict
<1>7. /\ Of("likely_cloned") \intersect Of("undetermined") = {}
      /\ Of("likely_misread") \intersect (Of("likely_cloned") \union Of("undetermined")) = {}
  OBVIOUS
<1>8. \A old1, new1 : IsFiniteSet(old1) /\ new1 \in SUBSET fresh /\ old1 \subseteq old =>
        Cardinality(Pairs(old1 \union new1)) = Cardinality(Pairs(old1)) + Cardinality(new1)
  <2> SUFFICES ASSUME NEW old1, NEW new1 \in SUBSET fresh, IsFiniteSet(old1), old1 \subseteq old
               PROVE  Cardinality(Pairs(old1 \union new1)) = Cardinality(Pairs(old1)) + Cardinality(new1)
    OBVIOUS
  <2>1. Pairs(old1 \union new1) = Pairs(old1) \union Pairs(new1)
    OBVIOUS
  <2>2. Pairs(old1) \intersect Pairs(new1) = {}
    OBVIOUS
  <2>3. IsFiniteSet(Pairs(old1)) /\ IsFiniteSet(Pairs(new1)) /\ Cardinality(Pairs(new1)) = Cardinality(new1)
    BY <1>3, PairsAreFinite
  <2> HIDE DEF Pairs
  <2>4. Cardinality(Pairs(old1)) \in Nat /\ Cardinality(Pairs(new1)) \in Nat
    BY <2>3, FS_CardinalityType
  <2>5. Cardinality(Pairs(old1) \union Pairs(new1))
          = Cardinality(Pairs(old1)) + Cardinality(Pairs(new1)) - Cardinality(Pairs(old1) \intersect Pairs(new1))
    BY <2>3, FS_Union
  <2>6. Cardinality(Pairs(old1) \intersect Pairs(new1)) = 0
    BY <2>2, FS_EmptySet
  <2>7. Cardinality(Pairs(old1 \union new1)) = Cardinality(Pairs(old1) \union Pairs(new1))
    BY <2>1
  <2> DEFINE a == Cardinality(Pairs(old1))
             b == Cardinality(Pairs(new1))
  <2>8. Cardinality(Pairs(old1) \union Pairs(new1)) = a + b - 0 /\ a \in Nat /\ b \in Nat
    BY <2>4, <2>5, <2>6
  <2> HIDE DEF a, b
  <2>9. Cardinality(Pairs(old1) \union Pairs(new1)) = a + b
    BY <2>8
  <2> QED  BY <2>3, <2>7, <2>9 DEF a, b
<1> HIDE DEF t
<1>9. /\ Cardinality(fresh) \in Nat /\ Cardinality(eval) \in Nat /\ Cardinality(Imp(fresh)) \in Nat
      /\ Cardinality(alerted) \in Nat /\ \A why : Cardinality(Of(why)) \in Nat
  <2> HIDE DEF Imp, Of, eval, alerted
  <2> QED  BY <1>1, <1>2, <1>5
<1>10. t \in Totals
  <2> HIDE DEF Imp, Of, eval, alerted
  <2> QED  BY <1>4, <1>9 DEF Totals
<1>11. t.segments = Cardinality(Pairs(old \union new))
  <2>1. Pairs(old \union new) = Pairs(old \union fresh)
    OBVIOUS
  <2>2. Cardinality(Pairs(old \union fresh)) = Cardinality(Pairs(old)) + Cardinality(fresh)
    BY <1>8
  <2>3. total.segments = Cardinality(Pairs(old))
    BY DEF Sums
  <2> HIDE DEF Pairs, Imp, Of, eval, alerted
  <2> QED  BY <1>4, <2>1, <2>2, <2>3
<1>12. t.misread + t.cloned + t.undetermined = t.impossible
  <2> HIDE DEF Imp, Of, eval, alerted
  <2>1. Cardinality(Of("likely_cloned") \union Of("undetermined"))
          = Cardinality(Of("likely_cloned")) + Cardinality(Of("undetermined")) - 0
    BY <1>2, <1>5, <1>7, FS_Union, FS_EmptySet
  <2>2. Cardinality(Imp(fresh)) = Cardinality(Of("likely_misread"))
          + Cardinality(Of("likely_cloned") \union Of("undetermined")) - 0
    <3>1. IsFiniteSet(Of("likely_misread")) /\ IsFiniteSet(Of("likely_cloned") \union Of("undetermined"))
      BY <1>2, <1>5, FS_Union
    <3> QED  BY <1>6, <1>7, <3>1, FS_Union, FS_EmptySet
  <2>3. total.misread + total.cloned + total.undetermined = total.impossible
    BY DEF Sums
  <2> QED  BY <1>4, <1>9, <2>1, <2>2, <2>3 DEF Totals
<1>13. t.impossible <= t.evaluable /\ t.alerts <= t.cloned
  <2> HIDE DEF Imp, Of, eval, alerted
  <2>1. Cardinality(Imp(fresh)) <= Cardinality(eval)
    BY <1>2, <1>5, FS_Subset
  <2>2. Cardinality(alerted) <= Cardinality(Of("likely_cloned"))
    BY <1>2, <1>5, FS_Subset
  <2>3. total.impossible <= total.evaluable /\ total.alerts <= total.cloned
    BY DEF Sums
  <2> QED  BY <1>4, <1>9, <2>1, <2>2, <2>3 DEF Totals
<1>14. t.impossible <= Cardinality(Pairs(Imp(old \union new)))
  <2>1. Imp(old) \union Imp(fresh) \subseteq Imp(old \union new)
    BY <1>1
  <2>2. Pairs(Imp(old) \union Imp(fresh)) \subseteq Pairs(Imp(old \union new))
    BY <2>1
  <2>3. IsFiniteSet(Imp(old)) /\ IsFiniteSet(Imp(old \union new))
    <3>1. IsFiniteSet(old \union new)
      BY FS_Union
    <3> QED  BY <3>1, FS_Subset
  <2>4. IsFiniteSet(Pairs(Imp(old))) /\ IsFiniteSet(Pairs(Imp(old \union new)))
    <3> HIDE DEF Imp
    <3> QED  BY <2>3, PairsAreFinite
  <2>5. Cardinality(Pairs(Imp(old) \union Imp(fresh))) = Cardinality(Pairs(Imp(old))) + Cardinality(Imp(fresh))
    <3>1. Imp(old) \subseteq old
      OBVIOUS
    <3> HIDE DEF Imp, Pairs
    <3> QED  BY <1>5, <1>8, <2>3, <3>1
  <2>6. total.impossible <= Cardinality(Pairs(Imp(old)))
    BY DEF Sums
  <2> HIDE DEF Imp, Of, eval, alerted, Pairs
  <2>7. Cardinality(Pairs(Imp(old) \union Imp(fresh))) <= Cardinality(Pairs(Imp(old \union new)))
    BY <2>2, <2>4, FS_Subset
  <2>8. Cardinality(Pairs(Imp(old))) \in Nat /\ Cardinality(Pairs(Imp(old \union new))) \in Nat
    BY <2>4, FS_CardinalityType
  <2> QED  BY <1>4, <1>9, <2>5, <2>6, <2>7, <2>8 DEF Totals
<1>15. t.evaluable > t.impossible => \E f \in old \union new : f.feasibility = "feasible"
  <2> SUFFICES ASSUME t.evaluable > t.impossible, \A f \in old \union new : f.feasibility # "feasible"
               PROVE  FALSE
    OBVIOUS
  <2>1. eval = Imp(fresh)
    BY <1>1 DEF Verdict
  <2>2. ~(total.evaluable > total.impossible)
    BY DEF Sums
  <2> HIDE DEF Imp, Of, eval, alerted
  <2> QED  BY <1>4, <1>9, <2>1, <2>2 DEF Totals
<1> QED  BY <1>10, <1>11, <1>12, <1>13, <1>14, <1>15 DEF Sums, t

Job == sweep_job

SweepInv ==
    /\ sweep_read \subseteq DOMAIN Shot /\ sweep_up \in BOOLEAN
    /\ CacheFollows
    /\ Job \in [pc : {"estate", "plates", "sweep", "done"}, measured : {Job.measured}, due : Seq(Sweep!Plates),
                reports : {Job.reports}, total : Totals, says : {Job.says}]
    /\ \E R : Job.reports \in Seq(R)
    /\ \A k \in DOMAIN Job.reports : \E n \in Nat : DOMAIN Job.reports[k] = 1..n
    /\ Sums(Job.total, Sweep!Shown)
    /\ Job.pc # "estate" => Job.measured.sightings \in Nat
    /\ Job.pc # "done" => Job.says = NA
    /\ Job.says # NA /\ Job.says.says = "none impossible" => Job.total.evaluable > Job.total.impossible

(* What was shown is finite, and one more report adds what it shows. *)
LEMMA ShownIsFinite ==
    ASSUME SweepInv
    PROVE  IsFiniteSet(Sweep!Shown)
<1> DEFINE D == DOMAIN sweep_job.reports
           all == {Sweep!ToSet(sweep_job.reports[k]) : k \in D}
           h == [k \in D |-> Sweep!ToSet(sweep_job.reports[k])]
<1>1. PICK n \in Nat : D = 1..n
  BY LenProperties DEF SweepInv, Job
<1>2. h \in Surjection(D, all) /\ IsFiniteSet(D)
  BY <1>1, FS_Interval DEF Surjection
<1>3. IsFiniteSet(all)
  <2> HIDE DEF D, all, h
  <2> QED  BY <1>2, FS_Surjection
<1>4. \A T \in all : IsFiniteSet(T)
  BY ReportIsFinite DEF SweepInv, Job
<1>5. Sweep!Shown = UNION all
  BY DEF Sweep!Shown
<1> HIDE DEF all
<1> QED  BY <1>3, <1>4, <1>5, FS_UNION

LEMMA ShownGrows ==
    ASSUME SweepInv, NEW r, sweep_job'.reports = Append(sweep_job.reports, r)
    PROVE  /\ Sweep!Shown' = Sweep!Shown \union Sweep!ToSet(r)
           /\ \E R : sweep_job'.reports \in Seq(R)
           /\ \A k \in DOMAIN sweep_job'.reports :
                \/ k \in DOMAIN sweep_job.reports /\ sweep_job'.reports[k] = sweep_job.reports[k]
                \/ sweep_job'.reports[k] = r
<1> DEFINE q == sweep_job.reports
<1>1. PICK R0 : q \in Seq(R0)
  BY DEF SweepInv, Job
<1> DEFINE R == R0 \union {r}
<1>2. q \in Seq(R) /\ r \in R
  BY <1>1, SeqMonotonic
<1> HIDE DEF R
<1>3. /\ Append(q, r) \in Seq(R) /\ Len(Append(q, r)) = Len(q) + 1
      /\ \A i \in 1..Len(q) : Append(q, r)[i] = q[i]
      /\ Append(q, r)[Len(q) + 1] = r
  BY <1>2, AppendProperties
<1>4. Len(q) \in Nat /\ DOMAIN q = 1..Len(q) /\ DOMAIN Append(q, r) = 1..(Len(q) + 1)
  BY <1>2, <1>3, LenProperties
<1>5. sweep_job'.reports = Append(q, r)
  OBVIOUS
<1>6. Sweep!Shown = UNION {Sweep!ToSet(q[k]) : k \in 1..Len(q)}
  BY <1>4 DEF Sweep!Shown
<1>7. Sweep!Shown' = UNION {Sweep!ToSet(Append(q, r)[k]) : k \in 1..(Len(q) + 1)}
  BY <1>4, <1>5 DEF Sweep!Shown
<1> HIDE DEF q
<1>8. \A k \in 1..(Len(q) + 1) : k \in 1..Len(q) \/ k = Len(q) + 1
  BY <1>4
<1>9. UNION {Sweep!ToSet(Append(q, r)[k]) : k \in 1..(Len(q) + 1)}
        = (UNION {Sweep!ToSet(q[k]) : k \in 1..Len(q)}) \union Sweep!ToSet(r)
  <2> DEFINE T(s) == Sweep!ToSet(s)
  <2>1. ASSUME NEW x, NEW k \in 1..(Len(q) + 1), x \in T(Append(q, r)[k])
        PROVE  x \in T(r) \/ \E j \in 1..Len(q) : x \in T(q[j])
    BY <1>3, <1>8, <2>1
  <2>2. ASSUME NEW x, NEW j \in 1..Len(q), x \in T(q[j])
        PROVE  \E k \in 1..(Len(q) + 1) : x \in T(Append(q, r)[k])
    <3>1. j \in 1..(Len(q) + 1)
      BY <1>4
    <3> QED  BY <1>3, <2>2, <3>1
  <2>3. ASSUME NEW x, x \in T(r)
        PROVE  \E k \in 1..(Len(q) + 1) : x \in T(Append(q, r)[k])
    <3>1. Len(q) + 1 \in 1..(Len(q) + 1)
      BY <1>4
    <3> QED  BY <1>3, <2>3, <3>1
  <2> HIDE DEF T
  <2> QED  BY <2>1, <2>2, <2>3
<1> QED  BY <1>3, <1>4, <1>5, <1>6, <1>7, <1>8, <1>9 DEF q

LEMMA SweepInit == Sweep!Init => SweepInv
<1> SUFFICES ASSUME Sweep!Init PROVE SweepInv
  OBVIOUS
<1>1. /\ sweep_job = [pc |-> "estate", measured |-> NA, due |-> <<>>, reports |-> <<>>,
                      total |-> Sweep!Zero, says |-> NA]
      /\ sweep_read = Early /\ sweep_up = TRUE /\ sweep_cache = [p \in Sweep!Plates |-> NA]
  BY DEF Sweep!Init, Sweep!Idle
<1>2. Early \subseteq DOMAIN Shot
  BY SweepConstants DEF Sweep!SweepAssumption
<1>3. Sweep!Shown = {}
  BY <1>1 DEF Sweep!Shown
<1>4. Sums(Sweep!Zero, {})
  <2>1. {Sweep!Pair(f) : f \in {}} = {} /\ {x \in {} : x.feasibility = "impossible"} = {}
    OBVIOUS
  <2> QED  BY <2>1, FS_EmptySet DEF Sums, Sweep!Zero
<1>5. CacheFollows
  BY <1>1 DEF CacheFollows
<1>6. Sweep!Zero \in Totals
  BY DEF Totals, Sweep!Zero
<1>7. <<>> \in Seq(Sweep!Plates) /\ DOMAIN sweep_job.reports = {} /\ sweep_job.reports \in Seq({})
  BY <1>1
<1> QED  BY <1>1, <1>2, <1>3, <1>4, <1>5, <1>6, <1>7 DEF SweepInv, Job

LEMMA EstateStep == SweepInv /\ Sweep!Estate => SweepInv'
<1> SUFFICES ASSUME SweepInv, Sweep!Estate PROVE SweepInv'
  OBVIOUS
<1>1. IsFiniteSet(sweep_read)
  BY ShotIsFinite, FS_Subset DEF SweepInv
<1>2. Sweep!Cardinality(sweep_read) \in Nat
  BY <1>1, SameSize, FS_CardinalityType
<1>3. /\ sweep_job' = [sweep_job EXCEPT !.pc = "plates",
                          !.measured = [sightings |-> Sweep!Cardinality(sweep_read), placed |-> Sweep!Cardinality(Placed)]]
      /\ UNCHANGED <<sweep_read, sweep_up, sweep_cache>> /\ sweep_job.pc = "estate"
  BY DEF Sweep!Estate
<1>4. Sweep!Shown' = Sweep!Shown /\ CacheFollows'
  BY <1>3 DEF Sweep!Shown, SweepInv, CacheFollows, Job
<1> QED  BY <1>2, <1>3, <1>4 DEF SweepInv, Job

LEMMA PlatesStep == SweepInv /\ Sweep!PlatesToSweep => SweepInv'
<1> SUFFICES ASSUME SweepInv, Sweep!PlatesToSweep PROVE SweepInv'
  OBVIOUS
<1> DEFINE m == Sweep!MostReadFirst
           k == IF Len(m) < PlateLimit THEN Len(m) ELSE PlateLimit
<1>1. m \in Seq(Sweep!Plates) /\ Len(m) \in Nat
  BY MostReadFirstIsAnOrder, LenProperties DEF SweepInv
<1>2. PlateLimit \in Nat
  BY SweepConstants DEF Sweep!SweepAssumption
<1>3. /\ sweep_job' = [sweep_job EXCEPT !.pc = "sweep", !.due = SubSeq(m, 1, k)]
      /\ UNCHANGED <<sweep_read, sweep_up, sweep_cache>> /\ sweep_job.pc = "plates"
  BY DEF Sweep!PlatesToSweep
<1> HIDE DEF m
<1>4. k \in Int /\ k <= Len(m) /\ \A i \in 1..k : m[i] \in Sweep!Plates
  BY <1>1, <1>2, ElementOfSeq
<1> HIDE DEF k
<1>5. SubSeq(m, 1, k) \in Seq(Sweep!Plates)
  BY <1>4, SubSeqProperties
<1>6. Sweep!Shown' = Sweep!Shown /\ CacheFollows'
  BY <1>3 DEF Sweep!Shown, SweepInv, CacheFollows, Job
<1> QED  BY <1>3, <1>5, <1>6 DEF SweepInv, Job

LEMMA SkipStep == SweepInv /\ Sweep!Skip => SweepInv'
<1> SUFFICES ASSUME SweepInv, Sweep!Skip PROVE SweepInv'
  OBVIOUS
<1>1. /\ sweep_job' = [sweep_job EXCEPT !.due = Tail(sweep_job.due)]
      /\ UNCHANGED <<sweep_read, sweep_up, sweep_cache>> /\ sweep_job.due # <<>>
  BY DEF Sweep!Skip, SweepInv, Job
<1>2. Tail(sweep_job.due) \in Seq(Sweep!Plates)
  BY <1>1, HeadTailProperties DEF SweepInv, Job
<1>3. Sweep!Shown' = Sweep!Shown /\ CacheFollows'
  BY <1>1 DEF Sweep!Shown, SweepInv, CacheFollows, Job
<1> QED  BY <1>1, <1>2, <1>3 DEF SweepInv, Job

LEMMA ExamineStep == SweepInv /\ Sweep!Examine => SweepInv'
<1> SUFFICES ASSUME SweepInv, Sweep!Examine PROVE SweepInv'
  OBVIOUS
<1> DEFINE p == Head(sweep_job.due)
           r == Sweep!Report(p)
           fresh == Sweep!Fresh(r, sweep_job.reports)
           entry == [fingerprint |-> Sweep!Trace(p),
                     segments |-> [i \in DOMAIN Sweep!Built(p) |-> Sweep!AsStored(Sweep!Built(p)[i])]]
<1>1. /\ sweep_job.pc = "sweep" /\ sweep_job.due # <<>> /\ Len(Sweep!Trace(p)) >= 2
      /\ sweep_job' = [sweep_job EXCEPT !.due = Tail(sweep_job.due), !.reports = Append(sweep_job.reports, r),
                                        !.total = Sweep!Tally(sweep_job.total, fresh)]
      /\ sweep_cache' = [sweep_cache EXCEPT ![p] = entry] \/ UNCHANGED sweep_cache
      /\ UNCHANGED <<sweep_read, sweep_up>>
  BY DEF Sweep!Examine, SweepInv, Job
<1>2. p \in Sweep!Plates /\ Tail(sweep_job.due) \in Seq(Sweep!Plates)
  BY <1>1, HeadTailProperties DEF SweepInv, Job
<1>3. /\ \E n \in Nat : DOMAIN r = 1..n
      /\ \A f \in Sweep!ToSet(r) : Verdict(f)
      /\ \A f, g \in Sweep!ToSet(r) : Sweep!Pair(f) = Sweep!Pair(g) => f = g
  BY <1>1, <1>2, ReportIsSound DEF SweepInv
<1>4. CacheFollows'
  <2>1. Follows(entry.segments, entry.fingerprint)
    BY BuiltFollows
  <2> HIDE DEF entry, p
  <2>2. CASE UNCHANGED sweep_cache
    BY <2>2 DEF CacheFollows, SweepInv
  <2>3. CASE sweep_cache' = [sweep_cache EXCEPT ![p] = entry]
    <3>1. PICK R : sweep_cache \in [Sweep!Plates -> R]
      BY DEF CacheFollows, SweepInv
    <3>2. sweep_cache' \in [Sweep!Plates -> R \union {entry}]
      BY <1>2, <2>3, <3>1
    <3>3. \A q \in Sweep!Plates : sweep_cache'[q] = IF q = p THEN entry ELSE sweep_cache[q]
      BY <1>2, <2>3, <3>1
    <3> QED  BY <2>1, <3>2, <3>3 DEF CacheFollows, SweepInv
  <2> QED  BY <1>1, <2>2, <2>3
<1>5. sweep_job'.reports = Append(sweep_job.reports, r)
  BY <1>1 DEF SweepInv, Job
<1>6. /\ Sweep!Shown' = Sweep!Shown \union Sweep!ToSet(r)
      /\ \E R : sweep_job'.reports \in Seq(R)
      /\ \A k \in DOMAIN sweep_job'.reports : \E n \in Nat : DOMAIN sweep_job'.reports[k] = 1..n
  <2> HIDE DEF r
  <2>1. /\ Sweep!Shown' = Sweep!Shown \union Sweep!ToSet(r)
        /\ \E R : sweep_job'.reports \in Seq(R)
        /\ \A k \in DOMAIN sweep_job'.reports :
             \/ k \in DOMAIN sweep_job.reports /\ sweep_job'.reports[k] = sweep_job.reports[k]
             \/ sweep_job'.reports[k] = r
    BY <1>5, ShownGrows
  <2> QED  BY <1>3, <2>1 DEF SweepInv, Job
<1>7. fresh = {f \in Sweep!ToSet(r) : Sweep!Pair(f) \notin {Sweep!Pair(g) : g \in Sweep!Shown}}
  <2>1. Sweep!Counted(sweep_job.reports) = {Sweep!Pair(g) : g \in Sweep!Shown}
    BY DEF Sweep!Counted, Sweep!Shown, Sweep!ToSet
  <2> QED  BY <2>1 DEF Sweep!Fresh
<1>8. Sweep!Tally(sweep_job.total, fresh) \in Totals /\ Sums(Sweep!Tally(sweep_job.total, fresh), Sweep!Shown')
  <2>1. IsFiniteSet(Sweep!ToSet(r))
    BY <1>3, ReportIsFinite
  <2>2. IsFiniteSet(Sweep!Shown) /\ sweep_job.total \in Totals /\ Sums(sweep_job.total, Sweep!Shown)
    BY ShownIsFinite DEF SweepInv, Job
  <2> HIDE DEF r, fresh
  <2> QED  BY <1>3, <1>6, <1>7, <2>1, <2>2, TallyAddsUp
<1> HIDE DEF p, r, fresh, entry
<1> QED  BY <1>1, <1>2, <1>4, <1>6, <1>8 DEF SweepInv, Job

LEMMA ConcludeStep == SweepInv /\ Sweep!Conclude => SweepInv'
<1> SUFFICES ASSUME SweepInv, Sweep!Conclude PROVE SweepInv'
  OBVIOUS
<1> DEFINE says == Sweep!Interpretation(sweep_job.measured, sweep_job.total)
           t == sweep_job.total
           n == sweep_job.measured.sightings
<1>1. /\ sweep_job' = [sweep_job EXCEPT !.pc = "done", !.says = says]
      /\ UNCHANGED <<sweep_read, sweep_up, sweep_cache>> /\ sweep_job.pc = "sweep"
  BY DEF Sweep!Conclude
<1>2. n \in Nat /\ t.evaluable \in Nat /\ t.impossible \in Nat
  BY <1>1 DEF SweepInv, Job, Totals
<1>3. says.says = "none impossible" => t.evaluable > t.impossible
  <2> DEFINE I == Sweep!Interpretation(sweep_job.measured, sweep_job.total)
  <2>1. CASE n = 0
    <3>1. n = 0 /\ ~(n > 0)
      BY <2>1
    <3>2. I = [says |-> "nothing swept", causes |-> {}]
      BY <3>1, Zenon DEF Sweep!Interpretation
    <3> HIDE DEF I
    <3>3. I.says # "none impossible"
      BY <3>2
    <3> QED  BY <3>3 DEF I
  <2>2. CASE n > 0 /\ t.evaluable = 0
    <3>1. n # 0 /\ n > 0 /\ t.evaluable = 0 /\ ~(t.evaluable > 0)
      BY <1>2, <2>2
    <3>2. I = [says |-> "not testable", causes |-> Sweep!Causes(sweep_job.measured)]
      BY <3>1, Zenon DEF Sweep!Interpretation
    <3> HIDE DEF I
    <3>3. I.says # "none impossible"
      BY <3>2
    <3> QED  BY <3>3 DEF I
  <2>3. CASE n > 0 /\ t.evaluable > 0 /\ t.impossible = 0
    BY <2>3
  <2>4. CASE n > 0 /\ t.evaluable > 0 /\ t.impossible # 0
    <3>1. n # 0 /\ n > 0 /\ t.evaluable # 0 /\ t.evaluable > 0 /\ t.impossible # 0
      BY <1>2, <2>4
    <3>2. I = [says |-> IF t.impossible * 5 > t.evaluable THEN "suspect the clocks" ELSE "rate", causes |-> {}]
      BY <3>1, Zenon DEF Sweep!Interpretation
    <3> HIDE DEF I
    <3>3. I.says # "none impossible"
      BY <3>2
    <3> QED  BY <3>3 DEF I
  <2>5. \/ n = 0
        \/ n > 0 /\ t.evaluable = 0
        \/ n > 0 /\ t.evaluable > 0 /\ t.impossible = 0
        \/ n > 0 /\ t.evaluable > 0 /\ t.impossible # 0
    BY <1>2
  <2> QED  BY <2>1, <2>2, <2>3, <2>4, <2>5, Zenon
<1>4. Sweep!Shown' = Sweep!Shown /\ CacheFollows'
  BY <1>1 DEF Sweep!Shown, SweepInv, CacheFollows, Job
<1> HIDE DEF says
<1> QED  BY <1>1, <1>3, <1>4 DEF SweepInv, Job

LEMMA SweepStep == SweepInv /\ Sweep!Next => SweepInv'
<1> SUFFICES ASSUME SweepInv, Sweep!Next PROVE SweepInv'
  OBVIOUS
<1>1. CASE Sweep!Restart
  <2>1. /\ sweep_job' = [pc |-> "estate", measured |-> NA, due |-> <<>>, reports |-> <<>>,
                         total |-> Sweep!Zero, says |-> NA]
        /\ UNCHANGED <<sweep_read, sweep_up, sweep_cache>>
    BY <1>1 DEF Sweep!Restart, Sweep!Idle
  <2>2. Sweep!Shown' = {}
    BY <2>1 DEF Sweep!Shown
  <2>3. Sums(Sweep!Zero, {})
    <3>1. {Sweep!Pair(f) : f \in {}} = {} /\ {x \in {} : x.feasibility = "impossible"} = {}
      OBVIOUS
    <3> QED  BY <3>1, FS_EmptySet DEF Sums, Sweep!Zero
  <2>4. Sweep!Zero \in Totals /\ CacheFollows'
    BY <2>1 DEF Totals, Sweep!Zero, SweepInv, CacheFollows
  <2>5. <<>> \in Seq(Sweep!Plates) /\ DOMAIN sweep_job'.reports = {} /\ sweep_job'.reports \in Seq({})
    BY <2>1
  <2> QED  BY <2>1, <2>2, <2>3, <2>4, <2>5 DEF SweepInv, Job
<1>2. ASSUME UNCHANGED <<sweep_cache, sweep_job>>, sweep_read' \subseteq DOMAIN Shot, sweep_up' \in BOOLEAN
      PROVE  SweepInv'
  <2>1. Sweep!Shown' = Sweep!Shown /\ CacheFollows'
    BY <1>2 DEF Sweep!Shown, SweepInv, CacheFollows
  <2> QED  BY <1>2, <2>1 DEF SweepInv, Job
<1>3. CASE Sweep!Router
  BY <1>2, <1>3 DEF Sweep!Router, SweepInv
<1>4. CASE \E s \in DOMAIN Shot : Sweep!Arrive(s)
  BY <1>2, <1>4 DEF Sweep!Arrive, SweepInv
<1> QED
  BY <1>1, <1>3, <1>4, EstateStep, PlatesStep, SkipStep, ExamineStep, ConcludeStep DEF Sweep!Next

(* However many spellings of a plate trace the same pair of sightings, and *)
(* whatever arrives, fails or is cached between two plates, the sweep      *)
(* counts a transition once, its breakdown adds up, it claims no hop       *)
(* impossible that no report shows, and it says "none impossible" only of  *)
(* hops it assessed (jobs/analyze-anomalies.ts).                           *)
THEOREM SweepHolds == EngineSpec => []SweepAddsUp
<1>1. EngineInit => SweepInv
  BY SweepInit DEF EngineInit
<1>2. SweepInv /\ [EngineNext]_engineVars => SweepInv'
  <2> SUFFICES ASSUME SweepInv, [EngineNext]_engineVars PROVE SweepInv'
    OBVIOUS
  <2>1. CASE UNCHANGED sweepVars
    BY <2>1 DEF sweepVars, SweepInv, Job, CacheFollows, Sweep!Shown
  <2>2. CASE Sweep!Next
    BY <2>2, SweepStep
  <2> QED  BY <2>1, <2>2 DEF EngineNext, engineVars
<1>3. SweepInv => SweepAddsUp
  <2> SUFFICES ASSUME SweepInv PROVE Sweep!SweepAddsUp
    BY DEF SweepAddsUp
  <2> DEFINE t == sweep_job.total
  <2>1. Sweep!TypeOK
    <3>1. \A i \in DOMAIN sweep_job.due : sweep_job.due[i] \in Sweep!Plates
      BY LenProperties, ElementOfSeq DEF SweepInv, Job
    <3> QED  BY <3>1, TotalsAreTyped DEF Sweep!TypeOK, SweepInv, Job
  <2>2. /\ t.segments = Sweep!Cardinality({Sweep!Pair(f) : f \in Sweep!Shown})
        /\ t.misread + t.cloned + t.undetermined = t.impossible /\ t.impossible <= t.evaluable
        /\ t.impossible <= Sweep!Cardinality({Sweep!Pair(f) : f \in {x \in Sweep!Shown : x.feasibility = "impossible"}})
        /\ t.alerts <= t.cloned
    BY SameSize DEF SweepInv, Job, Sums
  <2>3. sweep_job.says # NA /\ sweep_job.says.says = "none impossible" =>
          \E f \in Sweep!Shown : f.feasibility = "feasible"
    BY DEF SweepInv, Job, Sums
  <2> QED  BY <2>1, <2>2, <2>3 DEF Sweep!SweepAddsUp
<1> QED  BY <1>1, <1>2, <1>3, PTL DEF EngineSpec
=============================================================================
