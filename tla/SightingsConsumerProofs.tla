---------------------- MODULE SightingsConsumerProofs ----------------------
(***************************************************************************)
(* Proofs about SightingsConsumer, for any number of processes, any batch  *)
(* size and any stream.  The argument: a delivery is a gapless piece of    *)
(* the stream above the cursor, so batches are disjoint and untouched when *)
(* they are handed out, and from then on each process accounts for every   *)
(* entry of its own batch until it acknowledges it.                        *)
(***************************************************************************)
EXTENDS SightingsConsumer, SetLemmas, SequenceTheorems

(* InOrder lists exactly the elements of a finite set. *)
LEMMA InOrderLists ==
    ASSUME NEW S \in SUBSET Ids, IsFiniteSet(S)
    PROVE  /\ InOrder(S) \in Seq(Ids)
           /\ Len(InOrder(S)) = Cardinality(S)
           /\ {InOrder(S)[k] : k \in 1..Len(InOrder(S))} = S
<1> DEFINE Nth(k) == CHOOSE i \in S : Rank(S, i) = k - 1
<1> USE ConsumerAssumption
<1>0. S \in SUBSET Nat
  BY DEF Ids
<1>1. Cardinality(S) \in Nat /\ S \in SUBSET Nat
  BY <1>0, FS_CardinalityType
<1>2. \A k \in 1..Cardinality(S) : \E i \in S : Rank(S, i) = k - 1
  BY <1>1, Ranks
<1>3. \A k \in 1..Cardinality(S) : Nth(k) \in S /\ Rank(S, Nth(k)) = k - 1
  BY <1>2
<1>4. InOrder(S) = [k \in 1..Cardinality(S) |-> Nth(k)]
  BY DEF InOrder, Rank
<1> HIDE DEF Nth
<1>5. InOrder(S) \in Seq(Ids) /\ Len(InOrder(S)) = Cardinality(S)
  <2>1. InOrder(S) \in [1..Cardinality(S) -> Ids]
    BY <1>3, <1>4
  <2> QED  BY <1>1, <2>1
<1>6. ASSUME NEW i \in S
      PROVE  \E k \in 1..Cardinality(S) : InOrder(S)[k] = i
  <2>1. Rank(S, i) \in 0..(Cardinality(S) - 1)
    BY <1>1, Ranks
  <2>2. PICK k \in 1..Cardinality(S) : k = Rank(S, i) + 1
    BY <1>1, <2>1
  <2>3. Rank(S, Nth(k)) = Rank(S, i) /\ Nth(k) \in S
    BY <1>3, <2>1, <2>2
  <2>4. ~ (Nth(k) < i) /\ ~ (i < Nth(k))
    <3>1. Rank(S, i) \in Nat
      BY <1>1, <2>1
    <3>2. \A a, b \in S : a < b => Rank(S, a) < Rank(S, b)
      BY <1>1, Ranks
    <3>3. Nth(k) < i => Rank(S, Nth(k)) < Rank(S, i)
      BY <2>3, <3>2
    <3>4. i < Nth(k) => Rank(S, i) < Rank(S, Nth(k))
      BY <2>3, <3>2
    <3> QED  BY <2>3, <3>1, <3>3, <3>4
  <2>5. Nth(k) = i
    <3>1. Nth(k) \in Nat /\ i \in Nat
      BY <1>1, <2>3
    <3> QED  BY <2>4, <3>1
  <2> QED  BY <1>4, <2>5
<1> QED  BY <1>3, <1>4, <1>5, <1>6

(* A delivery is a non-empty initial piece of what the group may still be   *)
(* given. *)
LEMMA Delivered ==
    ASSUME TypeOK, Delivery(BatchSize) # {}
    PROVE  LET new == Delivery(BatchSize)
               top == Newest(new)
           IN  /\ new \subseteq 1..Len(stream) /\ IsFiniteSet(new)
               /\ \A i \in new : i > cursor
               /\ top \in new /\ \A i \in new : i <= top
               /\ \A i \in cursor + 1 .. top : i \in new \/ i <= trimmed
<1> DEFINE new == Delivery(BatchSize)
           top == Newest(new)
<1> USE ConsumerAssumption
<1>1. /\ Len(stream) \in Nat /\ cursor \in Nat /\ trimmed \in Nat
      /\ Undelivered \subseteq 1..Len(stream) /\ new \subseteq Undelivered
  BY DEF TypeOK, Undelivered, Delivery
<1>2. IsFiniteSet(Undelivered) /\ IsFiniteSet(new)
  <2> HIDE DEF new
  <2>1. IsFiniteSet(1..Len(stream))
    BY <1>1, FS_Interval
  <2>2. IsFiniteSet(Undelivered)
    BY <1>1, <2>1, FS_Subset
  <2> QED  BY <1>1, <2>2, FS_Subset
<1>3. new \in SUBSET Nat /\ Undelivered \in SUBSET Nat
  <2>1. 1..Len(stream) \subseteq Nat
    OBVIOUS
  <2> HIDE DEF new
  <2> QED  BY <1>1, <2>1
<1>4. Cardinality(new) \in Nat \ {0}
  BY <1>2, FS_CardinalityType, FS_EmptySet
<1> HIDE DEF new
<1>5. PICK m \in new : Rank(new, m) = Cardinality(new) - 1
  BY <1>2, <1>3, <1>4, Ranks
<1>6. \A j \in new : j <= m
  BY <1>2, <1>3, <1>4, <1>5, Ranks
<1>7. top \in new /\ \A j \in new : j <= top
  BY <1>5, <1>6 DEF Newest
<1> HIDE DEF top
<1>8. ASSUME NEW i \in Undelivered, i <= top
      PROVE  i \in new
  <2>1. top \in Undelivered /\ Rank(Undelivered, top) < BatchSize
    BY <1>1, <1>7 DEF new, Delivery, Rank
  <2>2. Rank(Undelivered, i) <= Rank(Undelivered, top)
    BY <1>2, <1>3, <1>8, <2>1, Ranks, FS_CardinalityType
  <2>3. /\ Rank(Undelivered, i) \in Nat /\ Rank(Undelivered, top) \in Nat
    BY <1>2, <1>3, <2>1, Ranks, FS_CardinalityType
  <2> QED  BY <2>1, <2>2, <2>3 DEF new, Delivery, Rank
<1>9. \A i \in cursor + 1 .. top : i \in Undelivered \/ i <= trimmed
  BY <1>1, <1>7 DEF Undelivered
<1>10. \A i \in new : i > cursor
  BY <1>1 DEF Undelivered
<1>11. new \subseteq 1..Len(stream)
  BY <1>1
<1> QED  BY <1>2, <1>7, <1>8, <1>9, <1>10, <1>11 DEF new, top

-----------------------------------------------------------------------------
LEMMA InitInv == Init => IInv
<1> SUFFICES ASSUME Init PROVE IInv
  OBVIOUS
<1> USE ConsumerAssumption DEF Init
<1>1. TypeOK
  BY DEF TypeOK
<1>2. StreamInv
  BY DEF StreamInv, Ids
<1>3. \A p \in Process : BatchInv(p) /\ WriteInv(p)
  BY DEF BatchInv, WriteInv, Waiting
<1>4. AckedMeansWritten /\ WrittenAtMostOnce
  BY DEF AckedMeansWritten, WrittenAtMostOnce
<1> QED  BY <1>1, <1>2, <1>3, <1>4 DEF IInv

(* An entry published later changes nothing about the earlier ones. *)
LEMMA PublishInv ==
    ASSUME IInv, NEW m \in Payload, Publish(m)
    PROVE  IInv'
<1> USE ConsumerAssumption DEF bus, group, memory, tables
<1>1. TypeOK /\ StreamInv /\ (\A p \in Process : BatchInv(p) /\ WriteInv(p))
      /\ AckedMeansWritten /\ WrittenAtMostOnce
  BY DEF IInv
<1>2. PICK t \in {trimmed} \union {i \in trimmed..Len(stream) : Len(stream) + 1 - i >= MaxLen} :
          /\ trimmed' = t
          /\ missed' = missed \union (cursor + 1)..t
  BY DEF Publish
<1>3. /\ stream \in Seq(Payload) /\ Len(stream) \in Nat /\ Len(stream) < MaxEntries
      /\ trimmed \in 0..Len(stream) /\ cursor \in 0..Len(stream)
      /\ stream' = Append(stream, m)
  BY <1>1 DEF TypeOK, Publish
<1>4. /\ stream' \in Seq(Payload) /\ Len(stream') = Len(stream) + 1
      /\ \A i \in 1..Len(stream) : stream'[i] = stream[i]
  BY <1>3
<1>5. t \in trimmed..Len(stream)
  BY <1>2, <1>3
<1>6. UNCHANGED <<cursor, pending, registry, known, pc, todo, kept, batch, rowsOf, readsOf,
                  correlated, uncorrelated, dropped, crashes>>
  BY DEF Publish
<1>7. TypeOK'
  <2>1. trimmed' \in 0..Len(stream') /\ cursor' \in 0..Len(stream')
    BY <1>2, <1>3, <1>4, <1>5, <1>6
  <2>2. missed' \subseteq Ids
    BY <1>1, <1>2, <1>3, <1>5 DEF TypeOK, Ids
  <2>3. Len(stream') <= MaxEntries
    BY <1>3, <1>4
  <2> QED  BY <1>1, <1>4, <1>6, <2>1, <2>2, <2>3 DEF TypeOK
<1>8. StreamInv'
  <2>1. \A i \in 1..trimmed' : i > cursor' => i \in missed'
    BY <1>2, <1>3, <1>5, <1>6
  <2> QED  BY <1>1, <1>6, <2>1 DEF StreamInv, Ids
<1>9. ASSUME NEW p \in Process
      PROVE  BatchInv(p)' /\ WriteInv(p)'
  <2>1. batch[p] \subseteq 1..Len(stream) /\ kept[p] \subseteq 1..Len(stream)
    <3>1. pending \subseteq 1..cursor /\ 1..cursor \subseteq 1..Len(stream)
      BY <1>1, <1>3 DEF TypeOK
    <3> QED  BY <1>1, <3>1 DEF BatchInv
  <2>2. WithReads(kept[p])' = WithReads(kept[p])
    BY <1>4, <1>6, <2>1 DEF WithReads
  <2>3. BatchInv(p)'
    BY <1>1, <1>6 DEF BatchInv, Waiting
  <2>4. WriteInv(p)'
    BY <1>1, <1>6, <2>2 DEF WriteInv
  <2> QED  BY <2>3, <2>4
<1>10. AckedMeansWritten'
  <2>1. missed \subseteq missed'
    BY <1>2
  <2>2. \A i \in 1..cursor : stream'[i] = stream[i]
    BY <1>3, <1>4
  <2> QED  BY <1>1, <1>6, <2>1, <2>2 DEF AckedMeansWritten
<1>11. WrittenAtMostOnce'
  BY <1>1, <1>6 DEF WrittenAtMostOnce, Ids
<1> QED  BY <1>7, <1>8, <1>9, <1>10, <1>11 DEF IInv

(* A delivery hands out entries nobody has touched. *)
LEMMA PollInv ==
    ASSUME IInv, NEW p \in Process, Poll(p)
    PROVE  IInv'
<1> DEFINE new == Delivery(BatchSize)
<1> USE ConsumerAssumption DEF bus, group, memory, tables
<1>1. TypeOK /\ StreamInv /\ (\A q \in Process : BatchInv(q) /\ WriteInv(q))
      /\ AckedMeansWritten /\ WrittenAtMostOnce
  BY DEF IInv
<1>2. /\ new \subseteq 1..Len(stream) /\ IsFiniteSet(new)
      /\ \A i \in new : i > cursor /\ i <= cursor'
      /\ cursor' \in new
      /\ \A i \in cursor + 1 .. cursor' : i \in new \/ i <= trimmed
  BY <1>1, Delivered DEF Poll
<1>3. Len(stream) \in Nat /\ Len(stream) <= MaxEntries /\ cursor \in 0..Len(stream)
      /\ trimmed \in 0..Len(stream) /\ pending \subseteq 1..cursor
  BY <1>1 DEF TypeOK
<1>4. new \subseteq Ids
  BY <1>2, <1>3 DEF Ids
<1>5. /\ pending' = pending \union new
      /\ batch' = [batch EXCEPT ![p] = new]
      /\ todo' = [todo EXCEPT ![p] = InOrder(new)]
      /\ kept' = [kept EXCEPT ![p] = {}]
      /\ pc' = [pc EXCEPT ![p] = "decode"]
      /\ UNCHANGED <<stream, trimmed, missed, registry, known, rowsOf, readsOf,
                     correlated, uncorrelated, dropped, crashes>>
  BY DEF Poll
<1> HIDE DEF new
<1>6. /\ InOrder(new) \in Seq(Ids)
      /\ {InOrder(new)[k] : k \in 1..Len(InOrder(new))} = new
  BY <1>2, <1>4, InOrderLists
<1>7. cursor' \in 1..Len(stream) /\ cursor' > cursor
  BY <1>2, <1>3
<1>8. TypeOK'
  <2>1. pending' \subseteq 1..cursor'
    BY <1>2, <1>3, <1>5, <1>7
  <2> QED  BY <1>1, <1>4, <1>5, <1>6, <1>7, <2>1 DEF TypeOK
<1>9. StreamInv'
  BY <1>1, <1>3, <1>5, <1>7 DEF StreamInv, Ids
<1>10. ASSUME NEW q \in Process
       PROVE  BatchInv(q)' /\ WriteInv(q)'
  <2>1. CASE q = p
    <3>1. batch'[p] = new /\ kept'[p] = {} /\ pc'[p] = "decode" /\ Waiting(p)' = new
      BY <1>1, <1>5, <1>6 DEF TypeOK, Waiting
    <3>2. BatchInv(p)'
      BY <1>5, <3>1 DEF BatchInv
    <3>3. \A i \in new : rowsOf[i] = 0 /\ readsOf[i] = 0
      BY <1>1, <1>2, <1>4 DEF StreamInv
    <3>4. WriteInv(p)'
      BY <1>5, <3>1, <3>3 DEF WriteInv
    <3> QED  BY <2>1, <3>2, <3>4
  <2>2. CASE q # p
    <3>1. /\ batch'[q] = batch[q] /\ kept'[q] = kept[q] /\ pc'[q] = pc[q] /\ todo'[q] = todo[q]
          /\ Waiting(q)' = Waiting(q) /\ WithReads(kept[q])' = WithReads(kept[q])
      BY <1>1, <1>5, <2>2 DEF TypeOK, Waiting, WithReads
    <3> QED  BY <1>1, <1>5, <3>1 DEF BatchInv, WriteInv
  <2> QED  BY <2>1, <2>2
<1>11. AckedMeansWritten'
  <2> SUFFICES ASSUME NEW i \in 1..cursor', i \notin pending'
               PROVE  \/ i \in dropped
                      \/ i \in missed
                      \/ /\ rowsOf[i] = 1
                         /\ stream[i].reads => readsOf[i] = 1 /\ i \in correlated \union uncorrelated
    BY <1>5 DEF AckedMeansWritten
  <2>1. CASE i <= cursor
    BY <1>1, <1>3, <1>5, <2>1 DEF AckedMeansWritten
  <2>2. CASE i > cursor
    <3>1. i \in cursor + 1 .. cursor' /\ i \notin new
      BY <1>3, <1>5, <1>7, <2>2
    <3>2. i \in 1..trimmed
      BY <1>2, <1>3, <3>1
    <3> QED  BY <1>1, <2>2, <3>2 DEF StreamInv
  <2> QED  BY <1>3, <1>7, <2>1, <2>2
<1>12. WrittenAtMostOnce'
  <2>1. \A q \in Process : batch[q] \cap new = {}
    <3>1. \A q \in Process : batch[q] \subseteq 1..cursor
      BY <1>1, <1>3 DEF BatchInv
    <3>2. new \cap 1..cursor = {}
      BY <1>2, <1>3
    <3> QED  BY <3>1, <3>2
  <2>2. \A q \in Process : q # p => batch'[q] = batch[q]
    BY <1>1, <1>5 DEF TypeOK
  <2>3. batch'[p] = new
    BY <1>1, <1>5 DEF TypeOK
  <2>4. \A q, r \in Process : q # r => batch'[q] \cap batch'[r] = {}
    BY <1>1, <2>1, <2>2, <2>3 DEF WrittenAtMostOnce
  <2> QED  BY <1>1, <1>5, <2>4 DEF WrittenAtMostOnce, Ids
<1> QED  BY <1>8, <1>9, <1>10, <1>11, <1>12 DEF IInv

LEMMA StepInv == IInv /\ [Next]_vars => IInv'
<1> SUFFICES ASSUME IInv, [Next]_vars PROVE IInv'
  OBVIOUS
<1> USE ConsumerAssumption DEF bus, group, memory, tables
<1>t. TypeOK /\ StreamInv /\ (\A q \in Process : BatchInv(q) /\ WriteInv(q))
      /\ AckedMeansWritten /\ WrittenAtMostOnce
  BY DEF IInv
<1>a. /\ \A q \in Process : batch[q] \subseteq 1..cursor /\ kept[q] \subseteq batch[q]
      /\ 1..cursor \subseteq Ids
  BY <1>t DEF TypeOK, BatchInv, Ids
<1>1. ASSUME NEW m \in Payload, Publish(m) PROVE IInv'
  BY <1>1, PublishInv
<1>2. ASSUME NEW cam \in Camera, Onboard(cam) PROVE IInv'
  <2>1. TypeOK'
    BY <1>2, <1>t DEF TypeOK, Onboard
  <2>2. StreamInv'
    BY <1>2, <1>t DEF StreamInv, Onboard
  <2>3. \A q \in Process : BatchInv(q)' /\ WriteInv(q)'
    BY <1>2, <1>t DEF BatchInv, WriteInv, Waiting, WithReads, Onboard
  <2>4. AckedMeansWritten' /\ WrittenAtMostOnce'
    BY <1>2, <1>t DEF AckedMeansWritten, WrittenAtMostOnce, Onboard
  <2> QED  BY <2>1, <2>2, <2>3, <2>4 DEF IInv
<1>3. ASSUME NEW p \in Process, Start(p) PROVE IInv'
  <2>1. TypeOK'
    BY <1>3, <1>t DEF TypeOK, Start
  <2>2. StreamInv'
    BY <1>3, <1>t DEF StreamInv, Start
  <2>3. \A q \in Process : BatchInv(q)' /\ WriteInv(q)'
    BY <1>3, <1>t DEF TypeOK, BatchInv, WriteInv, Waiting, WithReads, Start
  <2>4. AckedMeansWritten' /\ WrittenAtMostOnce'
    BY <1>3, <1>t DEF AckedMeansWritten, WrittenAtMostOnce, Start
  <2> QED  BY <2>1, <2>2, <2>3, <2>4 DEF IInv
<1>4. ASSUME NEW p \in Process, Poll(p) PROVE IInv'
  BY <1>4, PollInv
<1>5. ASSUME NEW p \in Process, Decode(p) PROVE IInv'
  <2> DEFINE i == Head(todo[p])
  <2>1. /\ todo[p] \in Seq(Ids) /\ todo[p] # <<>> /\ pc[p] = "decode"
        /\ i \in Ids /\ i \in Waiting(p) /\ i \in batch[p]
        /\ Tail(todo[p]) \in Seq(Ids) /\ Len(todo[p]) \in Nat \ {0}
    BY <1>5, <1>t DEF TypeOK, Decode, Waiting, BatchInv
  <2>2. /\ Waiting(p)' \subseteq Waiting(p)
        /\ Waiting(p) \subseteq Waiting(p)' \union {i}
        /\ Len(todo[p]) = 1 => todo'[p] = <<>>
    <3>1. todo'[p] = Tail(todo[p])
      BY <1>5, <1>t DEF TypeOK, Decode
    <3>2. /\ Len(Tail(todo[p])) = Len(todo[p]) - 1
          /\ \A k \in 1..Len(Tail(todo[p])) : Tail(todo[p])[k] = todo[p][k + 1]
      BY <2>1
    <3>3. \A k \in 1..Len(todo[p]) : k = 1 \/ k - 1 \in 1..Len(Tail(todo[p]))
      BY <2>1, <3>2
    <3>4. Waiting(p)' \subseteq Waiting(p)
      BY <2>1, <3>1, <3>2 DEF Waiting
    <3>5. ASSUME NEW k \in 1..Len(todo[p])
          PROVE  todo[p][k] = i \/ todo[p][k] \in Waiting(p)'
      <4>1. CASE k = 1
        BY <2>1, <4>1
      <4>2. CASE k # 1
        <5>1. k - 1 \in 1..Len(Tail(todo[p])) /\ Tail(todo[p])[k - 1] = todo[p][k]
          BY <2>1, <3>2, <3>3, <4>2
        <5> QED  BY <3>1, <5>1 DEF Waiting
      <4> QED  BY <4>1, <4>2
    <3>6. Waiting(p) \subseteq Waiting(p)' \union {i}
      BY <3>5 DEF Waiting
    <3>7. Len(todo[p]) = 1 => todo'[p] = <<>>
      <4>1. \A s \in Seq(Ids) : Len(s) = 0 => s = <<>>
        BY EmptySeq
      <4>2. Len(todo[p]) = 1 => Len(Tail(todo[p])) = 0
        BY <3>2
      <4> QED  BY <2>1, <3>1, <4>1, <4>2
    <3> QED  BY <3>4, <3>6, <3>7
  <2> HIDE DEF i
  <2>3. /\ \/ kept' = [kept EXCEPT ![p] = @ \union {i}] /\ dropped' = dropped
           \/ kept' = kept /\ dropped' = dropped \union {i}
        /\ known' \in [Process -> SUBSET Camera]
        /\ pc' \in {pc, [pc EXCEPT ![p] = "insert"]}
    BY <1>5, <1>t DEF TypeOK, Decode, Resolved, i
  <2>4. UNCHANGED <<stream, trimmed, missed, cursor, pending, registry, batch, rowsOf, readsOf,
                    correlated, uncorrelated, crashes>>
    BY <1>5 DEF Decode
  <2>5. \A q \in Process : q # p =>
            pc'[q] = pc[q] /\ todo'[q] = todo[q] /\ kept'[q] = kept[q]
    BY <1>5, <1>t, <2>3 DEF TypeOK, Decode
  <2>6. /\ kept[p] \subseteq kept'[p] /\ kept'[p] \subseteq kept[p] \union {i}
        /\ i \in kept'[p] \/ i \in dropped'
        /\ dropped \subseteq dropped'
    BY <1>t, <2>3 DEF TypeOK
  <2>7. TypeOK'
    <3>1. todo' \in [Process -> Seq(Ids)]
      BY <1>5, <1>t, <2>1 DEF TypeOK, Decode
    <3>2. kept' \in [Process -> SUBSET Ids] /\ dropped' \subseteq Ids
      <4>1. kept \in [Process -> SUBSET Ids] /\ dropped \subseteq Ids /\ kept[p] \union {i} \subseteq Ids
        BY <1>t, <2>1 DEF TypeOK
      <4> QED  BY <2>1, <2>3, <4>1
    <3>3. pc' \in [Process -> {"down", "poll", "decode", "insert", "reads", "correlate", "ack"}]
      BY <1>t, <2>3 DEF TypeOK
    <3> QED  BY <1>t, <2>3, <2>4, <3>1, <3>2, <3>3 DEF TypeOK
  <2>8. StreamInv'
    BY <1>t, <2>4 DEF StreamInv
  <2>9. ASSUME NEW q \in Process
        PROVE  BatchInv(q)' /\ WriteInv(q)'
    <3>1. CASE q = p
      <4>1. /\ pc'[p] \in {"decode", "insert"}
            /\ pc'[p] = "insert" => todo'[p] = <<>>
        BY <1>5, <1>t, <2>1, <2>2 DEF TypeOK, Decode
      <4>2. BatchInv(p)'
        BY <1>t, <2>1, <2>2, <2>4, <2>6, <4>1 DEF BatchInv
      <4>3. WriteInv(p)'
        BY <1>t, <2>1, <2>4, <4>1 DEF WriteInv
      <4> QED  BY <3>1, <4>2, <4>3
    <3>2. CASE q # p
      <4>1. Waiting(q)' = Waiting(q) /\ WithReads(kept[q])' = WithReads(kept[q])
        BY <2>4, <2>5, <3>2 DEF Waiting, WithReads
      <4> QED  BY <1>t, <2>4, <2>5, <2>6, <3>2, <4>1 DEF BatchInv, WriteInv
    <3> QED  BY <3>1, <3>2
  <2>10. AckedMeansWritten'
    BY <1>t, <2>4, <2>6 DEF AckedMeansWritten
  <2>11. WrittenAtMostOnce'
    BY <1>t, <2>4 DEF WrittenAtMostOnce
  <2> QED  BY <2>7, <2>8, <2>9, <2>10, <2>11 DEF IInv
<1>6. ASSUME NEW p \in Process, InsertSightings(p) PROVE IInv'
  <2>1. /\ pc[p] = "insert"
        /\ \A i \in Ids : rowsOf'[i] = IF i \in kept[p] THEN rowsOf[i] + 1 ELSE rowsOf[i]
        /\ rowsOf' \in [Ids -> Nat]
        /\ pc'[p] = IF WithReads(kept[p]) = {} THEN "ack" ELSE "reads"
        /\ \A q \in Process : q # p => pc'[q] = pc[q]
    BY <1>6, <1>t DEF TypeOK, InsertSightings
  <2>2. UNCHANGED <<stream, trimmed, missed, cursor, pending, registry, known, todo, kept, batch, readsOf,
                    correlated, uncorrelated, dropped, crashes>>
    BY <1>6 DEF InsertSightings
  <2>3. \A i \in kept[p] : i \in batch[p] /\ i \in pending /\ i \in Ids /\ i <= cursor
                           /\ rowsOf[i] = 0 /\ readsOf[i] = 0
    <3>1. \A i \in kept[p] : i \in batch[p] /\ i \in pending /\ i \in 1..cursor
      BY <1>t, <1>a DEF BatchInv
    <3>2. cursor \in Nat
      BY <1>t DEF TypeOK
    <3> QED  BY <1>t, <1>a, <2>1, <3>1, <3>2 DEF WriteInv
  <2>4. \A q \in Process : WithReads(kept[q])' = WithReads(kept[q]) /\ Waiting(q)' = Waiting(q)
    BY <2>2 DEF WithReads, Waiting
  <2>5. TypeOK'
    BY <1>6, <1>t, <2>1, <2>2 DEF TypeOK, InsertSightings
  <2>6. StreamInv'
    BY <1>t, <2>1, <2>2, <2>3 DEF StreamInv, TypeOK, Ids
  <2>7. ASSUME NEW q \in Process
        PROVE  BatchInv(q)'
    BY <1>t, <2>1, <2>2, <2>4 DEF BatchInv
  <2>8. ASSUME NEW q \in Process
        PROVE  WriteInv(q)'
    <3>1. CASE q = p
      <4>1. \A i \in batch[p] : rowsOf'[i] = IF i \in kept[p] THEN 1 ELSE 0
        BY <1>t, <1>a, <2>1, <2>3 DEF WriteInv
      <4>2. \A i \in batch[p] : readsOf[i] = 0
        BY <1>t, <2>1 DEF WriteInv
      <4>3. pc'[p] \in {"reads", "ack"} /\ (pc'[p] = "ack" => WithReads(kept[p]) = {})
        BY <2>1
      <4> QED  BY <2>2, <2>4, <3>1, <4>1, <4>2, <4>3 DEF WriteInv
    <3>2. CASE q # p
      <4>1. \A i \in batch[q] : i \notin kept[p] /\ i \in Ids
        BY <1>t, <1>a, <2>3, <3>2 DEF WrittenAtMostOnce
      <4> QED  BY <1>t, <2>1, <2>2, <2>4, <3>2, <4>1 DEF WriteInv
    <3> QED  BY <3>1, <3>2
  <2>9. AckedMeansWritten'
    BY <1>t, <1>a, <2>1, <2>2, <2>3 DEF AckedMeansWritten
  <2>10. WrittenAtMostOnce'
    <3>1. \A i \in Ids : rowsOf[i] \in Nat /\ readsOf[i] \in Nat
      BY <1>t DEF TypeOK
    <3> QED  BY <1>t, <2>1, <2>2, <2>3, <3>1 DEF WrittenAtMostOnce
  <2> QED  BY <2>5, <2>6, <2>7, <2>8, <2>9, <2>10 DEF IInv
<1>7. ASSUME NEW p \in Process, InsertReads(p) PROVE IInv'
  <2>1. /\ pc[p] = "reads" /\ pc'[p] = "correlate"
        /\ \A i \in Ids : readsOf'[i] = IF i \in WithReads(kept[p]) THEN readsOf[i] + 1 ELSE readsOf[i]
        /\ readsOf' \in [Ids -> Nat]
        /\ \A q \in Process : q # p => pc'[q] = pc[q]
    BY <1>7, <1>t DEF TypeOK, InsertReads
  <2>2. UNCHANGED <<stream, trimmed, missed, cursor, pending, registry, known, todo, kept, batch, rowsOf,
                    correlated, uncorrelated, dropped, crashes>>
    BY <1>7 DEF InsertReads
  <2>3. \A i \in WithReads(kept[p]) : i \in batch[p] /\ i \in pending /\ i \in Ids /\ i <= cursor
                           /\ rowsOf[i] = 1 /\ readsOf[i] = 0
    <3>1. \A i \in WithReads(kept[p]) : i \in kept[p] /\ i \in batch[p] /\ i \in pending /\ i \in 1..cursor
      BY <1>t, <1>a DEF BatchInv, WithReads
    <3>2. cursor \in Nat
      BY <1>t DEF TypeOK
    <3> QED  BY <1>t, <1>a, <2>1, <3>1, <3>2 DEF WriteInv
  <2>4. \A q \in Process : WithReads(kept[q])' = WithReads(kept[q]) /\ Waiting(q)' = Waiting(q)
    BY <2>2 DEF WithReads, Waiting
  <2>5. TypeOK'
    BY <1>7, <1>t, <2>1, <2>2 DEF TypeOK, InsertReads
  <2>6. StreamInv'
    BY <1>t, <2>1, <2>2, <2>3 DEF StreamInv, TypeOK, Ids
  <2>7. ASSUME NEW q \in Process
        PROVE  BatchInv(q)'
    BY <1>t, <2>1, <2>2, <2>4 DEF BatchInv
  <2>8. ASSUME NEW q \in Process
        PROVE  WriteInv(q)'
    <3>1. CASE q = p
      <4>1. \A i \in batch[p] : readsOf'[i] = IF i \in WithReads(kept[p]) THEN 1 ELSE 0
        BY <1>t, <1>a, <2>1, <2>3 DEF WriteInv
      <4>2. \A i \in batch[p] : rowsOf[i] = IF i \in kept[p] THEN 1 ELSE 0
        BY <1>t, <2>1 DEF WriteInv
      <4> QED  BY <2>1, <2>2, <2>4, <3>1, <4>1, <4>2 DEF WriteInv
    <3>2. CASE q # p
      <4>1. \A i \in batch[q] : i \notin WithReads(kept[p]) /\ i \in Ids
        BY <1>t, <1>a, <2>3, <3>2 DEF WrittenAtMostOnce
      <4> QED  BY <1>t, <2>1, <2>2, <2>4, <3>2, <4>1 DEF WriteInv
    <3> QED  BY <3>1, <3>2
  <2>9. AckedMeansWritten'
    BY <1>t, <1>a, <2>1, <2>2, <2>3 DEF AckedMeansWritten
  <2>10. WrittenAtMostOnce'
    <3>1. \A i \in Ids : rowsOf[i] \in Nat /\ readsOf[i] \in Nat
      BY <1>t DEF TypeOK
    <3> QED  BY <1>t, <2>1, <2>2, <2>3, <3>1 DEF WrittenAtMostOnce
  <2> QED  BY <2>5, <2>6, <2>7, <2>8, <2>9, <2>10 DEF IInv
<1>8. ASSUME NEW p \in Process, Correlate(p) PROVE IInv'
  <2>1. /\ pc[p] = "correlate" /\ pc'[p] = "ack"
        /\ \A q \in Process : q # p => pc'[q] = pc[q]
        /\ correlated \subseteq correlated' /\ uncorrelated \subseteq uncorrelated'
        /\ WithReads(kept[p]) \subseteq correlated' \union uncorrelated'
    BY <1>8, <1>t DEF TypeOK, Correlate
  <2>2. UNCHANGED <<stream, trimmed, missed, cursor, pending, registry, known, todo, kept, batch, rowsOf,
                    readsOf, dropped, crashes>>
    BY <1>8 DEF Correlate
  <2>3. \A q \in Process : WithReads(kept[q])' = WithReads(kept[q]) /\ Waiting(q)' = Waiting(q)
    BY <2>2 DEF WithReads, Waiting
  <2>4. TypeOK'
    <3>1. WithReads(kept[p]) \subseteq Ids
      BY <1>t DEF TypeOK, WithReads
    <3> QED  BY <1>8, <1>t, <2>2, <3>1 DEF TypeOK, Correlate
  <2>5. StreamInv'
    BY <1>t, <2>2 DEF StreamInv
  <2>6. \A q \in Process : BatchInv(q)'
    BY <1>t, <2>1, <2>2, <2>3 DEF BatchInv
  <2>7. \A q \in Process : WriteInv(q)'
    BY <1>t, <2>1, <2>2, <2>3 DEF WriteInv
  <2>8. AckedMeansWritten' /\ WrittenAtMostOnce'
    BY <1>t, <2>1, <2>2 DEF AckedMeansWritten, WrittenAtMostOnce
  <2> QED  BY <2>4, <2>5, <2>6, <2>7, <2>8 DEF IInv
<1>9. ASSUME NEW p \in Process, Ack(p) PROVE IInv'
  <2>1. /\ pc[p] = "ack" /\ pc'[p] = "poll" /\ batch'[p] = {} /\ kept'[p] = {}
        /\ pending' = pending \ batch[p]
        /\ \A q \in Process : q # p => pc'[q] = pc[q] /\ batch'[q] = batch[q] /\ kept'[q] = kept[q]
    BY <1>9, <1>t DEF TypeOK, Ack
  <2>2. UNCHANGED <<stream, trimmed, missed, cursor, registry, known, todo, rowsOf, readsOf,
                    correlated, uncorrelated, dropped, crashes>>
    BY <1>9 DEF Ack
  <2>3. todo[p] = <<>> /\ Waiting(p) = {}
    BY <1>t, <2>1 DEF BatchInv, Waiting
  <2>4. TypeOK'
    BY <1>9, <1>t, <2>1, <2>2 DEF TypeOK, Ack
  <2>5. StreamInv'
    BY <1>t, <2>2 DEF StreamInv
  <2>6. ASSUME NEW q \in Process
        PROVE  BatchInv(q)' /\ WriteInv(q)'
    <3>1. CASE q = p
      BY <2>1, <2>2, <2>3, <3>1 DEF BatchInv, WriteInv, Waiting
    <3>2. CASE q # p
      <4>1. batch[q] \cap batch[p] = {}
        BY <1>t, <3>2 DEF WrittenAtMostOnce
      <4>2. Waiting(q)' = Waiting(q) /\ WithReads(kept[q])' = WithReads(kept[q])
        BY <2>1, <2>2, <3>2 DEF Waiting, WithReads
      <4> QED  BY <1>t, <2>1, <2>2, <3>2, <4>1, <4>2 DEF BatchInv, WriteInv
    <3> QED  BY <3>1, <3>2
  <2>7. AckedMeansWritten'
    <3>1. ASSUME NEW i \in batch[p]
          PROVE  \/ i \in dropped
                 \/ /\ rowsOf[i] = 1
                    /\ stream[i].reads => readsOf[i] = 1 /\ i \in correlated \union uncorrelated
      <4>1. i \in kept[p] \/ i \in dropped
        BY <1>t, <2>3 DEF BatchInv
      <4> QED  BY <1>t, <2>1, <4>1 DEF WriteInv, WithReads
    <3> QED  BY <1>t, <2>1, <2>2, <3>1 DEF AckedMeansWritten
  <2>8. WrittenAtMostOnce'
    BY <1>t, <2>1, <2>2 DEF WrittenAtMostOnce
  <2> QED  BY <2>4, <2>5, <2>6, <2>7, <2>8 DEF IInv
<1>10. ASSUME NEW p \in Process, Stop(p) PROVE IInv'
  <2>1. TypeOK'
    BY <1>10, <1>t DEF TypeOK, Stop
  <2>2. StreamInv'
    BY <1>10, <1>t DEF StreamInv, Stop
  <2>3. \A q \in Process : BatchInv(q)' /\ WriteInv(q)'
    BY <1>10, <1>t DEF TypeOK, BatchInv, WriteInv, Waiting, WithReads, Stop
  <2>4. AckedMeansWritten' /\ WrittenAtMostOnce'
    BY <1>10, <1>t DEF AckedMeansWritten, WrittenAtMostOnce, Stop
  <2> QED  BY <2>1, <2>2, <2>3, <2>4 DEF IInv
<1>11. ASSUME NEW p \in Process, Crash(p) PROVE IInv'
  <2>1. TypeOK'
    BY <1>11, <1>t DEF TypeOK, Crash
  <2>2. StreamInv'
    BY <1>11, <1>t DEF StreamInv, Crash
  <2>3. ASSUME NEW q \in Process
        PROVE  BatchInv(q)' /\ WriteInv(q)'
    <3>1. CASE q = p
      BY <1>11, <1>t, <3>1 DEF TypeOK, BatchInv, WriteInv, Waiting, Crash
    <3>2. CASE q # p
      BY <1>11, <1>t, <3>2 DEF TypeOK, BatchInv, WriteInv, Waiting, WithReads, Crash
    <3> QED  BY <3>1, <3>2
  <2>4. AckedMeansWritten' /\ WrittenAtMostOnce'
    BY <1>11, <1>t DEF TypeOK, AckedMeansWritten, WrittenAtMostOnce, Crash
  <2> QED  BY <2>1, <2>2, <2>3, <2>4 DEF IInv
<1>12. CASE UNCHANGED vars
  <2>1. TypeOK' /\ StreamInv'
    BY <1>12, <1>t DEF vars, TypeOK, StreamInv
  <2>2. \A q \in Process : BatchInv(q)' /\ WriteInv(q)'
    BY <1>12, <1>t DEF vars, BatchInv, WriteInv, Waiting, WithReads
  <2>3. AckedMeansWritten' /\ WrittenAtMostOnce'
    BY <1>12, <1>t DEF vars, AckedMeansWritten, WrittenAtMostOnce
  <2> QED  BY <2>1, <2>2, <2>3 DEF IInv
<1> QED
  BY <1>1, <1>2, <1>3, <1>4, <1>5, <1>6, <1>7, <1>8, <1>9, <1>10, <1>11, <1>12 DEF Next, Work

-----------------------------------------------------------------------------
(* The inductive invariant of the consumers: what each process has in hand  *)
(* is exactly what is pending and not yet complete. *)
THEOREM Invariance == Spec => []IInv
<1> QED  BY InitInv, StepInv, PTL DEF Spec

(* "Acknowledge only after the insert commits", for any number of consumers,*)
(* any batch size, any trimming and any crashes: what left the pending list *)
(* was written exactly once, or dropped and counted. *)
THEOREM WrittenOnce == Spec => []AckedIsWrittenOnce
<1>1. IInv => AckedIsWrittenOnce
  BY DEF IInv, AckedIsWrittenOnce
<1> QED  BY <1>1, Invariance, PTL

=============================================================================
