-------------------------- MODULE AuditChainProofs --------------------------
(***************************************************************************)
(* Proofs about AuditChain, for any set of writers and any retry budget.   *)
(* The argument: the committed rows form a path, so exactly one of them    *)
(* has no successor; an index check that passes therefore names the tip.   *)
(*                                                                         *)
(* Then about AuditSeal, for any log written before the seal: what is      *)
(* appended matches its digest and is numbered last, so neither the        *)
(* prologue nor its boundary moves, and the one place where an altered     *)
(* entry can hide is the prologue the seal names.                          *)
(***************************************************************************)
EXTENDS AuditSeal, SetLemmas

USE DEF Genesis, Seqs, IsTip, Row, Chain!Genesis, Chain!Seqs, Chain!IsTip, Chain!Row

(* In a well-linked table an entry nobody links to is the newest one. *)
LEMMA UntakenIsTip ==
    ASSUME NEW R \in SUBSET Row, WellLinked(R),
           NEW t \in Seqs(R) \union {Genesis}, ~ \E r \in R : r.prev = t
    PROVE  IsTip(t, R)
<1>1. t \in Nat /\ \A r \in R : r.seq \in Nat
  OBVIOUS
<1>2. ~ \E r \in R : r.seq > t
  BY DEF WellLinked
<1> QED  BY <1>1, <1>2

(* Linking a higher-numbered row to the tip keeps the table well linked. *)
LEMMA LinkToTip ==
    ASSUME NEW R \in SUBSET Row, WellLinked(R),
           NEW x \in Row, IsTip(x.prev, R), x.prev < x.seq
    PROVE  WellLinked(R \union {x})
<1> DEFINE S == R \union {x}
<1>1. \A r \in S : r.prev < r.seq /\ r.prev \in Seqs(S) \union {Genesis}
  BY DEF WellLinked
<1>2. \A q, r \in S : q.seq < r.seq => q.seq <= r.prev
  BY DEF WellLinked
<1>3. ASSUME NEW t \in Seqs(S) \union {Genesis}, \E r \in S : r.seq > t
      PROVE  \E r \in S : r.prev = t
  <2>1. CASE t = x.prev
    BY <2>1
  <2>2. CASE t # x.prev /\ t < x.prev
    <3>1. t \in Seqs(R) \union {Genesis}
      BY <2>2
    <3>2. \E r \in R : r.seq > t
      BY <2>2
    <3> QED  BY <3>1, <3>2 DEF WellLinked
  <2>3. CASE t # x.prev /\ t > x.prev
    BY <1>3, <2>3
  <2> QED  BY <2>1, <2>2, <2>3
<1> QED  BY <1>1, <1>2, <1>3 DEF WellLinked

(* Without any repeated number, a well-linked table has no fork. *)
LEMMA NoFork ==
    ASSUME NEW R \in SUBSET Row, WellLinked(R),
           \A q, r \in R : q.seq = r.seq => q = r
    PROVE  \A q, r \in R : q.prev = r.prev => q = r
<1> SUFFICES ASSUME NEW q \in R, NEW r \in R, q.prev = r.prev
             PROVE  q.seq = r.seq
  OBVIOUS
<1> QED  BY DEF WellLinked

-----------------------------------------------------------------------------
LEMMA InitInv == Init => IInv
<1> SUFFICES ASSUME Init PROVE IInv
  OBVIOUS
<1> USE LegacyAssumption, BoundsAssumption DEF Init
<1>1. Legacy \subseteq Row /\ \A r \in Legacy : r.seq <= lastSeq
  OBVIOUS
<1>2. TypeOK
  BY DEF TypeOK, Phase
<1>3. RowsInv
  BY <1>1 DEF RowsInv
<1>4. \A w \in Writer : AttemptInv(w) /\ LossInv(w)
  BY DEF AttemptInv, LossInv
<1> QED  BY <1>2, <1>3, <1>4 DEF IInv

(* The row a holder commits is numbered above, and linked to, the tip. *)
LEMMA CommitLinks ==
    ASSUME IInv, NEW w \in Writer, Commit(w)
    PROVE  LET x == [seq |-> mine[w], prev |-> tip[w], entry |-> entry[w]]
           IN  /\ x \in Row
               /\ IsTip(x.prev, rows)
               /\ x.prev < x.seq
               /\ x \notin rows
               /\ rows' = rows \union {x}
               /\ Cardinality(rows') = Cardinality(rows) + 1
               /\ IsFiniteSet(rows')
<1> DEFINE x == [seq |-> mine[w], prev |-> tip[w], entry |-> entry[w]]
<1>1. /\ pc[w] = "held" /\ mine[w] \in Nat /\ tip[w] \in Nat /\ entry[w] \in Entry
      /\ rows \subseteq Row /\ IsFiniteSet(rows)
  BY DEF IInv, TypeOK, Commit
<1>2. tip[w] < mine[w] /\ ~Taken(tip[w]) /\ tip[w] \in Seqs(rows) \union {Genesis}
  BY <1>1 DEF IInv, AttemptInv
<1>3. IsTip(tip[w], rows)
  BY <1>1, <1>2, UntakenIsTip DEF IInv, RowsInv, Taken
<1>4. x \in Row /\ x.prev = tip[w] /\ x.seq = mine[w]
  BY <1>1, <1>2
<1>5. x \notin rows
  BY <1>2, <1>4 DEF Taken
<1>6. rows' = rows \union {x}
  BY DEF Commit
<1>7. Cardinality(rows') = Cardinality(rows) + 1 /\ IsFiniteSet(rows')
  BY <1>1, <1>5, <1>6, FS_AddElement
<1> HIDE DEF x
<1>8. IsTip(x.prev, rows) /\ x.prev < x.seq
  BY <1>2, <1>3, <1>4
<1> QED  BY <1>4, <1>5, <1>6, <1>7, <1>8 DEF x

LEMMA StepInv == IInv /\ [Next]_vars => IInv'
<1> SUFFICES ASSUME IInv, [Next]_vars PROVE IInv'
  OBVIOUS
<1> USE BoundsAssumption
<1>t. TypeOK /\ RowsInv /\ \A w \in Writer : AttemptInv(w) /\ LossInv(w)
  BY DEF IInv
<1>c. Cardinality(rows) \in Nat
  BY <1>t, FS_CardinalityType DEF TypeOK
<1>1. ASSUME NEW w \in Writer, NEW e \in Entry, Begin(w, e)
      PROVE  IInv'
  <2>1. TypeOK'
    BY <1>1, <1>t, <1>c DEF TypeOK, Begin, Phase
  <2>2. RowsInv'
    BY <1>1, <1>t DEF RowsInv, Begin, WellLinked
  <2>3. \A v \in Writer : AttemptInv(v)'
    BY <1>1, <1>t DEF AttemptInv, Begin, Taken, Contested, TypeOK
  <2>4. \A v \in Writer : LossInv(v)'
    BY <1>1, <1>t, <1>c DEF LossInv, Begin, Taken, TypeOK
  <2> QED  BY <2>1, <2>2, <2>3, <2>4 DEF IInv
<1>2. ASSUME NEW w \in Writer, ReadTip(w)
      PROVE  IInv'
  <2> PICK t \in Seqs(rows) \union {Genesis} :
         IsTip(t, rows) /\ tip' = [tip EXCEPT ![w] = t]
    BY <1>2 DEF ReadTip
  <2>0. t \in Nat
    BY <1>t DEF TypeOK
  <2>1. TypeOK'
    BY <1>2, <1>t, <1>c, <2>0 DEF TypeOK, ReadTip, Phase
  <2>2. RowsInv'
    BY <1>2, <1>t DEF RowsInv, ReadTip, WellLinked
  <2>3. \A v \in Writer : AttemptInv(v)'
    BY <1>2, <1>t, <2>0 DEF AttemptInv, ReadTip, Taken, Contested, TypeOK
  <2>4. ~ \E r \in rows : r.prev = t
    BY <1>t, <2>0 DEF RowsInv, WellLinked, TypeOK
  <2>5. \A v \in Writer : LossInv(v)'
    BY <1>2, <1>t, <1>c, <2>4 DEF LossInv, ReadTip, Taken, TypeOK
  <2> QED  BY <2>1, <2>2, <2>3, <2>5 DEF IInv
<1>3. ASSUME NEW w \in Writer, TakeSeq(w)
      PROVE  IInv'
  <2>0. \A s \in Seqs(rows) \union {Genesis} : s \in Nat /\ s <= lastSeq
    BY <1>t DEF TypeOK, RowsInv
  <2>1. TypeOK'
    BY <1>3, <1>t DEF TypeOK, TakeSeq, Phase
  <2>2. RowsInv'
    BY <1>3, <1>t DEF RowsInv, TakeSeq, WellLinked, TypeOK
  <2>3. \A v \in Writer : AttemptInv(v)'
    BY <1>3, <1>t, <2>0 DEF AttemptInv, TakeSeq, Taken, Contested, TypeOK
  <2>4. \A v \in Writer : LossInv(v)'
    BY <1>3, <1>t, <1>c DEF LossInv, TakeSeq, Taken, TypeOK
  <2> QED  BY <2>1, <2>2, <2>3, <2>4 DEF IInv
<1>4. ASSUME NEW w \in Writer, Place(w)
      PROVE  IInv'
  <2>1. TypeOK'
    BY <1>4, <1>t DEF TypeOK, Place, Phase
  <2>2. RowsInv'
    BY <1>4, <1>t DEF RowsInv, Place, WellLinked
  <2>3. \A v \in Writer : AttemptInv(v)'
    BY <1>4, <1>t DEF AttemptInv, Place, Taken, Contested, TypeOK
  <2>4. \A v \in Writer : LossInv(v)'
    BY <1>4, <1>t, <1>c DEF LossInv, Place, Taken, TypeOK
  <2> QED  BY <2>1, <2>2, <2>3, <2>4 DEF IInv
<1>5. ASSUME NEW w \in Writer, LoseRace(w)
      PROVE  IInv'
  <2>0. attempt[w] < Attempts /\ attempt[w] \in Nat /\ Attempts \in Nat
        /\ attempt[w] + 1 + began[w] <= Cardinality(rows)
    <3>1. pc[w] = "index" /\ Taken(tip[w])
      BY <1>5 DEF LoseRace
    <3>2. /\ attempt[w] < Attempts /\ attempt[w] + began[w] <= seen[w]
          /\ seen[w] <= Cardinality(rows) /\ seen[w] # Cardinality(rows)
      BY <3>1, <1>t DEF LossInv
    <3>3. attempt[w] \in Nat /\ began[w] \in Nat /\ seen[w] \in Nat /\ Attempts \in Nat
      BY <1>t DEF TypeOK
    <3> QED  BY <3>2, <3>3, <1>c
  <2>1. TypeOK'
    BY <1>5, <1>t, <2>0 DEF TypeOK, LoseRace, Phase
  <2>2. RowsInv'
    BY <1>5, <1>t DEF RowsInv, LoseRace, WellLinked
  <2>3. \A v \in Writer : AttemptInv(v)'
    BY <1>5, <1>t DEF AttemptInv, LoseRace, Taken, Contested, TypeOK
  <2>4. \A v \in Writer : LossInv(v)'
    BY <1>5, <1>t, <1>c, <2>0 DEF LossInv, LoseRace, Taken, TypeOK
  <2> QED  BY <2>1, <2>2, <2>3, <2>4 DEF IInv
<1>6. ASSUME NEW w \in Writer, Commit(w)
      PROVE  IInv'
  <2> DEFINE x == [seq |-> mine[w], prev |-> tip[w], entry |-> entry[w]]
  <2>0. /\ x \in Row /\ IsTip(x.prev, rows) /\ x.prev < x.seq
        /\ x.prev = tip[w] /\ x.seq = mine[w] /\ x \notin rows
        /\ rows' = rows \union {x}
        /\ Cardinality(rows') = Cardinality(rows) + 1
        /\ IsFiniteSet(rows')
    BY <1>6, CommitLinks
  <2> HIDE DEF x
  <2>1. TypeOK'
    BY <1>6, <1>t, <2>0 DEF TypeOK, Commit, Phase
  <2>2. RowsInv'
    <3>1. WellLinked(rows \union {x})
      BY <1>t, <2>0, LinkToTip DEF TypeOK, RowsInv
    <3>2. WellLinked(rows')
      BY <3>1, <2>0
    <3>3. mine[w] <= lastSeq
      BY <1>6, <1>t DEF AttemptInv, Commit
    <3>4. \A r \in rows' : r.seq <= lastSeq'
      BY <1>6, <1>t, <2>0, <3>3 DEF RowsInv, Commit
    <3>5. \A q, r \in rows' : q.seq = r.seq => q = r
      BY <1>t, <2>0 DEF RowsInv, TypeOK
    <3> QED  BY <3>2, <3>4, <3>5 DEF RowsInv, WellLinked
  <2>3. ASSUME NEW v \in Writer PROVE AttemptInv(v)'
    <3>1. pc' = [pc EXCEPT ![w] = "idle"] /\ pc[w] = "held"
          /\ UNCHANGED <<lastSeq, tip, mine>>
      BY <1>6 DEF Commit
    <3>2. pc'[v] = "held" => v # w /\ pc[v] = "held" /\ tip[v] # tip[w]
      BY <3>1, <1>t DEF AttemptInv, Contested, TypeOK
    <3> QED  BY <3>1, <3>2, <1>t, <2>0 DEF AttemptInv, Taken, Contested, TypeOK
  <2>4. ASSUME NEW v \in Writer PROVE LossInv(v)'
    <3>1. pc' = [pc EXCEPT ![w] = "idle"]
          /\ UNCHANGED <<attempt, began, seen, tip>>
      BY <1>6 DEF Commit
    <3>2. /\ pc'[v] # "idle" => v # w /\ pc'[v] = pc[v]
          /\ attempt[v] \in Nat /\ began[v] \in Nat /\ seen[v] \in Nat
      BY <3>1, <1>t DEF TypeOK
    <3> QED  BY <3>1, <3>2, <1>t, <1>c, <2>0 DEF LossInv
  <2> QED  BY <2>1, <2>2, <2>3, <2>4 DEF IInv
<1>7. ASSUME NEW w \in Writer, Abort(w) \/ Throw(w)
      PROVE  IInv'
  <2>1. TypeOK'
    BY <1>7, <1>t DEF TypeOK, Abort, Throw, Phase
  <2>2. RowsInv'
    BY <1>7, <1>t DEF RowsInv, Abort, Throw, WellLinked
  <2>3. \A v \in Writer : AttemptInv(v)'
    BY <1>7, <1>t DEF AttemptInv, Abort, Throw, Taken, Contested, TypeOK
  <2>4. \A v \in Writer : LossInv(v)'
    BY <1>7, <1>t, <1>c DEF LossInv, Abort, Throw, Taken, TypeOK
  <2> QED  BY <2>1, <2>2, <2>3, <2>4 DEF IInv
<1>8. CASE UNCHANGED vars
  BY <1>8, <1>t DEF IInv, TypeOK, RowsInv, WellLinked, AttemptInv, LossInv, Taken, Contested, vars
<1> QED  BY <1>1, <1>2, <1>3, <1>4, <1>5, <1>6, <1>7, <1>8 DEF Next, Step

(* Every reachable state satisfies the inductive invariant. *)
THEOREM Invariance == Spec => []IInv
BY InitInv, StepInv, PTL DEF Spec

(* Type correctness: among others, attempt never exceeds the retry budget. *)
THEOREM TypeCorrect == Spec => []TypeOK
<1>1. IInv => TypeOK
  BY DEF IInv
<1> QED  BY <1>1, Invariance, PTL

(* The audit log is linear: no fork, and seq order is link order. *)
THEOREM Linear == Spec => []ChainIsLinear
<1>1. IInv => ChainIsLinear
  BY NoFork DEF IInv, RowsInv, TypeOK, ChainIsLinear
<1> QED  BY <1>1, Invariance, PTL

(* Only one uncommitted row at a time, and it extends the committed tip. *)
THEOREM Serialised == Spec => []HolderExtendsTip
<1> SUFFICES ASSUME IInv PROVE HolderExtendsTip
  BY Invariance, PTL
<1>1. ASSUME NEW w \in Writer, pc[w] = "held"
      PROVE  IsTip(tip[w], rows) /\ mine[w] > tip[w]
  <2>1. ~Taken(tip[w]) /\ tip[w] \in Seqs(rows) \union {Genesis} /\ tip[w] < mine[w]
    BY <1>1 DEF IInv, AttemptInv
  <2>2. tip[w] \in Nat /\ mine[w] \in Nat /\ rows \subseteq Row /\ WellLinked(rows)
    BY DEF IInv, TypeOK, RowsInv
  <2> QED  BY <2>1, <2>2, UntakenIsTip DEF Taken
<1>2. ASSUME NEW v \in Writer, NEW w \in Writer, pc[v] = "held", pc[w] = "held"
      PROVE  v = w
  <2>1. IsTip(tip[v], rows) /\ IsTip(tip[w], rows)
    BY <1>1, <1>2
  <2>2. tip[v] = tip[w]
    BY <2>1 DEF IInv, TypeOK
  <2> QED  BY <1>2, <2>2 DEF IInv, AttemptInv, Contested
<1> QED  BY <1>1, <1>2 DEF HolderExtendsTip

(* A writer throws only after Attempts entries of its rivals committed. *)
THEOREM NoSpuriousLoss == Spec => []LossesArePaidFor
<1>1. IInv => LossesArePaidFor
  <2> SUFFICES ASSUME IInv, NEW w \in Writer
               PROVE  /\ pc[w] # "idle" => attempt[w] <= Cardinality(rows) - began[w]
                      /\ pc[w] = "failed" => Cardinality(rows) - began[w] >= Attempts
    BY DEF LossesArePaidFor
  <2>1. Cardinality(rows) \in Nat /\ attempt[w] \in Nat /\ began[w] \in Nat
    BY FS_CardinalityType, BoundsAssumption DEF IInv, TypeOK
  <2> QED  BY <2>1, BoundsAssumption DEF IInv, LossInv
<1> QED  BY <1>1, Invariance, PTL

(* The racing writers implement the one-entry-at-a-time chain. *)
THEOREM Refinement == Spec => ImplementsChain
<1>1. Init => Chain!Init
  BY DEF Init, Chain!Init
<1>2. IInv /\ [Next]_vars => [Chain!Next]_rows
  <2> SUFFICES ASSUME IInv, [Next]_vars PROVE [Chain!Next]_rows
    OBVIOUS
  <2>1. ASSUME NEW w \in Writer, Commit(w)
        PROVE  Chain!Next
    <3> DEFINE x == [seq |-> mine[w], prev |-> tip[w], entry |-> entry[w]]
    <3>1. x \in Row /\ IsTip(x.prev, rows) /\ x.prev < x.seq /\ rows' = rows \union {x}
      BY <2>1, CommitLinks
    <3> HIDE DEF x
    <3>2. x.seq > x.prev /\ x \in rows'
      BY <3>1
    <3> QED  BY <3>1, <3>2 DEF Chain!Next, Chain!Append
  <2>2. ASSUME NEW w \in Writer,
               \/ \E e \in Entry : Begin(w, e)
               \/ ReadTip(w) \/ TakeSeq(w) \/ Place(w) \/ LoseRace(w)
               \/ Throw(w) \/ Abort(w)
        PROVE  UNCHANGED rows
    BY <2>2 DEF Begin, ReadTip, TakeSeq, Place, LoseRace, Throw, Abort
  <2>3. CASE UNCHANGED vars
    BY <2>3 DEF vars
  <2> QED  BY <2>1, <2>2, <2>3 DEF Next, Step
<1> QED  BY <1>1, <1>2, Invariance, PTL DEF Spec, ImplementsChain, Chain!Spec

-----------------------------------------------------------------------------
(* The walk order.                                                         *)

(* A table as the verifier may meet it: finite, no number twice.           *)
Table(R) == R \subseteq Row /\ IsFiniteSet(R) /\ \A q, r \in R : q.seq = r.seq => q = r

Position(R, t) == Cardinality({q \in R : q.seq < t}) + 1

LEMMA Positions ==
    ASSUME NEW R, Table(R)
    PROVE  /\ Cardinality(R) \in Nat
           /\ \A r \in R : Position(R, r.seq) \in 1..Cardinality(R)
           /\ \A q, r \in R : q.seq < r.seq => Position(R, q.seq) < Position(R, r.seq)
           /\ \A k \in 1..Cardinality(R) : \E r \in R : Position(R, r.seq) = k
<1> DEFINE key == [r \in R |-> r.seq]
           n == Cardinality(R)
<1>1. IsFiniteSet(R) /\ n \in Nat
  BY FS_CardinalityType DEF Table
<1>2. \A r \in R : key[r] = r.seq /\ r.seq \in Nat
  BY DEF Table
<1>3. \A q, r \in R : key[q] = key[r] => q = r
  BY <1>2 DEF Table
<1> HIDE DEF key
<1>4. ASSUME NEW r \in R PROVE Position(R, r.seq) = RankBy(R, key, r) + 1
  <2>1. {q \in R : key[q] < key[r]} = {q \in R : q.seq < r.seq}
    BY <1>2
  <2> QED  BY <2>1 DEF RankBy, Position
<1>5. /\ \A i \in R : RankBy(R, key, i) \in 0..(n - 1)
      /\ \A i, j \in R : key[i] < key[j] => RankBy(R, key, i) < RankBy(R, key, j)
      /\ \A k \in 0..(n - 1) : \E i \in R : RankBy(R, key, i) = k
  BY <1>1, <1>2, <1>3, RanksBy
<1> HIDE DEF n
<1>6. \A r \in R : Position(R, r.seq) \in 1..n
  BY <1>1, <1>4, <1>5
<1>7. ASSUME NEW q \in R, NEW r \in R, q.seq < r.seq
      PROVE  Position(R, q.seq) < Position(R, r.seq)
  <2>1. RankBy(R, key, q) < RankBy(R, key, r) /\ RankBy(R, key, q) \in Int /\ RankBy(R, key, r) \in Int
    BY <1>1, <1>2, <1>5, <1>7
  <2> QED  BY <1>4, <2>1
<1>8. ASSUME NEW k \in 1..n PROVE \E r \in R : Position(R, r.seq) = k
  <2>1. k - 1 \in 0..(n - 1)
    BY <1>1
  <2>2. PICK r \in R : RankBy(R, key, r) = k - 1
    BY <1>5, <2>1
  <2> QED  BY <1>4, <2>2
<1> QED  BY <1>1, <1>6, <1>7, <1>8 DEF n

LEMMA SeqOrder ==
    ASSUME NEW R, Table(R), NEW s, s = InSeqOrder(R)
    PROVE  /\ Cardinality(R) \in Nat /\ DOMAIN s = 1..Cardinality(R)
           /\ \A k \in DOMAIN s : s[k] \in R /\ Position(R, s[k].seq) = k
           /\ \A j, k \in DOMAIN s : j < k => s[j].seq < s[k].seq
           /\ \A r \in R : Position(R, r.seq) \in DOMAIN s /\ s[Position(R, r.seq)] = r
<1> DEFINE n == Cardinality(R)
           Nth(k) == CHOOSE r \in R : Cardinality({q \in R : q.seq < r.seq}) = k - 1
<1>1. /\ n \in Nat
      /\ \A r \in R : Position(R, r.seq) \in 1..n
      /\ \A q, r \in R : q.seq < r.seq => Position(R, q.seq) < Position(R, r.seq)
      /\ \A k \in 1..n : \E r \in R : Position(R, r.seq) = k
  BY Positions
<1>2. \A r \in R : r.seq \in Nat
  BY DEF Table
<1>3. s = [k \in 1..n |-> Nth(k)]
  BY DEF InSeqOrder
<1>4. ASSUME NEW k \in 1..n PROVE Nth(k) \in R /\ Position(R, Nth(k).seq) = k
  <2>1. PICK r \in R : Position(R, r.seq) = k
    BY <1>1
  <2>2. IsFiniteSet(R)
    BY DEF Table
  <2>3. \A q \in R : Cardinality({p \in R : p.seq < q.seq}) \in Nat
    <3> SUFFICES ASSUME NEW q \in R PROVE Cardinality({p \in R : p.seq < q.seq}) \in Nat
      OBVIOUS
    <3>1. {p \in R : p.seq < q.seq} \subseteq R
      OBVIOUS
    <3>2. IsFiniteSet({p \in R : p.seq < q.seq})
      BY <2>2, <3>1, FS_Subset
    <3> QED  BY <3>2, FS_CardinalityType
  <2>4. Cardinality({q \in R : q.seq < r.seq}) = k - 1
    <3> DEFINE c == Cardinality({q \in R : q.seq < r.seq})
    <3>1. c + 1 = k
      BY <2>1 DEF Position
    <3>2. c \in Nat
      BY <2>3
    <3> HIDE DEF c
    <3>3. c = k - 1
      BY <3>1, <3>2
    <3> QED  BY <3>3 DEF c
  <2>5. Nth(k) \in R /\ Cardinality({q \in R : q.seq < Nth(k).seq}) = k - 1
    BY <2>4
  <2> HIDE DEF Nth
  <2> QED  BY <1>1, <2>5 DEF Position
<1> HIDE DEF Nth, n
<1>5. \A k \in 1..n : s[k] \in R /\ Position(R, s[k].seq) = k
  BY <1>3, <1>4
<1>6. ASSUME NEW j \in 1..n, NEW k \in 1..n, j < k PROVE s[j].seq < s[k].seq
  <2>1. s[j] \in R /\ s[k] \in R /\ Position(R, s[j].seq) = j /\ Position(R, s[k].seq) = k
    BY <1>5
  <2>2. s[k].seq < s[j].seq => k < j
    BY <1>1, <2>1
  <2>3. s[j].seq # s[k].seq
    BY <1>1, <1>6, <2>1
  <2>4. s[j].seq \in Nat /\ s[k].seq \in Nat
    BY <1>2, <2>1
  <2> QED  BY <1>1, <1>6, <2>2, <2>3, <2>4
<1>7. ASSUME NEW r \in R PROVE Position(R, r.seq) \in 1..n /\ s[Position(R, r.seq)] = r
  <2> DEFINE k == Position(R, r.seq)
  <2>1. k \in 1..n
    BY <1>1
  <2> HIDE DEF k
  <2>2. s[k] \in R /\ Position(R, s[k].seq) = k
    BY <1>5, <2>1
  <2>3. s[k].seq \in Nat /\ r.seq \in Nat
    BY <1>2, <2>2
  <2>4. ~(s[k].seq < r.seq) /\ ~(r.seq < s[k].seq)
    BY <1>1, <2>1, <2>2 DEF k
  <2>5. s[k].seq = r.seq
    BY <2>3, <2>4
  <2> QED  BY <2>1, <2>2, <2>5 DEF k, Table
<1>8. DOMAIN s = 1..n
  BY <1>3
<1> QED  BY <1>1, <1>5, <1>6, <1>7, <1>8 DEF n

LEMMA Walk ==
    ASSUME NEW R, Table(R)
    PROVE  /\ DOMAIN InSeqOrder(R) = 1..Cardinality(R)
           /\ \A r \in R : InSeqOrder(R)[Position(R, r.seq)] = r
  BY SeqOrder

(* The prologue is what it says: the longest leading run of bad entries.   *)
LEMMA PrologueIs ==
    ASSUME NEW n \in Nat, NEW s, DOMAIN s = 1..n
    PROVE  /\ Prologue(s) \in 0..n
           /\ \A i \in 1..Prologue(s) : ~s[i].entry.canonical
           /\ Prologue(s) < n => s[Prologue(s) + 1].entry.canonical
<1> DEFINE bad(j) == ~s[j].entry.canonical
           P == {i \in DOMAIN s : \A j \in 1..i : bad(j)}
           G == (1..(n + 1)) \ P
<1>1. Prologue(s) = Cardinality(P)
  BY DEF Prologue
<1> HIDE DEF bad
<1>2. G \in SUBSET Nat /\ IsFiniteSet(G) /\ n + 1 \in G
  <2>1. IsFiniteSet(1..(n + 1))
    BY FS_Interval
  <2> QED  BY <2>1, FS_Subset
<1>3. PICK m \in G : \A i \in G : m <= i
  <2>1. G # {}
    BY <1>2
  <2> HIDE DEF G
  <2> QED  BY <1>2, <2>1, LeastElement
<1>4. m \in 1..(n + 1) /\ m \notin P
  BY <1>3
<1>5. \A i \in 1..(m - 1) : i \in P
  <2> SUFFICES ASSUME NEW i \in 1..(m - 1) PROVE i \in P
    OBVIOUS
  <2>1. i \in 1..(n + 1) /\ ~(m <= i)
    BY <1>4
  <2> QED  BY <1>3, <2>1
<1>6. \A i \in P : i \in 1..n /\ i < m
  <2> SUFFICES ASSUME NEW i \in P PROVE i < m
    OBVIOUS
  <2>1. i \in 1..n /\ \A j \in 1..i : bad(j)
    OBVIOUS
  <2>2. CASE m <= i
    <3>1. m \in DOMAIN s /\ \A j \in 1..m : j \in 1..i
      BY <1>4, <2>1, <2>2
    <3> QED  BY <1>4, <2>1, <3>1
  <2> QED  BY <1>4, <2>1, <2>2
<1>7. P = 1..(m - 1)
  BY <1>4, <1>5, <1>6
<1>8. \A i \in 1..(m - 1) : bad(i)
  <2> SUFFICES ASSUME NEW i \in 1..(m - 1) PROVE bad(i)
    OBVIOUS
  <2>1. i \in P /\ i \in 1..i
    BY <1>4, <1>5
  <2> QED  BY <2>1
<1>9. m - 1 < n => ~bad(m)
  <2> SUFFICES ASSUME m - 1 < n, bad(m) PROVE FALSE
    OBVIOUS
  <2>1. m \in DOMAIN s /\ \A j \in 1..m : j \in 1..(m - 1) \/ j = m
    BY <1>4
  <2>2. \A j \in 1..m : bad(j)
    BY <1>8, <2>1
  <2> QED  BY <1>4, <2>1, <2>2
<1>10. Cardinality(P) = m - 1
  <2>1. 1 \in Int /\ m - 1 \in Int
    BY <1>4
  <2>2. Cardinality(1..(m - 1)) = IF 1 > m - 1 THEN 0 ELSE (m - 1) - 1 + 1
    BY <2>1, FS_Interval
  <2> HIDE DEF P
  <2> QED  BY <1>4, <1>7, <2>2
<1> HIDE DEF P, G
<1>11. Prologue(s) = m - 1 /\ (m - 1) + 1 = m
  BY <1>1, <1>4, <1>10
<1>12. m - 1 \in 0..n
  BY <1>4
<1>13. m - 1 < n => s[m].entry.canonical
  BY <1>9 DEF bad
<1>14. \A i \in 1..(m - 1) : ~s[i].entry.canonical
  BY <1>8 DEF bad
<1> QED  BY <1>11, <1>12, <1>13, <1>14

(* ... and the only one. *)
LEMMA PrologueUnique ==
    ASSUME NEW n \in Nat, NEW s, DOMAIN s = 1..n, NEW m \in 0..n,
           \A i \in 1..m : ~s[i].entry.canonical,
           m < n => s[m + 1].entry.canonical
    PROVE  Prologue(s) = m
<1> DEFINE p == Prologue(s)
<1>1. /\ p \in 0..n
      /\ \A i \in 1..p : ~s[i].entry.canonical
      /\ p < n => s[p + 1].entry.canonical
  BY PrologueIs
<1> HIDE DEF p
<1>2. ~(p < m)
  <2> SUFFICES ASSUME p < m PROVE FALSE
    OBVIOUS
  <2>1. p < n /\ p + 1 \in 1..m
    BY <1>1
  <2> QED  BY <1>1, <2>1
<1>3. ~(m < p)
  <2> SUFFICES ASSUME m < p PROVE FALSE
    OBVIOUS
  <2>1. m < n /\ m + 1 \in 1..p
    BY <1>1
  <2> QED  BY <1>1, <2>1
<1>4. p = m
  BY <1>1, <1>2, <1>3
<1> QED  BY <1>4 DEF p

(* A well-linked table passes the linkage check of the walk.               *)
LEMMA WellLinkedIsLinked ==
    ASSUME NEW R, Table(R), WellLinked(R)
    PROVE  Linked(InSeqOrder(R))
<1> DEFINE s == InSeqOrder(R)
<1>1. /\ Cardinality(R) \in Nat /\ DOMAIN s = 1..Cardinality(R)
      /\ \A k \in DOMAIN s : s[k] \in R
      /\ \A j, k \in DOMAIN s : j < k => s[j].seq < s[k].seq
      /\ \A r \in R : \E k \in DOMAIN s : s[k] = r
  <2>1. \A r \in R : Position(R, r.seq) \in DOMAIN s /\ s[Position(R, r.seq)] = r
    BY SeqOrder
  <2> QED  BY <2>1, SeqOrder
<1>2. \A r \in R : r.seq \in Nat \ {0} /\ r.prev \in Nat
  BY DEF Table
<1>3. \A r \in R : r.prev < r.seq /\ (r.prev = 0 \/ \E q \in R : q.seq = r.prev)
  BY DEF WellLinked
<1>4. \A q, r \in R : q.seq < r.seq => q.seq <= r.prev
  BY DEF WellLinked
<1> HIDE DEF s
<1>5. ASSUME NEW i \in DOMAIN s PROVE s[i].prev = Predecessor(s, i)
  <2>1. s[i] \in R /\ s[i].prev < s[i].seq /\ s[i].prev \in Nat /\ s[i].seq \in Nat
    BY <1>1, <1>2, <1>3
  <2>2. s[i].prev = 0 \/ \E j \in DOMAIN s : s[j].seq = s[i].prev
    BY <1>1, <1>3, <2>1
  <2>3. ASSUME NEW j \in DOMAIN s, s[j].seq = s[i].prev PROVE j < i
    <3>1. ~(i < j) /\ i # j
      <4>1. i < j => s[i].seq < s[j].seq
        BY <1>1
      <4>2. s[j].seq < s[i].seq /\ s[j].seq \in Nat
        BY <2>1, <2>3
      <4> QED  BY <2>1, <4>1, <4>2
    <3> QED  BY <1>1, <3>1
  <2>4. CASE i = 1
    <3>1. ~ \E j \in DOMAIN s : s[j].seq = s[i].prev
      <4>1. \A j \in DOMAIN s : ~(j < i)
        BY <1>1, <2>4
      <4> QED  BY <2>3, <4>1
    <3> QED  BY <2>2, <2>4, <3>1 DEF Predecessor
  <2>5. CASE i # 1
    <3> DEFINE b == i - 1
    <3>1. b \in DOMAIN s /\ b < i /\ b \in Nat /\ i \in Nat
      BY <1>1, <2>5
    <3>2. s[b] \in R /\ s[b].seq < s[i].seq /\ s[b].seq \in Nat \ {0}
      BY <1>1, <1>2, <3>1
    <3>3. s[b].seq <= s[i].prev
      BY <1>4, <2>1, <3>2
    <3>4. PICK j \in DOMAIN s : s[j].seq = s[i].prev
      BY <2>1, <2>2, <3>2, <3>3
    <3>5. j < i
      BY <2>3, <3>4
    <3>6. ~(j < b)
      <4>1. j < b => s[j].seq < s[b].seq
        BY <1>1, <3>1
      <4>2. s[b].seq <= s[j].seq /\ s[j].seq \in Nat
        BY <2>1, <3>3, <3>4
      <4> QED  BY <3>2, <4>1, <4>2
    <3>7. j = b
      BY <1>1, <3>1, <3>5, <3>6
    <3> QED  BY <2>5, <3>4, <3>7 DEF Predecessor
  <2> QED  BY <2>4, <2>5
<1> QED  BY <1>5 DEF Linked, s

(* A table that passes it names, in each row, an older row or the genesis. *)
LEMMA LinkedIsBackward ==
    ASSUME NEW R, Table(R), Linked(InSeqOrder(R)), NEW r \in R
    PROVE  r.prev < r.seq /\ (r.prev = 0 \/ \E q \in R : q.seq = r.prev)
<1> DEFINE s == InSeqOrder(R)
           i == Position(R, r.seq)
<1>1. /\ Cardinality(R) \in Nat /\ DOMAIN s = 1..Cardinality(R)
      /\ \A k \in DOMAIN s : s[k] \in R
      /\ \A j, k \in DOMAIN s : j < k => s[j].seq < s[k].seq
      /\ i \in DOMAIN s /\ s[i] = r
  BY SeqOrder
<1>2. \A k \in DOMAIN s : s[k].prev = Predecessor(s, k)
  BY DEF Linked
<1> HIDE DEF s, i
<1>3. r.prev = Predecessor(s, i) /\ r.seq \in Nat \ {0}
  BY <1>1, <1>2 DEF Table
<1>4. CASE i = 1
  BY <1>3, <1>4 DEF Predecessor
<1>5. CASE i # 1
  <2>1. i - 1 \in DOMAIN s /\ i - 1 < i
    BY <1>1, <1>5
  <2>2. s[i - 1] \in R /\ s[i - 1].seq < s[i].seq /\ r.prev = s[i - 1].seq
    BY <1>1, <1>3, <1>5, <2>1 DEF Predecessor
  <2> QED  BY <1>1, <2>2
<1> QED  BY <1>4, <1>5

(* A row numbered above the others comes last in the walk.                 *)
LEMMA AppendOrder ==
    ASSUME NEW R, Table(R), NEW x \in Row, \A r \in R : r.seq < x.seq,
           NEW s, s = InSeqOrder(R), NEW u, u = InSeqOrder(R \union {x})
    PROVE  /\ Table(R \union {x})
           /\ Cardinality(R) \in Nat /\ DOMAIN s = 1..Cardinality(R)
           /\ DOMAIN u = 1..(Cardinality(R) + 1)
           /\ \A k \in 1..Cardinality(R) : u[k] = s[k]
           /\ u[Cardinality(R) + 1] = x
<1> DEFINE S == R \union {x}
           n == Cardinality(R)
<1>1. x \notin R /\ IsFiniteSet(R) /\ \A r \in S : r.seq \in Nat
  BY DEF Table
<1>2. Table(S)
  <2>1. IsFiniteSet(S) /\ S \subseteq Row
    BY <1>1, FS_AddElement DEF Table
  <2>2. ASSUME NEW q \in S, NEW r \in S, q.seq = r.seq PROVE q = r
    <3>1. \A p \in R : p.seq \in Nat /\ x.seq \in Nat /\ p.seq # x.seq
      BY <1>1
    <3> QED  BY <2>2, <3>1 DEF Table
  <2> QED  BY <2>1, <2>2 DEF Table
<1>3. Cardinality(S) = n + 1 /\ n \in Nat
  BY <1>1, FS_AddElement, FS_CardinalityType
<1>4. ASSUME NEW r \in R PROVE Position(S, r.seq) = Position(R, r.seq)
  <2>1. ~(x.seq < r.seq)
    BY <1>1
  <2>2. {q \in S : q.seq < r.seq} = {q \in R : q.seq < r.seq}
    BY <2>1
  <2> QED  BY <2>2 DEF Position
<1>5. Position(S, x.seq) = n + 1
  <2>1. {q \in S : q.seq < x.seq} = R
    BY <1>1
  <2> QED  BY <2>1 DEF Position
<1>6. DOMAIN s = 1..n /\ \A k \in DOMAIN s : s[k] \in R /\ Position(R, s[k].seq) = k
  BY SeqOrder
<1>7. /\ DOMAIN u = 1..(n + 1)
      /\ \A r \in S : u[Position(S, r.seq)] = r
  <2>1. u = InSeqOrder(S)
    OBVIOUS
  <2> HIDE DEF S, n
  <2>2. DOMAIN u = 1..Cardinality(S) /\ \A r \in S : u[Position(S, r.seq)] = r
    BY <1>2, <2>1, SeqOrder
  <2> QED  BY <1>3, <2>2
<1>8. ASSUME NEW k \in 1..n PROVE u[k] = s[k]
  <2>1. s[k] \in R /\ Position(R, s[k].seq) = k
    BY <1>6
  <2>2. Position(S, s[k].seq) = k
    BY <1>4, <2>1
  <2>3. u[Position(S, s[k].seq)] = s[k]
    BY <1>7, <2>1
  <2> QED  BY <2>2, <2>3
<1>9. u[n + 1] = x
  BY <1>5, <1>7
<1> QED  BY <1>2, <1>3, <1>6, <1>7, <1>8, <1>9

(* What is appended with a good digest leaves the prologue where it was.   *)
LEMMA PrologueStays ==
    ASSUME NEW R, Table(R), NEW x \in Row, \A r \in R : r.seq < x.seq, x.entry.canonical,
           NEW s, s = InSeqOrder(R), NEW u, u = InSeqOrder(R \union {x})
    PROVE  /\ Prologue(u) = Prologue(s)
           /\ Boundary(u) = Boundary(s)
           /\ BadEntriesLead(u) <=> BadEntriesLead(s)
<1> DEFINE n == Cardinality(R)
<1>1. /\ n \in Nat /\ DOMAIN s = 1..n /\ DOMAIN u = 1..(n + 1)
      /\ \A k \in 1..n : u[k] = s[k]
      /\ u[n + 1] = x
  <2>1. /\ Table(R \union {x})
        /\ Cardinality(R) \in Nat /\ DOMAIN s = 1..Cardinality(R)
        /\ DOMAIN u = 1..(Cardinality(R) + 1)
        /\ \A k \in 1..Cardinality(R) : u[k] = s[k]
        /\ u[Cardinality(R) + 1] = x
    BY AppendOrder
  <2> QED  BY <2>1
<1> HIDE DEF n
<1> DEFINE m == Prologue(s)
<1>2. /\ m \in 0..n
      /\ \A i \in 1..m : ~s[i].entry.canonical
      /\ m < n => s[m + 1].entry.canonical
  BY <1>1, PrologueIs
<1> HIDE DEF m
<1>3. Prologue(u) = m
  <2>1. m \in 0..(n + 1) /\ n + 1 \in Nat
    BY <1>1, <1>2
  <2>2. \A i \in 1..m : ~u[i].entry.canonical
    <3>1. \A i \in 1..m : i \in 1..n
      BY <1>1, <1>2
    <3> QED  BY <1>1, <1>2, <3>1
  <2>3. u[m + 1].entry.canonical
    <3>1. CASE m < n
      <4>1. m + 1 \in 1..n
        BY <1>1, <1>2, <3>1
      <4> QED  BY <1>1, <1>2, <3>1, <4>1
    <3>2. CASE m = n
      BY <1>1, <3>2
    <3> QED  BY <1>1, <1>2, <3>1, <3>2
  <2> QED  BY <1>1, <2>1, <2>2, <2>3, PrologueUnique
<1>4. Boundary(u) = Boundary(s)
  <2>1. m # 0 => m \in 1..n
    BY <1>1, <1>2
  <2> QED  BY <1>1, <1>3, <2>1 DEF Boundary, m
<1>5. BadEntriesLead(u) <=> BadEntriesLead(s)
  <2>1. \A i \in 1..(n + 1) : i \in 1..n \/ i = n + 1
    BY <1>1
  <2>2. \A i \in 1..n : i \in 1..(n + 1)
    BY <1>1
  <2> QED  BY <1>1, <1>3, <2>1, <2>2 DEF BadEntriesLead, m
<1> QED  BY <1>3, <1>4, <1>5 DEF m

-----------------------------------------------------------------------------
(* The sealing protocol.                                                   *)

LEMMA RowsAreATable == IInv => Table(rows)
  BY DEF IInv, TypeOK, RowsInv, Table

LEMMA SealIsEntry == {Ordinary, PreCanonical, Seal} \subseteq Entry
  BY SealAssumption DEF Seal

LEMMA SealInitInv == SealInit => Init /\ SealInv
<1> SUFFICES ASSUME SealInit PROVE Init /\ SealInv
  OBVIOUS
<1>1. Init /\ rows = Legacy /\ entry = [w \in Writer |-> Ordinary] /\ loaded = [w \in Writer |-> {}]
  BY DEF SealInit, Init
<1> QED  BY <1>1 DEF SealInv

LEMMA SealStepInv == IInv /\ SealInv /\ [SealNext]_sealVars => [Next]_vars /\ SealInv'
<1> SUFFICES ASSUME IInv, SealInv, [SealNext]_sealVars
             PROVE  [Next]_vars /\ SealInv'
  OBVIOUS
<1>1. /\ loaded \in [Writer -> SUBSET Row] /\ rows \in SUBSET Row
      /\ entry \in [Writer -> Entry]
  BY DEF SealInv, IInv, TypeOK
<1>2. ASSUME NEW w \in Writer, LoadForSeal(w) PROVE [Next]_vars /\ SealInv'
  <2>1. UNCHANGED vars /\ loaded' = [loaded EXCEPT ![w] = rows]
    BY <1>2 DEF LoadForSeal
  <2>2. Prologue(InSeqOrder(rows)) > 0 /\ BadEntriesLead(InSeqOrder(rows))
    BY <1>2 DEF LoadForSeal, Sealable
  <2>3. EpochEntry(rows) = Seal /\ Sound
    BY <2>2 DEF EpochEntry, Seal, Sound, SealInv
  <2>4. rows' = rows /\ entry' = entry
    BY <2>1 DEF vars
  <2>5. ASSUME NEW v \in Writer, loaded'[v] # {} PROVE EpochEntry(loaded'[v]) = Seal /\ Sound
    BY <1>1, <2>1, <2>3, <2>5 DEF SealInv
  <2>6. loaded' \in [Writer -> SUBSET Row]
    BY <1>1, <2>1
  <2> QED  BY <2>1, <2>4, <2>5, <2>6 DEF SealInv
<1>3. ASSUME NEW w \in Writer, NEW e \in {Ordinary, Seal}, Begin(w, e), e = Seal => Sound \/ e = Ordinary,
             loaded' = [loaded EXCEPT ![w] = {}] \/ loaded' = loaded
      PROVE  [Next]_vars /\ SealInv'
  <2>1. rows' = rows /\ entry' = [entry EXCEPT ![w] = e]
    BY <1>3 DEF Begin
  <2>2. Next
    BY <1>3, SealIsEntry DEF Next
  <2>3. loaded' \in [Writer -> SUBSET Row] /\ \A v \in Writer : loaded'[v] # {} => loaded'[v] = loaded[v]
    BY <1>1, <1>3
  <2>4. \A v \in Writer : entry'[v] = Ordinary \/ (entry'[v] = Seal /\ Sound)
    BY <1>1, <1>3, <2>1 DEF SealInv
  <2>5. \A v \in Writer : loaded'[v] # {} => EpochEntry(loaded'[v]) = Seal /\ Sound
    BY <2>3 DEF SealInv
  <2> QED  BY <2>1, <2>2, <2>3, <2>4, <2>5 DEF SealInv
<1>4. ASSUME NEW w \in Writer, SealBegin(w) PROVE [Next]_vars /\ SealInv'
  <2>1. loaded[w] # {} /\ Begin(w, EpochEntry(loaded[w])) /\ loaded' = [loaded EXCEPT ![w] = {}]
    BY <1>4 DEF SealBegin
  <2>2. EpochEntry(loaded[w]) = Seal /\ Sound
    BY <2>1 DEF SealInv
  <2>3. Begin(w, Seal)
    BY <2>1, <2>2
  <2> QED  BY <1>3, <2>1, <2>2, <2>3
<1>5. ASSUME NEW w \in Writer, Begin(w, Ordinary), UNCHANGED loaded PROVE [Next]_vars /\ SealInv'
  BY <1>3, <1>5
<1>6. ASSUME NEW w \in Writer, Commit(w), UNCHANGED loaded PROVE [Next]_vars /\ SealInv'
  <2> DEFINE x == [seq |-> mine[w], prev |-> tip[w], entry |-> entry[w]]
  <2>1. x \in Row /\ IsTip(x.prev, rows) /\ x.prev < x.seq /\ rows' = rows \union {x} /\ x.entry = entry[w]
    BY <1>6, CommitLinks
  <2> HIDE DEF x
  <2>2. \A r \in rows : r.seq < x.seq
    <3>1. \A r \in rows : r.seq <= x.prev /\ r.seq \in Nat /\ x.prev \in Nat /\ x.seq \in Nat
      BY <1>1, <2>1
    <3> QED  BY <2>1, <3>1
  <2>3. x.entry.canonical
    <3>1. Ordinary.canonical /\ Seal.canonical
      BY DEF Ordinary, Seal, EpochEntry
    <3>2. entry[w] = Ordinary \/ entry[w] = Seal
      BY DEF SealInv
    <3> QED  BY <2>1, <3>1, <3>2
  <2>4. /\ Prologue(InSeqOrder(rows')) = Prologue(InSeqOrder(rows))
        /\ Boundary(InSeqOrder(rows')) = Boundary(InSeqOrder(rows))
        /\ BadEntriesLead(InSeqOrder(rows')) <=> BadEntriesLead(InSeqOrder(rows))
    BY <2>1, <2>2, <2>3, RowsAreATable, PrologueStays
  <2>5. entry' = entry /\ Next
    BY <1>6 DEF Commit, Next, Step
  <2>6. \A r \in rows' : r \in Legacy \/ r.entry = Ordinary \/ (r.entry = Seal /\ Sound)
    BY <2>1 DEF SealInv
  <2> QED  BY <1>6, <2>4, <2>5, <2>6 DEF SealInv
<1>7. ASSUME NEW w \in Writer, UNCHANGED loaded,
             ReadTip(w) \/ TakeSeq(w) \/ Place(w) \/ LoseRace(w) \/ Throw(w) \/ Abort(w)
      PROVE  [Next]_vars /\ SealInv'
  <2>1. rows' = rows /\ entry' = entry
    BY <1>7 DEF ReadTip, TakeSeq, Place, LoseRace, Throw, Abort
  <2>2. Next
    BY <1>7 DEF Next, Step
  <2> QED  BY <1>7, <2>1, <2>2 DEF SealInv
<1>8. CASE UNCHANGED sealVars
  BY <1>8 DEF sealVars, vars, SealInv
<1> QED  BY <1>2, <1>4, <1>5, <1>6, <1>7, <1>8 DEF SealNext, Step

(* Sealing adds nothing to the protocol: every step is a step of AuditChain. *)
THEOREM SealInvariance == SealSpec => Spec /\ [](IInv /\ SealInv)
<1>1. SealInit => Init /\ SealInv
  BY SealInitInv
<1>2. IInv /\ SealInv /\ [SealNext]_sealVars => [Next]_vars /\ SealInv'
  BY SealStepInv
<1>3. Init => IInv
  BY InitInv
<1>4. IInv /\ [Next]_vars => IInv'
  BY StepInv
<1> QED  BY <1>1, <1>2, <1>3, <1>4, PTL DEF SealSpec, Spec

(* The invariants and the refinement proved of AuditChain hold of sealing. *)
THEOREM SealKeepsTheChain == SealSpec => []ChainIsLinear /\ []LossesArePaidFor /\ ImplementsChain
  BY SealInvariance, Linear, NoSpuriousLoss, Refinement, PTL

(* The first epoch entry of a sealed log, or of a log that needs no seal,  *)
(* names the prologue verifyChain computes.                                *)
LEMMA EpochsAgree ==
    ASSUME IInv, SealInv, HasEpoch(rows) \/ Legacy = {}
    PROVE  EpochAgrees(InSeqOrder(rows)) /\ BadEntriesLead(InSeqOrder(rows))
<1> DEFINE s == InSeqOrder(rows)
           E == {i \in DOMAIN s : IsEpoch(s[i])}
<1>1. /\ Cardinality(rows) \in Nat /\ DOMAIN s = 1..Cardinality(rows)
      /\ \A k \in DOMAIN s : s[k] \in rows
      /\ \A r \in rows : \E k \in DOMAIN s : s[k] = r
  <2>1. \A r \in rows : Position(rows, r.seq) \in DOMAIN s /\ s[Position(rows, r.seq)] = r
    BY RowsAreATable, SeqOrder
  <2> QED  BY <2>1, RowsAreATable, SeqOrder
<1>2. /\ Prologue(s) = Prologue(InSeqOrder(Legacy)) /\ Boundary(s) = Boundary(InSeqOrder(Legacy))
      /\ BadEntriesLead(s) <=> BadEntriesLead(InSeqOrder(Legacy))
  BY DEF SealInv
<1> HIDE DEF s
<1>3. ASSUME NEW r \in rows, IsEpoch(r) PROVE r.entry = Seal /\ Sound
  BY <1>3, SealAssumption DEF SealInv, IsEpoch, Ordinary, PreCanonical
<1>4. Legacy = {} => Prologue(InSeqOrder(Legacy)) = 0 /\ BadEntriesLead(InSeqOrder(Legacy))
  <2> SUFFICES ASSUME Legacy = {}
               PROVE  Prologue(InSeqOrder(Legacy)) = 0 /\ BadEntriesLead(InSeqOrder(Legacy))
    OBVIOUS
  <2>1. Table(Legacy) /\ Cardinality(Legacy) = 0
    BY FS_EmptySet, LegacyAssumption DEF Table
  <2> DEFINE z == InSeqOrder(Legacy)
  <2>2. DOMAIN z = 1..0
    BY <2>1, SeqOrder
  <2> HIDE DEF z
  <2>3. Prologue(z) \in 0..0
    BY <2>2, PrologueIs
  <2> QED  BY <2>2, <2>3 DEF BadEntriesLead, z
<1>5. BadEntriesLead(s)
  BY <1>2, <1>3, <1>4 DEF HasEpoch, Sound
<1>6. EpochAgrees(s)
  <2>1. CASE E = {}
    <3>1. ~HasEpoch(rows)
      BY <1>1, <2>1 DEF HasEpoch
    <3> QED  BY <1>2, <1>4, <2>1, <3>1 DEF EpochAgrees
  <2>2. CASE E # {}
    <3> DEFINE i == CHOOSE i \in E : \A j \in E : i <= j
    <3>1. E \in SUBSET Nat /\ IsFiniteSet(E)
      <4>1. IsFiniteSet(1..Cardinality(rows)) /\ 1..Cardinality(rows) \in SUBSET Nat
        BY <1>1, FS_Interval
      <4>2. E \subseteq 1..Cardinality(rows)
        BY <1>1
      <4> HIDE DEF E
      <4>3. IsFiniteSet(E)
        BY <4>1, <4>2, FS_Subset
      <4> QED  BY <4>1, <4>2, <4>3
    <3>2. i \in E
      <4> HIDE DEF E
      <4> QED  BY <2>2, <3>1, LeastElement
    <3>3. s[i].entry = Seal
      BY <1>1, <1>3, <3>2
    <3>4. s[i].entry.epoch.entries = Prologue(s) /\ s[i].entry.epoch.boundary = Boundary(s)
      BY <1>2, <3>3 DEF Seal, EpochEntry
    <3> QED  BY <2>2, <3>4 DEF EpochAgrees
  <2> QED  BY <2>1, <2>2
<1> QED  BY <1>5, <1>6 DEF s

(* A sealed log that nobody touched verifies, whatever was appended        *)
(* between the sealer's read and its append and however many sealers ran.  *)
THEOREM SealedVerifies == SealSpec => []SealedChainVerifies
<1>1. IInv /\ SealInv => SealedChainVerifies
  <2> SUFFICES ASSUME IInv, SealInv, HasEpoch(rows) \/ Legacy = {} PROVE Verifies(rows)
    BY DEF SealedChainVerifies
  <2>1. EpochAgrees(InSeqOrder(rows)) /\ BadEntriesLead(InSeqOrder(rows))
    BY EpochsAgree
  <2>2. Linked(InSeqOrder(rows))
    BY RowsAreATable, WellLinkedIsLinked DEF IInv, RowsInv
  <2>3. \A q, r \in rows : q.prev = r.prev => q = r
    BY NoFork DEF IInv, TypeOK, RowsInv
  <2> QED  BY <2>1, <2>2, <2>3 DEF Verifies
<1> QED  BY <1>1, SealInvariance, PTL

-----------------------------------------------------------------------------
(* Tampering.                                                              *)

LEMMA AlteredRow ==
    ASSUME NEW r \in Row
    PROVE  /\ Altered(r) \in Row /\ Altered(r).seq = r.seq
           /\ ~Altered(r).entry.canonical /\ ~IsEpoch(Altered(r))
  BY SealIsEntry DEF Altered, PreCanonical, IsEpoch

(* Altering an entry moves no row of the walk.                             *)
LEMMA AlteredOrder ==
    ASSUME NEW R, Table(R), NEW r \in R, NEW A, A = (R \ {r}) \union {Altered(r)},
           NEW s, s = InSeqOrder(R), NEW u, u = InSeqOrder(A)
    PROVE  /\ Table(A) /\ Cardinality(R) \in Nat
           /\ DOMAIN s = 1..Cardinality(R) /\ DOMAIN u = 1..Cardinality(R)
           /\ \A k \in 1..Cardinality(R) : u[k] = IF s[k] = r THEN Altered(r) ELSE s[k]
<1> DEFINE a == Altered(r)
           n == Cardinality(R)
<1>1. /\ R \subseteq Row /\ IsFiniteSet(R) /\ n \in Nat
      /\ \A p, q \in R : p.seq = q.seq => p = q
  BY FS_CardinalityType DEF Table
<1>2. a \in Row /\ a.seq = r.seq
  BY <1>1, AlteredRow
<1> HIDE DEF a
<1>3. A = (R \ {r}) \union {a} /\ a \notin R \ {r}
  <2>1. \A q \in R \ {r} : q.seq # r.seq
    BY <1>1
  <2> QED  BY <1>2, <2>1 DEF a
<1>4. Table(A)
  <2>1. IsFiniteSet(R \ {r})
    BY <1>1, FS_RemoveElement
  <2>2. IsFiniteSet(A) /\ A \subseteq Row
    BY <1>1, <1>2, <1>3, <2>1, FS_AddElement
  <2>3. ASSUME NEW p \in A, NEW q \in A, p.seq = q.seq PROVE p = q
    <3>1. \A v \in R \ {r} : v.seq # a.seq
      BY <1>1, <1>2
    <3> QED  BY <1>1, <1>3, <2>3, <3>1
  <2> QED  BY <2>2, <2>3 DEF Table
<1>5. Cardinality(A) = n
  <2>1. IsFiniteSet(R \ {r}) /\ Cardinality(R \ {r}) = n - 1
    BY <1>1, FS_RemoveElement
  <2>2. Cardinality((R \ {r}) \union {a}) = (n - 1) + 1
    BY <1>3, <2>1, FS_AddElement
  <2> QED  BY <1>1, <1>3, <2>2
<1>6. ASSUME NEW t PROVE Position(A, t) = Position(R, t)
  <2> DEFINE D == {q \in R \ {r} : q.seq < t}
  <2>1. CASE ~(r.seq < t)
    <3>1. {q \in A : q.seq < t} = {q \in R : q.seq < t}
      BY <1>2, <1>3, <2>1
    <3> QED  BY <3>1 DEF Position
  <2>2. CASE r.seq < t
    <3>1. /\ {q \in R : q.seq < t} = D \union {r} /\ r \notin D
          /\ {q \in A : q.seq < t} = D \union {a} /\ a \notin D
      BY <1>2, <1>3, <2>2
    <3>2. D \subseteq R
      OBVIOUS
    <3> HIDE DEF D
    <3>3. IsFiniteSet(D)
      BY <1>1, <3>2, FS_Subset
    <3>4. Cardinality(D \union {r}) = Cardinality(D) + 1 /\ Cardinality(D \union {a}) = Cardinality(D) + 1
      BY <3>1, <3>3, FS_AddElement
    <3> QED  BY <3>1, <3>4 DEF Position
  <2> QED  BY <2>1, <2>2
<1>7. DOMAIN s = 1..n /\ \A k \in DOMAIN s : s[k] \in R /\ Position(R, s[k].seq) = k
  BY SeqOrder
<1>8. DOMAIN u = 1..n /\ \A q \in A : u[Position(A, q.seq)] = q
  <2> DEFINE z == InSeqOrder(A)
  <2>1. DOMAIN z = 1..Cardinality(A) /\ \A q \in A : z[Position(A, q.seq)] = q
    BY <1>4, Walk
  <2>2. u = z
    OBVIOUS
  <2> HIDE DEF z
  <2> QED  BY <1>5, <2>1, <2>2
<1>9. ASSUME NEW k \in 1..n PROVE u[k] = IF s[k] = r THEN a ELSE s[k]
  <2>1. s[k] \in R /\ Position(A, s[k].seq) = k
    BY <1>6, <1>7
  <2>2. CASE s[k] = r
    <3>1. a \in A /\ Position(A, a.seq) = k
      BY <1>2, <1>3, <2>1, <2>2
    <3>2. u[k] = a
      BY <1>8, <3>1
    <3> QED  BY <2>2, <3>2
  <2>3. CASE s[k] # r
    <3>1. s[k] \in A
      BY <1>3, <2>1, <2>3
    <3>2. u[k] = s[k]
      BY <1>8, <2>1, <3>1
    <3> QED  BY <2>3, <3>2
  <2> QED  BY <2>2, <2>3
<1> QED  BY <1>1, <1>4, <1>7, <1>8, <1>9 DEF a, n

(* A missing row leaves its successor linked to nothing.                   *)
LEMMA RemovalIsReported ==
    ASSUME IInv, NEW r \in rows, ~IsTip(r.seq, rows)
    PROVE  ~Verifies(rows \ {r})
<1> SUFFICES ASSUME Linked(InSeqOrder(rows \ {r})) PROVE FALSE
  BY DEF Verifies
<1>1. Table(rows) /\ WellLinked(rows) /\ \A q \in rows : q.seq \in Nat \ {0} /\ q.prev \in Nat
  BY RowsAreATable DEF IInv, RowsInv, Table
<1>2. PICK q \in rows : q.prev = r.seq
  <2>1. \E q \in rows : q.seq > r.seq
    BY <1>1
  <2>2. r.seq \in Seqs(rows) \union {Genesis}
    OBVIOUS
  <2> QED  BY <1>1, <2>1, <2>2 DEF WellLinked
<1>3. q # r
  BY <1>1, <1>2 DEF WellLinked
<1>4. Table(rows \ {r})
  BY <1>1, FS_RemoveElement DEF Table
<1>5. q.prev = 0 \/ \E p \in rows \ {r} : p.seq = q.prev
  <2>1. q \in rows \ {r}
    BY <1>3
  <2> QED  BY <1>4, <2>1, LinkedIsBackward
<1> QED  BY <1>1, <1>2, <1>5 DEF Table

(* An altered entry either fails its digest after the prologue or moves    *)
(* the end of the prologue away from where the seal says it is.            *)
LEMMA AlterationIsReported ==
    ASSUME IInv, SealInv, NEW r \in rows, r.entry.canonical
    PROVE  ~Verifies((rows \ {r}) \union {Altered(r)})
<1> DEFINE A == (rows \ {r}) \union {Altered(r)}
           s == InSeqOrder(rows)
           u == InSeqOrder(A)
           n == Cardinality(rows)
           i == Position(rows, r.seq)
<1> SUFFICES ASSUME EpochAgrees(u), BadEntriesLead(u) PROVE FALSE
  BY DEF Verifies
<1>1. Table(rows) /\ r \in Row
  BY RowsAreATable DEF Table
<1>2. /\ n \in Nat /\ DOMAIN s = 1..n /\ DOMAIN u = 1..n
      /\ \A k \in 1..n : u[k] = IF s[k] = r THEN Altered(r) ELSE s[k]
  BY <1>1, AlteredOrder
<1>3. /\ \A k \in 1..n : s[k] \in rows /\ Position(rows, s[k].seq) = k
      /\ i \in 1..n /\ s[i] = r
  BY <1>1, <1>2, SeqOrder
<1>4. \A k \in 1..n : s[k] = r => k = i
  BY <1>3
<1>5. Prologue(s) = Prologue(InSeqOrder(Legacy))
  BY DEF SealInv
<1> HIDE DEF A, s, u, n, i
<1>6. /\ Prologue(u) \in 0..n
      /\ \A k \in 1..Prologue(u) : ~u[k].entry.canonical
  BY <1>2, PrologueIs
<1>7. i <= Prologue(u)
  <2>1. ~u[i].entry.canonical
    BY <1>1, <1>2, <1>3, AlteredRow
  <2>2. ~(i > Prologue(u))
    BY <1>2, <1>3, <2>1 DEF BadEntriesLead
  <2> QED  BY <1>2, <1>3, <1>6, <2>2
<1>8. Prologue(s) = i - 1
  <2>1. i - 1 \in 0..n
    BY <1>2, <1>3
  <2>2. ASSUME NEW k \in 1..(i - 1) PROVE ~s[k].entry.canonical
    <3>1. k \in 1..n /\ k # i /\ k \in 1..Prologue(u)
      BY <1>2, <1>3, <1>6, <1>7
    <3>2. u[k] = s[k]
      BY <1>2, <1>4, <3>1
    <3> QED  BY <1>6, <3>1, <3>2
  <2>3. (i - 1) + 1 = i /\ s[i].entry.canonical
    BY <1>2, <1>3
  <2> QED  BY <1>2, <2>1, <2>2, <2>3, PrologueUnique
<1>9. i \in Nat /\ i > 0 /\ Prologue(u) # i - 1 /\ Prologue(u) # 0
  BY <1>2, <1>3, <1>6, <1>7
<1> DEFINE E == {k \in DOMAIN u : IsEpoch(u[k])}
           e == CHOOSE k \in E : \A j \in E : k <= j
<1>10. E # {} /\ u[e].entry.epoch.entries = Prologue(u)
  BY <1>9 DEF EpochAgrees
<1>11. e \in E
  <2>1. E \in SUBSET Nat /\ IsFiniteSet(E)
    <3>1. IsFiniteSet(1..n) /\ 1..n \in SUBSET Nat
      BY <1>2, FS_Interval
    <3>2. E \subseteq 1..n
      BY <1>2
    <3> HIDE DEF E
    <3>3. IsFiniteSet(E)
      BY <3>1, <3>2, FS_Subset
    <3> QED  BY <3>1, <3>2, <3>3
  <2> HIDE DEF E
  <2> QED  BY <1>10, <2>1, LeastElement
<1>12. e \in 1..n /\ IsEpoch(u[e])
  BY <1>2, <1>11
<1> HIDE DEF E, e
<1>13. u[e] = s[e] /\ s[e] \in rows
  BY <1>1, <1>2, <1>3, <1>12, AlteredRow
<1>14. s[e].entry = Seal
  BY <1>12, <1>13, SealAssumption DEF SealInv, IsEpoch, Ordinary, PreCanonical
<1>15. s[e].entry.epoch.entries = Prologue(InSeqOrder(Legacy))
  BY <1>14 DEF Seal, EpochEntry
<1> QED  BY <1>5, <1>8, <1>9, <1>10, <1>13, <1>15

(* Of two exchanged rows one is linked forward.                            *)
LEMMA ExchangeIsReported ==
    ASSUME IInv, NEW q \in rows, NEW r \in rows, q.seq < r.seq,
           NEW X, X = (rows \ {q, r}) \union {[q EXCEPT !.seq = r.seq], [r EXCEPT !.seq = q.seq]}
    PROVE  ~Verifies(X)
<1> DEFINE a == [q EXCEPT !.seq = r.seq]
           b == [r EXCEPT !.seq = q.seq]
<1>1. Table(rows) /\ WellLinked(rows)
  BY RowsAreATable DEF IInv, RowsInv
<1>2. q \in Row /\ r \in Row /\ a \in Row /\ b \in Row
  BY <1>1 DEF Table
<1>3. /\ a.seq = r.seq /\ b.seq = q.seq /\ b.prev = r.prev
      /\ q.seq \in Nat /\ r.seq \in Nat /\ r.prev \in Nat
  BY <1>2
<1> HIDE DEF a, b
<1>4. X = (rows \ {q, r}) \union {a, b}
  BY DEF a, b
<1>5. Table(X)
  <2>1. IsFiniteSet(X)
    <3>1. IsFiniteSet(rows \ {q, r})
      BY <1>1, FS_Subset DEF Table
    <3>2. IsFiniteSet((rows \ {q, r}) \union {a})
      BY <3>1, FS_AddElement
    <3>3. IsFiniteSet(((rows \ {q, r}) \union {a}) \union {b})
      BY <3>2, FS_AddElement
    <3>4. X = ((rows \ {q, r}) \union {a}) \union {b}
      BY <1>4
    <3> QED  BY <3>3, <3>4
  <2>2. X \subseteq Row
    BY <1>1, <1>2, <1>4 DEF Table
  <2>3. \A p \in rows \ {q, r} : p.seq # q.seq /\ p.seq # r.seq
    BY <1>1 DEF Table
  <2>4. q.seq # r.seq
    BY <1>3
  <2>5. ASSUME NEW p \in X, NEW v \in X, p.seq = v.seq PROVE p = v
    BY <1>1, <1>3, <1>4, <2>3, <2>4, <2>5 DEF Table
  <2> QED  BY <2>1, <2>2, <2>5 DEF Table
<1>6. SUFFICES ASSUME Linked(InSeqOrder(X)) PROVE FALSE
  BY DEF Verifies
<1>7. b.prev < b.seq
  BY <1>4, <1>5, <1>6, LinkedIsBackward
<1>8. q.seq <= r.prev
  BY <1>1 DEF WellLinked
<1> QED  BY <1>3, <1>7, <1>8

(* Whoever removes an entry that is not the newest, exchanges two, or      *)
(* alters a canonical entry of a log that grew through writeAudit and      *)
(* sealChainEpoch is reported by verifyChain, sealed or not.               *)
THEOREM TamperReported == SealSpec => []TamperIsReported
<1>1. IInv /\ SealInv => TamperIsReported
  <2> SUFFICES ASSUME IInv, SealInv PROVE TamperIsReported
    OBVIOUS
  <2>1. \A r \in rows : ~IsTip(r.seq, rows) => ~Verifies(rows \ {r})
    BY RemovalIsReported
  <2>2. \A r \in rows : r.entry.canonical => ~Verifies((rows \ {r}) \union {Altered(r)})
    BY AlterationIsReported
  <2>3. ASSUME NEW q \in rows, NEW r \in rows, q # r
        PROVE  ~Verifies((rows \ {q, r}) \union {[q EXCEPT !.seq = r.seq], [r EXCEPT !.seq = q.seq]})
    <3> DEFINE X == (rows \ {q, r}) \union {[q EXCEPT !.seq = r.seq], [r EXCEPT !.seq = q.seq]}
               Y == (rows \ {r, q}) \union {[r EXCEPT !.seq = q.seq], [q EXCEPT !.seq = r.seq]}
    <3>1. q.seq < r.seq \/ r.seq < q.seq
      <4>1. Table(rows) /\ q.seq \in Nat /\ r.seq \in Nat
        BY RowsAreATable DEF Table
      <4>2. q.seq # r.seq
        BY <2>3, <4>1 DEF Table
      <4> QED  BY <4>1, <4>2
    <3>2. X = Y
      OBVIOUS
    <3>3. q.seq < r.seq => ~Verifies(X)
      BY ExchangeIsReported
    <3>4. r.seq < q.seq => ~Verifies(Y)
      BY ExchangeIsReported
    <3> HIDE DEF X, Y
    <3>5. ~Verifies(X)
      BY <3>1, <3>2, <3>3, <3>4
    <3> QED  BY <3>5 DEF X
  <2> QED  BY <2>1, <2>2, <2>3 DEF TamperIsReported
<1> QED  BY <1>1, SealInvariance, PTL
=============================================================================
