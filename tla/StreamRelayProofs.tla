-------------------------- MODULE StreamRelayProofs --------------------------
(***************************************************************************)
(* Proofs about StreamRelay, for any set of tiles and cameras, any sizes   *)
(* of the objects, any budget and any cap.  The argument: the three counts *)
(* the relay keeps (slots taken, waiters, bytes) are at every step exactly *)
(* what they stand for, so a limit compared with the count is a limit on   *)
(* the thing counted.                                                      *)
(***************************************************************************)
EXTENDS StreamRelay, SetLemmas, SequenceTheorems

-----------------------------------------------------------------------------
(* Sequences without repetition.                                           *)

LEMMA AppendFresh ==
    ASSUME NEW S, NEW s \in Seq(S), IsInjective(s), NEW x \in S, x \notin Range(s)
    PROVE  /\ Append(s, x) \in Seq(S) /\ IsInjective(Append(s, x))
           /\ Range(Append(s, x)) = Range(s) \union {x}
<1>1. /\ Append(s, x) \in Seq(S) /\ Len(s) \in Nat /\ DOMAIN s = 1..Len(s)
      /\ DOMAIN Append(s, x) = 1..(Len(s) + 1)
      /\ \A i \in 1..Len(s) : Append(s, x)[i] = s[i]
      /\ Append(s, x)[Len(s) + 1] = x
  OBVIOUS
<1>2. \A i \in 1..Len(s) : s[i] \in Range(s)
  BY <1>1 DEF Range
<1>3. \A i \in 1..(Len(s) + 1) : i \in 1..Len(s) \/ i = Len(s) + 1
  BY <1>1
<1> DEFINE a == Append(s, x)
<1>4. IsInjective(a)
  <2> HIDE DEF a
  <2> SUFFICES ASSUME NEW i \in DOMAIN a, NEW j \in DOMAIN a, a[i] = a[j]
               PROVE  i = j
    BY DEF IsInjective
  <2> QED  BY <1>1, <1>2, <1>3 DEF IsInjective, a
<1>5. Range(a) = Range(s) \union {x}
  <2>1. Range(a) \subseteq Range(s) \union {x}
    BY <1>1, <1>2, <1>3 DEF Range
  <2>2. x \in Range(a)
    BY <1>1 DEF Range
  <2>3. Range(s) \subseteq Range(a)
    BY <1>1 DEF Range
  <2> QED  BY <2>1, <2>2, <2>3
<1> QED  BY <1>1, <1>4, <1>5

LEMMA FirstOut ==
    ASSUME NEW S, NEW q \in Seq(S), q # <<>>, IsInjective(q)
    PROVE  /\ Tail(q) \in Seq(S) /\ IsInjective(Tail(q))
           /\ Head(q) \in S /\ Head(q) \in Range(q)
           /\ Range(Tail(q)) = Range(q) \ {Head(q)}
<1>1. /\ Len(q) \in Nat \ {0} /\ DOMAIN q = 1..Len(q)
      /\ Tail(q) \in Seq(S) /\ DOMAIN Tail(q) = 1..(Len(q) - 1)
      /\ \A i \in 1..(Len(q) - 1) : Tail(q)[i] = q[i + 1]
      /\ Head(q) = q[1]
  OBVIOUS
<1>2. Head(q) \in S /\ Head(q) \in Range(q)
  BY <1>1 DEF Range
<1> DEFINE r == Tail(q)
<1> HIDE DEF r
<1>3. IsInjective(r)
  <2> SUFFICES ASSUME NEW i \in DOMAIN r, NEW j \in DOMAIN r, r[i] = r[j]
               PROVE  i = j
    BY DEF IsInjective
  <2>1. i + 1 \in DOMAIN q /\ j + 1 \in DOMAIN q /\ q[i + 1] = q[j + 1]
    BY <1>1 DEF r
  <2>2. i + 1 = j + 1
    BY <2>1 DEF IsInjective
  <2> QED  BY <1>1, <2>2 DEF r
<1>4. Range(r) \subseteq Range(q) \ {Head(q)}
  <2> SUFFICES ASSUME NEW i \in DOMAIN r PROVE r[i] \in Range(q) \ {Head(q)}
    BY DEF Range
  <2>1. i + 1 \in DOMAIN q /\ i + 1 # 1 /\ r[i] = q[i + 1] /\ 1 \in DOMAIN q
    BY <1>1 DEF r
  <2> QED  BY <1>1, <2>1 DEF Range, IsInjective
<1>5. Range(q) \ {Head(q)} \subseteq Range(r)
  <2> SUFFICES ASSUME NEW i \in DOMAIN q, q[i] # Head(q) PROVE q[i] \in Range(r)
    BY DEF Range
  <2>1. i - 1 \in DOMAIN r /\ r[i - 1] = q[i]
    BY <1>1 DEF r
  <2> QED  BY <2>1 DEF Range
<1> QED  BY <1>1, <1>2, <1>3, <1>4, <1>5 DEF r

LEMMA SplitAt ==
    ASSUME NEW S, NEW s \in Seq(S), IsInjective(s), NEW k \in 0..Len(s)
    PROVE  LET a == SubSeq(s, 1, k)
               b == SubSeq(s, k + 1, Len(s))
           IN  /\ a \in Seq(S) /\ b \in Seq(S) /\ IsInjective(b)
               /\ Range(a) \cap Range(b) = {}
               /\ Range(a) \union Range(b) = Range(s)
<1> DEFINE a == SubSeq(s, 1, k)
           b == SubSeq(s, k + 1, Len(s))
<1>1. /\ Len(s) \in Nat /\ DOMAIN s = 1..Len(s) /\ k \in Nat /\ k <= Len(s)
      /\ a \in Seq(S) /\ b \in Seq(S)
      /\ DOMAIN a = 1..k /\ \A i \in 1..k : a[i] = s[i]
      /\ DOMAIN b = 1..(Len(s) - k) /\ \A i \in 1..(Len(s) - k) : b[i] = s[k + i]
  OBVIOUS
<1> HIDE DEF a, b
<1>2. IsInjective(b)
  <2> SUFFICES ASSUME NEW i \in DOMAIN b, NEW j \in DOMAIN b, b[i] = b[j]
               PROVE  i = j
    BY DEF IsInjective
  <2>0. i \in 1..(Len(s) - k) /\ j \in 1..(Len(s) - k)
    BY <1>1
  <2>1. k + i \in DOMAIN s /\ k + j \in DOMAIN s /\ s[k + i] = s[k + j] /\ i \in Nat /\ j \in Nat
    <3>1. k + i \in 1..Len(s) /\ k + j \in 1..Len(s) /\ i \in Nat /\ j \in Nat
      BY <1>1, <2>0
    <3>2. b[i] = s[k + i] /\ b[j] = s[k + j]
      BY <1>1, <2>0
    <3> QED  BY <1>1, <3>1, <3>2
  <2>2. k + i = k + j
    BY <2>1 DEF IsInjective
  <2> QED  BY <1>1, <2>1, <2>2
<1>3. Range(a) \cap Range(b) = {}
  <2> SUFFICES ASSUME NEW i \in DOMAIN a, NEW j \in DOMAIN b, a[i] = b[j]
               PROVE  FALSE
    BY DEF Range
  <2>1. i \in DOMAIN s /\ k + j \in DOMAIN s /\ s[i] = s[k + j] /\ i < k + j
    BY <1>1
  <2> QED  BY <1>1, <2>1 DEF IsInjective
<1>4. Range(a) \union Range(b) \subseteq Range(s)
  <2>1. \A i \in DOMAIN a : i \in DOMAIN s /\ a[i] = s[i]
    BY <1>1
  <2>2. \A i \in DOMAIN b : k + i \in DOMAIN s /\ b[i] = s[k + i]
    BY <1>1
  <2> QED  BY <2>1, <2>2 DEF Range
<1>5. Range(s) \subseteq Range(a) \union Range(b)
  <2> SUFFICES ASSUME NEW i \in DOMAIN s PROVE s[i] \in Range(a) \union Range(b)
    BY DEF Range
  <2>1. CASE i <= k
    <3>1. i \in DOMAIN a /\ a[i] = s[i]
      BY <1>1, <2>1
    <3> QED  BY <3>1 DEF Range
  <2>2. CASE i > k
    <3>1. i - k \in DOMAIN b /\ b[i - k] = s[i]
      BY <1>1, <2>2
    <3> QED  BY <3>1 DEF Range
  <2> QED  BY <1>1, <2>1, <2>2
<1> QED  BY <1>1, <1>2, <1>3, <1>4, <1>5 DEF a, b

LEMMA WithoutEffect ==
    ASSUME NEW S, NEW s \in Seq(S), IsInjective(s), NEW o
    PROVE  /\ Without(s, o) \in Seq(S) /\ IsInjective(Without(s, o))
           /\ Range(Without(s, o)) = Range(s) \ {o}
<1>1. CASE o \notin Range(s)
  BY <1>1 DEF Without
<1>2. CASE o \in Range(s)
  <2> DEFINE k == CHOOSE i \in DOMAIN s : s[i] = o
             a == SubSeq(s, 1, k - 1)
             b == SubSeq(s, k + 1, Len(s))
             w == a \o b
  <2>1. k \in DOMAIN s /\ s[k] = o
    BY <1>2 DEF Range
  <2> HIDE DEF k
  <2>2. /\ Len(s) \in Nat /\ DOMAIN s = 1..Len(s) /\ k \in 1..Len(s)
        /\ a \in Seq(S) /\ b \in Seq(S) /\ Len(a) = k - 1 /\ Len(b) = Len(s) - k
        /\ \A i \in 1..(k - 1) : a[i] = s[i]
        /\ \A i \in 1..(Len(s) - k) : b[i] = s[k + i]
    BY <2>1
  <2> HIDE DEF a, b
  <2>3. /\ w \in Seq(S) /\ DOMAIN w = 1..(Len(s) - 1)
        /\ \A i \in 1..(Len(s) - 1) : w[i] = IF i < k THEN a[i] ELSE b[i - (k - 1)]
    <3>1. w \in Seq(S) /\ Len(w) = Len(a) + Len(b)
      BY <2>2, ConcatProperties
    <3>2. Len(a) + Len(b) = Len(s) - 1 /\ k - 1 \in Nat /\ Len(s) - k \in Nat
      BY <2>2
    <3>3. Len(w) = Len(s) - 1
      BY <3>1, <3>2
    <3>4. \A i \in 1..(Len(a) + Len(b)) : w[i] = IF i <= Len(a) THEN a[i] ELSE b[i - Len(a)]
      BY <2>2, ConcatProperties
    <3>5. \A i \in 1..(Len(s) - 1) : (i <= k - 1) <=> i < k
      BY <2>2
    <3> HIDE DEF w
    <3>6. DOMAIN w = 1..(Len(s) - 1)
      BY <3>1, <3>3
    <3>7. \A i \in 1..(Len(s) - 1) : w[i] = IF i <= k - 1 THEN a[i] ELSE b[i - (k - 1)]
      BY <2>2, <3>2, <3>4 DEF w
    <3>8. ASSUME NEW i \in 1..(Len(s) - 1) PROVE w[i] = IF i < k THEN a[i] ELSE b[i - (k - 1)]
      BY <3>5, <3>7
    <3> QED  BY <3>1, <3>6, <3>8
  <2> HIDE DEF w
  <2>4. \A i \in DOMAIN w : w[i] = IF i < k THEN s[i] ELSE s[i + 1]
    <3> SUFFICES ASSUME NEW i \in 1..(Len(s) - 1) PROVE w[i] = IF i < k THEN s[i] ELSE s[i + 1]
      BY <2>3
    <3>1. CASE i < k
      <4>1. i \in 1..(k - 1)
        BY <2>2, <3>1
      <4> QED  BY <2>2, <2>3, <3>1, <4>1
    <3>2. CASE i >= k
      <4>1. i - (k - 1) \in 1..(Len(s) - k) /\ k + (i - (k - 1)) = i + 1
        BY <2>2, <3>2
      <4>2. ~ (i < k)
        BY <2>2, <3>2
      <4> QED  BY <2>2, <2>3, <4>1, <4>2
    <3> QED  BY <2>2, <3>1, <3>2
  <2>5. Without(s, o) = w
    BY <1>2 DEF Without, w, a, b, k
  <2>6. IsInjective(w)
    <3> SUFFICES ASSUME NEW i \in DOMAIN w, NEW j \in DOMAIN w, w[i] = w[j]
                 PROVE  i = j
      BY DEF IsInjective
    <3> DEFINE m(n) == IF n < k THEN n ELSE n + 1
    <3>1. m(i) \in DOMAIN s /\ m(j) \in DOMAIN s /\ s[m(i)] = s[m(j)]
      BY <2>2, <2>3, <2>4
    <3>2. m(i) = m(j)
      BY <3>1 DEF IsInjective
    <3> QED  BY <2>2, <2>3, <3>2
  <2>7. Range(w) \subseteq Range(s) \ {o}
    <3> SUFFICES ASSUME NEW i \in DOMAIN w PROVE w[i] \in Range(s) /\ w[i] # o
      BY DEF Range
    <3>1. CASE i < k
      <4>1. i \in DOMAIN s /\ w[i] = s[i] /\ i # k
        BY <2>2, <2>3, <2>4, <3>1
      <4> QED  BY <2>1, <4>1 DEF Range, IsInjective
    <3>2. CASE ~(i < k)
      <4>1. i + 1 \in DOMAIN s /\ w[i] = s[i + 1] /\ i + 1 # k
        BY <2>2, <2>3, <2>4, <3>2
      <4> QED  BY <2>1, <4>1 DEF Range, IsInjective
    <3> QED  BY <3>1, <3>2
  <2>8. Range(s) \ {o} \subseteq Range(w)
    <3> SUFFICES ASSUME NEW i \in DOMAIN s, s[i] # o PROVE s[i] \in Range(w)
      BY DEF Range
    <3>1. i # k
      BY <2>1
    <3>2. CASE i < k
      <4>1. i \in DOMAIN w /\ w[i] = s[i]
        BY <2>2, <2>3, <2>4, <3>2
      <4> QED  BY <4>1 DEF Range
    <3>3. CASE i > k
      <4>1. i - 1 \in DOMAIN w /\ w[i - 1] = s[i]
        BY <2>2, <2>3, <2>4, <3>3
      <4> QED  BY <4>1 DEF Range
    <3> QED  BY <2>2, <3>1, <3>2, <3>3
  <2> QED  BY <2>3, <2>5, <2>6, <2>7, <2>8
<1> QED  BY <1>1, <1>2

-----------------------------------------------------------------------------
(* Bytes.                                                                  *)

LEMMA Objects ==
    /\ IsFiniteSet(Object)
    /\ \A O \in SUBSET Object : IsFiniteSet(O) /\ \A o \in O : Size[o] \in Nat \ {0}
<1>1. IsFiniteSet(0..Segments)
  BY RelayAssumption, FS_Interval
<1>2. IsFiniteSet(Object)
  BY <1>1, RelayAssumption, FS_Product DEF Object
<1> QED  BY <1>2, RelayAssumption, FS_Subset

LEMMA BytesType ==
    ASSUME NEW s \in Seq(Object)
    PROVE  Range(s) \subseteq Object /\ Bytes(s) \in Int
<1>1. Range(s) \subseteq Object
  BY DEF Range
<1>2. IsFiniteSet(Range(s)) /\ \A o \in Range(s) : Size[o] \in Int
  BY <1>1, Objects
<1> QED  BY <1>1, <1>2, SumType DEF Bytes

LEMMA BytesAppend ==
    ASSUME NEW s \in Seq(Object), IsInjective(s), NEW o \in Object, o \notin Range(s)
    PROVE  Bytes(Append(s, o)) = Bytes(s) + Size[o]
<1>1. Range(s) \union {o} \subseteq Object
  BY BytesType
<1>2. IsFiniteSet(Range(s)) /\ \A x \in Range(s) \union {o} : Size[x] \in Int
  BY <1>1, BytesType, Objects
<1>3. SumFunctionOnSet(Size, Range(s) \union {o}) = SumFunctionOnSet(Size, Range(s)) + Size[o]
  BY <1>2, SumAdd
<1>4. Range(Append(s, o)) = Range(s) \union {o}
  BY AppendFresh
<1> QED  BY <1>3, <1>4 DEF Bytes

LEMMA BytesWithout ==
    ASSUME NEW s \in Seq(Object), IsInjective(s), NEW o \in Range(s)
    PROVE  Bytes(Without(s, o)) = Bytes(s) - Size[o]
<1>1. Range(s) \subseteq Object /\ IsFiniteSet(Range(s)) /\ \A x \in Range(s) : Size[x] \in Int
  BY BytesType, Objects
<1>2. SumFunctionOnSet(Size, Range(s)) = Size[o] + SumFunctionOnSet(Size, Range(s) \ {o})
  BY <1>1, SumRemove
<1>3. Range(Without(s, o)) = Range(s) \ {o}
  BY WithoutEffect
<1>4. Bytes(Without(s, o)) \in Int /\ Bytes(s) \in Int /\ Size[o] \in Int
  BY <1>1, BytesType, WithoutEffect
<1> QED  BY <1>2, <1>3, <1>4 DEF Bytes

(* The eviction loop ends within the budget, and what it leaves is counted *)
(* exactly.                                                                *)
LEMMA EvictedEffect ==
    ASSUME NEW s \in Seq(Object), IsInjective(s), NEW bytes, bytes = Bytes(s),
           NEW e, e = Evicted(s, bytes)
    PROVE  /\ e.cache \in Seq(Object) /\ IsInjective(e.cache)
           /\ e.bytes = Bytes(e.cache) /\ e.bytes <= CacheBytes
<1> DEFINE fits(k) == k = Len(s) \/ bytes - Bytes(SubSeq(s, 1, k)) <= CacheBytes
           K == {k \in 0..Len(s) : fits(k)}
           k == CHOOSE k \in 0..Len(s) : fits(k) /\ \A j \in 0..(k - 1) : ~fits(j)
           a == SubSeq(s, 1, k)
           b == SubSeq(s, k + 1, Len(s))
<1>1. Len(s) \in Nat
  OBVIOUS
<1> HIDE DEF fits
<1>2. \E i \in 0..Len(s) : fits(i) /\ \A j \in 0..(i - 1) : ~fits(j)
  <2>1. Len(s) \in K /\ K \in SUBSET Nat
    BY <1>1 DEF fits
  <2>2. IsFiniteSet(K)
    <3>1. IsFiniteSet(0..Len(s)) /\ K \subseteq 0..Len(s)
      BY <1>1, FS_Interval
    <3> QED  BY <3>1, FS_Subset
  <2>3. \A i \in K : i \in 0..Len(s) /\ fits(i)
    OBVIOUS
  <2>4. \A i \in 0..Len(s) : fits(i) => i \in K
    OBVIOUS
  <2> HIDE DEF K
  <2>5. PICK i \in K : \A j \in K : i <= j
    BY <2>1, <2>2, LeastElement
  <2>6. ASSUME NEW j \in 0..(i - 1) PROVE ~fits(j)
    <3>1. i \in 0..Len(s)
      BY <2>3
    <3>2. j \in 0..Len(s) /\ ~(i <= j)
      BY <1>1, <3>1
    <3> QED  BY <2>4, <2>5, <3>2
  <2> QED  BY <2>3, <2>6
<1>3. k \in 0..Len(s) /\ fits(k)
  BY <1>2
<1>4. e = [cache |-> b, bytes |-> bytes - Bytes(a)]
  BY DEF Evicted, fits
<1> HIDE DEF k
<1>5. /\ a \in Seq(Object) /\ b \in Seq(Object) /\ IsInjective(b)
      /\ Range(a) \cap Range(b) = {} /\ Range(a) \union Range(b) = Range(s)
  BY <1>3, SplitAt
<1>6. Bytes(s) = Bytes(a) + Bytes(b)
  <2>1. /\ Range(a) \subseteq Object /\ Range(b) \subseteq Object
        /\ IsFiniteSet(Range(a)) /\ IsFiniteSet(Range(b))
        /\ \A o \in Range(a) \union Range(b) : Size[o] \in Int
    BY <1>5, BytesType, Objects
  <2> HIDE DEF a, b
  <2> QED  BY <1>5, <2>1, SumUnion DEF Bytes
<1>7. Bytes(a) \in Int /\ Bytes(b) \in Int /\ CacheBytes \in Nat
  BY <1>5, BytesType, RelayAssumption
<1>8. bytes - Bytes(a) = Bytes(b)
  BY <1>6, <1>7
<1>9. Bytes(b) <= CacheBytes
  <2>1. CASE k = Len(s)
    <3>1. Len(b) = 0
      BY <1>1, <2>1
    <3> HIDE DEF b
    <3>2. DOMAIN b = {}
      BY <1>5, <3>1
    <3>3. Range(b) = {}
      BY <3>2 DEF Range
    <3>4. Bytes(b) = 0
      BY <3>3, SumEmpty DEF Bytes
    <3> QED  BY <1>7, <3>4
  <2>2. CASE k # Len(s)
    BY <1>3, <1>8, <2>2 DEF fits
  <2> QED  BY <2>1, <2>2
<1> QED  BY <1>4, <1>5, <1>8, <1>9

CacheOK == cache \in Seq(Object) /\ IsInjective(cache) /\ expired \subseteq Cached /\ CacheIsWithinBudget

LEMMA StoreKeeps ==
    ASSUME CacheOK, NEW o \in Object, Store(o)
    PROVE  CacheOK'
<1> DEFINE w == Written(o)
<1>1. cachedBytes = Bytes(cache) /\ cachedBytes <= CacheBytes /\ cache \in Seq(Object) /\ IsInjective(cache)
  BY DEF CacheOK, CacheIsWithinBudget
<1>2. /\ w.cache \in Seq(Object) /\ IsInjective(w.cache)
      /\ w.bytes = Bytes(w.cache) /\ w.bytes <= CacheBytes
  <2>1. CASE Size[o] > CacheBytes
    BY <1>1, <2>1 DEF Written
  <2>2. CASE ~(Size[o] > CacheBytes) /\ o \in Cached
    BY <1>1, <2>2, EvictedEffect DEF Written
  <2>3. CASE ~(Size[o] > CacheBytes) /\ o \notin Cached
    <3>1. o \notin Range(cache)
      BY <2>3 DEF Cached
    <3>2. Append(cache, o) \in Seq(Object) /\ IsInjective(Append(cache, o))
      BY <1>1, <3>1, AppendFresh
    <3>3. cachedBytes + Size[o] = Bytes(Append(cache, o))
      BY <1>1, <3>1, BytesAppend
    <3> QED  BY <2>3, <3>2, <3>3, EvictedEffect DEF Written
  <2> QED  BY <2>1, <2>2, <2>3
<1>3. cache' = w.cache /\ cachedBytes' = w.bytes /\ expired' \subseteq Range(w.cache)
  BY DEF Store
<1> HIDE DEF w
<1> QED  BY <1>2, <1>3 DEF CacheOK, CacheIsWithinBudget, Cached, Bytes

-----------------------------------------------------------------------------
(* Slots.                                                                  *)

SlotsOK ==
    /\ prefetching \subseteq {o \in Object : ~IsPlaylist(o)}
    /\ inFlight \in Int
    /\ queue \in Seq(Tile)
    /\ pc \in [Tile -> {"idle", "queued", "fetching"}]
    /\ SlotsAreExact

LEMMA Counts ==
    ASSUME SlotsOK
    PROVE  /\ IsFiniteSet(Fetching) /\ Cardinality(Fetching) \in Nat
           /\ IsFiniteSet(prefetching) /\ Cardinality(prefetching) \in Nat
<1>1. IsFiniteSet(Fetching)
  BY RelayAssumption, FS_Subset DEF Fetching
<1>2. IsFiniteSet(prefetching)
  BY Objects DEF SlotsOK
<1> QED  BY <1>1, <1>2, FS_CardinalityType

(* Read-ahead takes no more slots than are free. *)
LEMMA AheadEffect ==
    ASSUME NEW o \in Object, NEW n \in Int, n <= Concurrency, NEW q, NEW C, NEW ord,
           NEW A, A = Ahead(o, n, q, C, ord)
    PROVE  /\ A \subseteq {s \in Object : ~IsPlaylist(s)}
           /\ A \cap prefetching = {}
           /\ IsFiniteSet(A) /\ Cardinality(A) \in Nat /\ Cardinality(A) <= Concurrency - n
           /\ q # <<>> => A = {}
<1> DEFINE next == {s \in {o[1]} \X ((o[2] + 1)..(o[2] + ReadAhead)) :
                    s[2] <= Segments /\ s \notin C /\ s \notin prefetching}
           key == [s \in next |-> s[2]]
           m == Concurrency - n
<1>1. o[1] \in Camera /\ o[2] \in 0..Segments /\ Segments \in Nat /\ ReadAhead \in Nat /\ m \in Nat
  BY RelayAssumption DEF Object
<1>2. CASE IsPlaylist(o) \/ q # <<>> \/ ord # o[1]
  <2>1. A = {}
    BY <1>2 DEF Ahead
  <2> QED  BY <1>1, <2>1, FS_EmptySet
<1>3. CASE ~(IsPlaylist(o) \/ q # <<>> \/ ord # o[1])
  <2>1. A = {s \in next : Cardinality({r \in next : r[2] < s[2]}) < m}
    BY <1>3 DEF Ahead
  <2>2. \A s \in next : s \in Object /\ ~IsPlaylist(s) /\ s \notin prefetching /\ s[2] \in Int /\ s = <<o[1], s[2]>>
    BY <1>1 DEF Object, IsPlaylist
  <2>3. IsFiniteSet(next)
    <3>1. next \subseteq Object
      BY <2>2
    <3> QED  BY <3>1, Objects
  <2> HIDE DEF next
  <2>4. (\A s \in next : key[s] = s[2] /\ key[s] \in Int) /\ \A r, s \in next : key[r] = key[s] => r = s
    BY <2>2
  <2>5. ASSUME NEW s \in next PROVE RankBy(next, key, s) = Cardinality({r \in next : r[2] < s[2]})
    <3>1. {r \in next : key[r] < key[s]} = {r \in next : r[2] < s[2]}
      BY <2>4
    <3> QED  BY <3>1 DEF RankBy
  <2> HIDE DEF key
  <2>6. /\ \A s \in next : RankBy(next, key, s) \in 0..(Cardinality(next) - 1)
        /\ \A r, s \in next : key[r] < key[s] => RankBy(next, key, r) < RankBy(next, key, s)
    BY <2>3, <2>4, RanksBy
  <2>7. Cardinality(next) \in Nat
    BY <2>3, FS_CardinalityType
  <2>8. A \subseteq next /\ \A s \in A : RankBy(next, key, s) < m
    BY <2>1, <2>5
  <2> DEFINE f == [s \in A |-> RankBy(next, key, s)]
  <2>9. f \in Injection(A, 0..(m - 1))
    <3>1. ASSUME NEW s \in A PROVE f[s] \in 0..(m - 1)
      BY <1>1, <2>6, <2>7, <2>8
    <3>2. ASSUME NEW r \in A, NEW s \in A, f[r] = f[s] PROVE r = s
      <4>1. key[r] \in Int /\ key[s] \in Int /\ RankBy(next, key, r) \in Int /\ RankBy(next, key, s) \in Int
        BY <2>4, <2>6, <2>7, <2>8
      <4>2. ~(key[r] < key[s]) /\ ~(key[s] < key[r])
        BY <2>6, <2>8, <3>2, <4>1
      <4> QED  BY <2>4, <2>8, <4>1, <4>2
    <3>3. f \in [A -> 0..(m - 1)]
      BY <3>1
    <3> HIDE DEF f
    <3> QED  BY <3>2, <3>3 DEF Injection, IsInjective
  <2>10. IsFiniteSet(0..(m - 1)) /\ Cardinality(0..(m - 1)) = m
    <3>1. 0 \in Int /\ m - 1 \in Int
      BY <1>1
    <3>2. IsFiniteSet(0..(m - 1)) /\ Cardinality(0..(m - 1)) = IF 0 > m - 1 THEN 0 ELSE (m - 1) - 0 + 1
      BY <3>1, FS_Interval
    <3> HIDE DEF m
    <3> QED  BY <1>1, <3>2
  <2> HIDE DEF f, m
  <2>11. IsFiniteSet(A) /\ Cardinality(A) <= m
    BY <2>9, <2>10, FS_Injection
  <2>12. Cardinality(A) \in Nat
    BY <2>11, FS_CardinalityType
  <2> QED  BY <1>3, <2>2, <2>8, <2>11, <2>12 DEF m
<1> QED  BY <1>2, <1>3

(* What release() does: the fetch that ends gives its slot up or on.       *)
LEMMA ReleaseEffect ==
    ASSUME SlotsOK, NEW t, t \in Fetching \/ t = None, Grant(t), queue' = Released.q
    PROVE  /\ pc' \in [Tile -> {"idle", "queued", "fetching"}]
           /\ queue' \in Seq(Tile) /\ IsInjective(queue')
           /\ Range(queue') = {u \in Tile : pc'[u] = "queued"}
           /\ Released.n \in Int /\ Released.n <= Concurrency
           /\ queue' # <<>> => Released.n = Concurrency
           /\ Cardinality(Fetching') = Cardinality(Fetching) - (IF t = None THEN 0 ELSE 1)
                                         + (Released.n - (inFlight - 1))
<1>1. /\ IsFiniteSet(Fetching) /\ Cardinality(Fetching) \in Nat
      /\ inFlight \in Int /\ inFlight <= Concurrency /\ Concurrency \in Nat
      /\ queue \in Seq(Tile) /\ IsInjective(queue)
      /\ \A u \in Tile : u \in Range(queue) <=> pc[u] = "queued"
      /\ queue # <<>> => inFlight = Concurrency
      /\ None \notin Tile /\ Fetching \subseteq Tile
      /\ pc \in [Tile -> {"idle", "queued", "fetching"}]
  BY Counts, RelayAssumption DEF SlotsOK, SlotsAreExact, Fetching
<1>2. pc' = [u \in Tile |-> IF u \in Released.granted THEN "fetching"
                           ELSE IF u = t THEN "idle" ELSE pc[u]]
  BY DEF Grant
<1> DEFINE rest == Fetching \ {t}
<1>3. IsFiniteSet(rest) /\ Cardinality(rest) = Cardinality(Fetching) - (IF t = None THEN 0 ELSE 1)
  <2>1. t \in Fetching <=> t # None
    BY <1>1
  <2> QED  BY <1>1, <2>1, FS_RemoveElement
<1>4. CASE queue = <<>>
  <2>1. Released.n = inFlight - 1 /\ Released.granted = {} /\ queue' = <<>>
    BY <1>4 DEF Released
  <2>2. Fetching' = rest
    BY <1>1, <1>2, <2>1 DEF Fetching
  <2>3. queue' = queue
    BY <1>4, <2>1
  <2>4. Range(queue') = Range(queue)
    BY <2>3
  <2>5. pc' \in [Tile -> {"idle", "queued", "fetching"}]
    BY <1>1, <1>2
  <2>6. Range(queue) = {}
    <3>1. DOMAIN queue = {}
      BY <1>4
    <3> QED  BY <3>1 DEF Range
  <2>7. \A u \in Tile : pc'[u] # "queued"
    BY <1>1, <1>2, <2>6
  <2>8. Range(queue') = {u \in Tile : pc'[u] = "queued"}
    BY <2>4, <2>6, <2>7
  <2>9. Cardinality(Fetching') = Cardinality(rest) /\ (inFlight - 1) - (inFlight - 1) = 0
    BY <1>1, <2>2
  <2>10. Cardinality(rest) \in Nat
    BY <1>3, FS_CardinalityType
  <2>11. Cardinality(Fetching') = Cardinality(rest) + (Released.n - (inFlight - 1))
    BY <2>1, <2>9, <2>10
  <2>12. inFlight - 1 \in Int /\ inFlight - 1 <= Concurrency
    BY <1>1
  <2> HIDE DEF rest
  <2> QED  BY <1>1, <1>3, <2>1, <2>3, <2>5, <2>8, <2>11, <2>12
<1>5. CASE queue # <<>>
  <2> DEFINE h == Head(queue)
  <2>1. /\ Tail(queue) \in Seq(Tile) /\ IsInjective(Tail(queue))
        /\ h \in Tile /\ h \in Range(queue)
        /\ Range(Tail(queue)) = Range(queue) \ {h}
    BY <1>1, <1>5, FirstOut
  <2>2. Released.n = inFlight /\ Released.granted = {h} /\ queue' = Tail(queue)
    BY <1>5 DEF Released
  <2> HIDE DEF h
  <2>3. pc[h] = "queued" /\ h # t
    BY <1>1, <2>1 DEF Fetching
  <2>4. pc' = [u \in Tile |-> IF u = h THEN "fetching" ELSE IF u = t THEN "idle" ELSE pc[u]]
    BY <1>2, <2>2
  <2>5. Fetching' = rest \union {h} /\ h \notin rest
    BY <1>1, <2>1, <2>3, <2>4 DEF Fetching
  <2>6. Cardinality(Fetching') = Cardinality(rest) + 1
    <3>1. Cardinality(rest \union {h}) = Cardinality(rest) + 1
      BY <1>3, <2>5, FS_AddElement
    <3> QED  BY <2>5, <3>1
  <2>7. pc' \in [Tile -> {"idle", "queued", "fetching"}]
    BY <1>1, <2>4
  <2>8. Range(queue) \subseteq Tile
    BY <1>1 DEF Range
  <2>9. \A u \in Tile : pc'[u] = "queued" <=> u \in Range(queue) /\ u # h
    <3> SUFFICES ASSUME NEW u \in Tile PROVE pc'[u] = "queued" <=> u \in Range(queue) /\ u # h
      OBVIOUS
    <3>1. t = u => pc[u] = "fetching"
      BY <1>1 DEF Fetching
    <3> QED  BY <1>1, <2>4, <3>1
  <2>10. Range(queue') = {u \in Tile : pc'[u] = "queued"}
    BY <2>1, <2>2, <2>8, <2>9
  <2>11. Cardinality(rest) \in Nat
    BY <1>3, FS_CardinalityType
  <2>12. inFlight - (inFlight - 1) = 1
    BY <1>1
  <2>13. Cardinality(Fetching') = Cardinality(rest) + (Released.n - (inFlight - 1))
    BY <2>2, <2>6, <2>12
  <2> HIDE DEF rest
  <2> QED  BY <1>1, <1>3, <1>5, <2>1, <2>2, <2>7, <2>10, <2>13
<1> QED  BY <1>4, <1>5

-----------------------------------------------------------------------------
(* Steps.                                                                  *)

RestOK ==
    /\ order \in Camera \union {None}
    /\ req \in [Tile -> Object]
    /\ gone \subseteq Tile
    /\ asks \in 0..MaxAsks

LEMMA Parts == RelayIsWithinLimits <=> CacheOK /\ SlotsOK /\ RestOK
<1>1. CacheOK => cachedBytes \in Int
  <2> SUFFICES ASSUME CacheOK PROVE cachedBytes \in Int
    OBVIOUS
  <2>1. cache \in Seq(Object) /\ cachedBytes = Bytes(cache)
    BY DEF CacheOK, CacheIsWithinBudget
  <2> QED  BY <2>1, BytesType
<1> QED  BY <1>1 DEF RelayIsWithinLimits, TypeOK, CacheOK, SlotsOK, RestOK

LEMMA InitLimits == Init => RelayIsWithinLimits
<1> SUFFICES ASSUME Init PROVE RelayIsWithinLimits
  OBVIOUS
<1>1. CacheOK
  <2>1. cache = <<>> /\ expired = {} /\ cachedBytes = 0
    BY DEF Init
  <2>2. DOMAIN cache = {} /\ cache \in Seq(Object)
    BY <2>1
  <2>3. IsInjective(cache) /\ Range(cache) = {}
    BY <2>2 DEF IsInjective, Range
  <2>4. Bytes(cache) = 0
    BY <2>3, SumEmpty DEF Bytes
  <2> QED  BY <2>1, <2>2, <2>3, <2>4, RelayAssumption DEF CacheOK, CacheIsWithinBudget, Cached
<1>2. SlotsOK
  <2>1. /\ queue = <<>> /\ prefetching = {} /\ inFlight = 0 /\ pc = [t \in Tile |-> "idle"]
    BY DEF Init
  <2>2. DOMAIN queue = {} /\ queue \in Seq(Tile)
    BY <2>1
  <2>3. IsInjective(queue) /\ Range(queue) = {}
    BY <2>2 DEF IsInjective, Range
  <2>4. Fetching = {} /\ {t \in Tile : pc[t] = "queued"} = {}
    BY <2>1 DEF Fetching
  <2>5. Cardinality(Fetching) = 0 /\ Cardinality(prefetching) = 0
    BY <2>1, <2>4, FS_EmptySet
  <2>6. 0 <= Concurrency
    BY RelayAssumption
  <2> QED  BY <2>1, <2>2, <2>3, <2>4, <2>5, <2>6 DEF SlotsOK, SlotsAreExact
<1>3. RestOK
  BY RelayAssumption DEF Init, RestOK, IsPlaylist
<1> QED  BY <1>1, <1>2, <1>3, Parts

(* Read-ahead after a fetch or a hit keeps the count of the slots exact.   *)
LEMMA AheadCounts ==
    ASSUME SlotsOK, NEW A, A \subseteq {s \in Object : ~IsPlaylist(s)}, A \cap prefetching = {},
           IsFiniteSet(A), prefetching' = prefetching \union A
    PROVE  /\ prefetching' \subseteq {o \in Object : ~IsPlaylist(o)}
           /\ Cardinality(prefetching') = Cardinality(prefetching) + Cardinality(A)
<1>1. IsFiniteSet(prefetching)
  BY Counts
<1>2. Cardinality(prefetching \union A)
        = Cardinality(prefetching) + Cardinality(A) - Cardinality(prefetching \cap A)
  BY <1>1, FS_Union
<1>3. Cardinality(prefetching \cap A) = 0
  <2>1. prefetching \cap A = {}
    OBVIOUS
  <2> QED  BY <2>1, FS_EmptySet
<1>4. Cardinality(prefetching) \in Nat /\ Cardinality(A) \in Nat
  BY <1>1, FS_CardinalityType
<1>5. prefetching \subseteq {s \in Object : ~IsPlaylist(s)}
  BY DEF SlotsOK
<1> QED  BY <1>2, <1>3, <1>4, <1>5

LEMMA HitKeeps ==
    ASSUME CacheOK, SlotsOK, RestOK, NEW t \in Tile, NEW o \in Object, Hit(t, o)
    PROVE  CacheOK' /\ SlotsOK' /\ RestOK'
<1>1. CacheOK'
  <2>1. /\ cache \in Seq(Object) /\ IsInjective(cache) /\ expired \subseteq Range(cache)
        /\ cachedBytes = Bytes(cache) /\ cachedBytes <= CacheBytes
    BY DEF CacheOK, CacheIsWithinBudget, Cached
  <2>2. o \in Range(cache) /\ cache' = Append(Without(cache, o), o) /\ UNCHANGED <<expired, cachedBytes>>
    BY DEF Hit, Cached
  <2> DEFINE w == Without(cache, o)
  <2>3. w \in Seq(Object) /\ IsInjective(w) /\ Range(w) = Range(cache) \ {o}
    BY <2>1, WithoutEffect
  <2>4. Bytes(w) = Bytes(cache) - Size[o]
    BY <2>1, <2>2, BytesWithout
  <2> HIDE DEF w
  <2>5. /\ Append(w, o) \in Seq(Object) /\ IsInjective(Append(w, o))
        /\ Range(Append(w, o)) = Range(w) \union {o}
    BY <2>3, AppendFresh
  <2>6. Bytes(Append(w, o)) = Bytes(w) + Size[o]
    BY <2>3, BytesAppend
  <2>7. Bytes(cache) \in Int /\ Size[o] \in Int
    BY <2>1, BytesType, RelayAssumption
  <2>8. Bytes(Append(w, o)) = Bytes(cache)
    BY <2>4, <2>6, <2>7
  <2>9. cache' = Append(w, o) /\ Range(cache') = Range(cache)
    BY <2>2, <2>3, <2>5 DEF w
  <2> QED  BY <2>1, <2>2, <2>5, <2>8, <2>9 DEF CacheOK, CacheIsWithinBudget, Cached, Bytes
<1>2. SlotsOK'
  <2> DEFINE A == Ahead(o, inFlight, queue, Cached, order)
  <2>1. prefetching' = prefetching \union A /\ inFlight' = inFlight + Cardinality(A) /\ UNCHANGED <<queue, pc>>
    BY DEF Hit
  <2> HIDE DEF A
  <2>2. inFlight \in Int /\ inFlight <= Concurrency /\ Concurrency \in Nat
    BY RelayAssumption DEF SlotsOK, SlotsAreExact
  <2>3. /\ A \subseteq {s \in Object : ~IsPlaylist(s)} /\ A \cap prefetching = {}
        /\ IsFiniteSet(A) /\ Cardinality(A) \in Nat /\ Cardinality(A) <= Concurrency - inFlight
        /\ queue # <<>> => A = {}
    BY <2>2, AheadEffect DEF A
  <2>4. /\ prefetching' \subseteq {s \in Object : ~IsPlaylist(s)}
        /\ Cardinality(prefetching') = Cardinality(prefetching) + Cardinality(A)
    BY <2>1, <2>3, AheadCounts
  <2>5. Fetching' = Fetching
    BY <2>1 DEF Fetching
  <2>6. Cardinality(Fetching) \in Nat /\ Cardinality(prefetching) \in Nat
    BY Counts
  <2>7. inFlight = Cardinality(Fetching) + Cardinality(prefetching)
    BY DEF SlotsOK, SlotsAreExact
  <2>8. inFlight' \in Int /\ inFlight' <= Concurrency
    BY <2>1, <2>2, <2>3
  <2>9. inFlight' = Cardinality(Fetching') + Cardinality(prefetching')
    BY <2>1, <2>3, <2>4, <2>5, <2>6, <2>7
  <2>10. queue' # <<>> => inFlight' = Concurrency
    <3> SUFFICES ASSUME queue # <<>> PROVE inFlight' = Concurrency
      BY <2>1
    <3>1. Cardinality(A) = 0 /\ inFlight = Concurrency
      BY <2>3, FS_EmptySet DEF SlotsOK, SlotsAreExact
    <3> QED  BY <2>1, <2>2, <3>1
  <2> QED  BY <2>1, <2>4, <2>8, <2>9, <2>10 DEF SlotsOK, SlotsAreExact
<1>3. RestOK'
  BY RelayAssumption DEF Hit, RestOK
<1> QED  BY <1>1, <1>2, <1>3

LEMMA MissKeeps ==
    ASSUME CacheOK, SlotsOK, RestOK, NEW t \in Tile, NEW o \in Object, Miss(t, o)
    PROVE  CacheOK' /\ SlotsOK' /\ RestOK'
<1>1. CacheOK'
  <2>1. /\ cache \in Seq(Object) /\ IsInjective(cache) /\ expired \subseteq Range(cache)
        /\ cachedBytes = Bytes(cache) /\ cachedBytes <= CacheBytes
    BY DEF CacheOK, CacheIsWithinBudget, Cached
  <2>2. /\ cache' = Without(cache, o) /\ expired' = expired \ {o}
        /\ cachedBytes' = IF o \in Range(cache) THEN cachedBytes - Size[o] ELSE cachedBytes
    BY DEF Miss, Cached
  <2>3. cache' \in Seq(Object) /\ IsInjective(cache') /\ Range(cache') = Range(cache) \ {o}
    BY <2>1, <2>2, WithoutEffect
  <2>4. cachedBytes' = Bytes(cache') /\ cachedBytes' <= CacheBytes
    <3>1. CASE o \in Range(cache)
      <4>1. cachedBytes' = Bytes(cache')
        BY <2>1, <2>2, <3>1, BytesWithout
      <4>2. cachedBytes' = cachedBytes - Size[o] /\ Size[o] \in Nat \ {0}
        BY <2>2, <3>1, RelayAssumption
      <4>3. cachedBytes \in Int /\ CacheBytes \in Nat
        BY <2>1, BytesType, RelayAssumption
      <4> QED  BY <2>1, <4>1, <4>2, <4>3
    <3>2. CASE o \notin Range(cache)
      BY <2>1, <2>2, <3>2 DEF Without
    <3> QED  BY <3>1, <3>2
  <2> QED  BY <2>1, <2>2, <2>3, <2>4 DEF CacheOK, CacheIsWithinBudget, Cached, Bytes
<1>2. SlotsOK'
  <2>1. /\ inFlight \in Int /\ inFlight <= Concurrency /\ Concurrency \in Nat
        /\ inFlight = Cardinality(Fetching) + Cardinality(prefetching)
        /\ queue # <<>> => inFlight = Concurrency
        /\ queue \in Seq(Tile) /\ IsInjective(queue) /\ Range(queue) = {u \in Tile : pc[u] = "queued"}
        /\ pc \in [Tile -> {"idle", "queued", "fetching"}] /\ pc[t] = "idle"
        /\ prefetching \subseteq {s \in Object : ~IsPlaylist(s)}
    BY RelayAssumption DEF SlotsOK, SlotsAreExact, Miss
  <2>2. /\ IsFiniteSet(Fetching) /\ Cardinality(Fetching) \in Nat /\ Cardinality(prefetching) \in Nat
    BY Counts
  <2>3. UNCHANGED prefetching
    BY DEF Miss
  <2>4. CASE inFlight < Concurrency
    <3>1. inFlight' = inFlight + 1 /\ pc' = [pc EXCEPT ![t] = "fetching"] /\ queue' = queue
      BY <2>4 DEF Miss
    <3>2. Fetching' = Fetching \union {t} /\ t \notin Fetching
      BY <2>1, <3>1 DEF Fetching
    <3>3. Cardinality(Fetching') = Cardinality(Fetching) + 1
      <4>1. Cardinality(Fetching \union {t}) = Cardinality(Fetching) + 1
        BY <2>2, <3>2, FS_AddElement
      <4> QED  BY <3>2, <4>1
    <3>4. {u \in Tile : pc'[u] = "queued"} = {u \in Tile : pc[u] = "queued"}
      BY <2>1, <3>1
    <3>5. pc' \in [Tile -> {"idle", "queued", "fetching"}]
      BY <2>1, <3>1
    <3>6. inFlight' = Cardinality(Fetching') + Cardinality(prefetching')
      BY <2>1, <2>2, <2>3, <3>1, <3>3
    <3>7. inFlight' <= Concurrency /\ inFlight' \in Int /\ queue = <<>>
      BY <2>1, <2>4, <3>1
    <3> QED  BY <2>1, <2>3, <3>1, <3>4, <3>5, <3>6, <3>7 DEF SlotsOK, SlotsAreExact
  <2>5. CASE ~(inFlight < Concurrency)
    <3>1. queue' = Append(queue, t) /\ pc' = [pc EXCEPT ![t] = "queued"] /\ inFlight' = inFlight
      BY <2>5 DEF Miss
    <3>2. t \notin Range(queue)
      BY <2>1
    <3>3. queue' \in Seq(Tile) /\ IsInjective(queue') /\ Range(queue') = Range(queue) \union {t}
      BY <2>1, <3>1, <3>2, AppendFresh
    <3>4. {u \in Tile : pc'[u] = "queued"} = {u \in Tile : pc[u] = "queued"} \union {t}
      BY <2>1, <3>1
    <3>5. Fetching' = Fetching
      BY <2>1, <3>1 DEF Fetching
    <3>6. inFlight = Concurrency
      BY <2>1, <2>5
    <3>7. pc' \in [Tile -> {"idle", "queued", "fetching"}]
      BY <2>1, <3>1
    <3> QED  BY <2>1, <2>3, <3>1, <3>3, <3>4, <3>5, <3>6, <3>7 DEF SlotsOK, SlotsAreExact
  <2> QED  BY <2>4, <2>5
<1>3. RestOK'
  BY RelayAssumption DEF Miss, RestOK
<1> QED  BY <1>1, <1>2, <1>3

LEMMA ArriveKeeps ==
    ASSUME CacheOK, SlotsOK, RestOK, NEW t \in Tile, Arrive(t)
    PROVE  CacheOK' /\ SlotsOK' /\ RestOK'
<1> DEFINE o == req[t]
           ord == IF IsPlaylist(o) THEN o[1] ELSE order
           A == Ahead(o, Released.n, Released.q, Range(Written(o).cache), ord)
<1>1. o \in Object /\ o[1] \in Camera
  BY DEF RestOK, Object
<1>2. /\ Store(o) /\ order' = ord /\ prefetching' = prefetching \union A
      /\ inFlight' = Released.n + Cardinality(A) /\ queue' = Released.q /\ Grant(t)
      /\ t \in Fetching /\ UNCHANGED <<req, gone, asks>>
  BY DEF Arrive, Fetching
<1>3. CacheOK'
  BY <1>1, <1>2, StoreKeeps
<1>4. RestOK'
  BY <1>1, <1>2 DEF RestOK
<1>5. /\ pc' \in [Tile -> {"idle", "queued", "fetching"}]
      /\ queue' \in Seq(Tile) /\ IsInjective(queue')
      /\ Range(queue') = {u \in Tile : pc'[u] = "queued"}
      /\ Released.n \in Int /\ Released.n <= Concurrency
      /\ queue' # <<>> => Released.n = Concurrency
      /\ Cardinality(Fetching') = Cardinality(Fetching) - (IF t = None THEN 0 ELSE 1)
                                    + (Released.n - (inFlight - 1))
  BY <1>2, ReleaseEffect
<1>6. /\ A \subseteq {s \in Object : ~IsPlaylist(s)} /\ A \cap prefetching = {}
      /\ IsFiniteSet(A) /\ Cardinality(A) \in Nat /\ Cardinality(A) <= Concurrency - Released.n
      /\ queue' # <<>> => A = {}
  BY <1>1, <1>2, <1>5, AheadEffect
<1> HIDE DEF A
<1>7. /\ prefetching' \subseteq {s \in Object : ~IsPlaylist(s)}
      /\ Cardinality(prefetching') = Cardinality(prefetching) + Cardinality(A)
  BY <1>2, <1>6, AheadCounts
<1>8. Cardinality(Fetching) \in Nat /\ Cardinality(prefetching) \in Nat
  BY Counts
<1>9. inFlight = Cardinality(Fetching) + Cardinality(prefetching) /\ t # None /\ Concurrency \in Nat
  BY RelayAssumption DEF SlotsOK, SlotsAreExact
<1>10. inFlight' = Cardinality(Fetching') + Cardinality(prefetching')
  <2>1. Cardinality(Fetching') = Cardinality(Fetching) - 1 + (Released.n - (inFlight - 1))
    BY <1>5, <1>9
  <2> DEFINE x == Cardinality(Fetching)
             y == Cardinality(prefetching)
             z == Cardinality(A)
             n == Released.n
  <2> HIDE DEF x, y, z, n
  <2>2. x \in Nat /\ y \in Nat /\ z \in Nat /\ n \in Int /\ inFlight = x + y
    BY <1>5, <1>6, <1>8, <1>9 DEF x, y, z, n
  <2>3. n + z = (x - 1 + (n - (inFlight - 1))) + (y + z)
    BY <2>2
  <2> QED  BY <1>2, <1>7, <2>1, <2>3 DEF x, y, z, n
<1>11. inFlight' \in Int /\ inFlight' <= Concurrency
  BY <1>2, <1>5, <1>6, <1>9
<1>12. queue' # <<>> => inFlight' = Concurrency
  <2> SUFFICES ASSUME queue' # <<>> PROVE inFlight' = Concurrency
    OBVIOUS
  <2>1. Cardinality(A) = 0
    BY <1>6, FS_EmptySet
  <2> QED  BY <1>2, <1>5, <1>9, <2>1
<1>13. SlotsOK'
  BY <1>5, <1>7, <1>10, <1>11, <1>12 DEF SlotsOK, SlotsAreExact
<1> QED  BY <1>3, <1>4, <1>13

LEMMA ErrorKeeps ==
    ASSUME CacheOK, SlotsOK, RestOK, NEW t \in Tile, Error(t)
    PROVE  CacheOK' /\ SlotsOK' /\ RestOK'
<1>1. /\ inFlight' = Released.n /\ queue' = Released.q /\ Grant(t) /\ t \in Fetching
      /\ UNCHANGED <<store, order, prefetching, req, gone, asks>>
  BY DEF Error, Fetching
<1>2. CacheOK' /\ RestOK'
  BY <1>1 DEF CacheOK, RestOK, CacheIsWithinBudget, Cached, Bytes, store
<1>3. /\ pc' \in [Tile -> {"idle", "queued", "fetching"}]
      /\ queue' \in Seq(Tile) /\ IsInjective(queue')
      /\ Range(queue') = {u \in Tile : pc'[u] = "queued"}
      /\ Released.n \in Int /\ Released.n <= Concurrency
      /\ queue' # <<>> => Released.n = Concurrency
      /\ Cardinality(Fetching') = Cardinality(Fetching) - (IF t = None THEN 0 ELSE 1)
                                    + (Released.n - (inFlight - 1))
  BY <1>1, ReleaseEffect
<1>4. Cardinality(Fetching) \in Nat /\ Cardinality(prefetching) \in Nat
  BY Counts
<1>5. inFlight = Cardinality(Fetching) + Cardinality(prefetching) /\ t # None
  BY RelayAssumption DEF SlotsOK, SlotsAreExact
<1>6. inFlight' = Cardinality(Fetching') + Cardinality(prefetching')
  <2>1. Cardinality(Fetching') = Cardinality(Fetching) - 1 + (Released.n - (inFlight - 1))
    BY <1>3, <1>5
  <2> DEFINE n == Released.n
  <2> HIDE DEF n
  <2>2. n \in Int
    BY <1>3 DEF n
  <2>3. n = (Cardinality(Fetching) - 1 + (n - (inFlight - 1))) + Cardinality(prefetching)
    BY <1>4, <1>5, <2>2
  <2> QED  BY <1>1, <2>1, <2>3 DEF n
<1> QED  BY <1>1, <1>2, <1>3, <1>6 DEF SlotsOK, SlotsAreExact

LEMMA AheadArrivesKeeps ==
    ASSUME CacheOK, SlotsOK, RestOK, NEW o \in Object, AheadArrives(o)
    PROVE  CacheOK' /\ SlotsOK' /\ RestOK'
<1>1. /\ o \in prefetching /\ prefetching' = prefetching \ {o}
      /\ inFlight' = Released.n /\ queue' = Released.q /\ Grant(None)
      /\ UNCHANGED <<order, req, gone, asks>>
  BY DEF AheadArrives
<1>2. CacheOK'
  <2>1. CASE Store(o)
    BY <2>1, StoreKeeps
  <2>2. CASE UNCHANGED store
    BY <2>2 DEF CacheOK, CacheIsWithinBudget, Cached, Bytes, store
  <2> QED  BY <2>1, <2>2 DEF AheadArrives
<1>3. /\ pc' \in [Tile -> {"idle", "queued", "fetching"}]
      /\ queue' \in Seq(Tile) /\ IsInjective(queue')
      /\ Range(queue') = {u \in Tile : pc'[u] = "queued"}
      /\ Released.n \in Int /\ Released.n <= Concurrency
      /\ queue' # <<>> => Released.n = Concurrency
      /\ Cardinality(Fetching') = Cardinality(Fetching) - (IF None = None THEN 0 ELSE 1)
                                    + (Released.n - (inFlight - 1))
  BY <1>1, ReleaseEffect
<1>4. IsFiniteSet(prefetching) /\ Cardinality(Fetching) \in Nat /\ Cardinality(prefetching) \in Nat
  BY Counts
<1>5. inFlight = Cardinality(Fetching) + Cardinality(prefetching)
  BY DEF SlotsOK, SlotsAreExact
<1>6. Cardinality(prefetching') = Cardinality(prefetching) - 1
  <2>1. Cardinality(prefetching \ {o}) = Cardinality(prefetching) - 1
    BY <1>1, <1>4, FS_RemoveElement
  <2> QED  BY <1>1, <2>1
<1>7. inFlight' = Cardinality(Fetching') + Cardinality(prefetching')
  <2>1. Cardinality(Fetching') = Cardinality(Fetching) - 0 + (Released.n - (inFlight - 1))
    BY <1>3
  <2> DEFINE n == Released.n
  <2> HIDE DEF n
  <2>2. n \in Int
    BY <1>3 DEF n
  <2>3. n = (Cardinality(Fetching) - 0 + (n - (inFlight - 1))) + (Cardinality(prefetching) - 1)
    BY <1>4, <1>5, <2>2
  <2> QED  BY <1>1, <1>6, <2>1, <2>3 DEF n
<1>8. RestOK'
  BY <1>1 DEF RestOK
<1>9. prefetching' \subseteq {s \in Object : ~IsPlaylist(s)}
  BY <1>1 DEF SlotsOK
<1> QED  BY <1>1, <1>2, <1>3, <1>7, <1>8, <1>9 DEF SlotsOK, SlotsAreExact

LEMMA StepLimits == RelayIsWithinLimits /\ [Next]_vars => RelayIsWithinLimits'
<1> SUFFICES ASSUME CacheOK, SlotsOK, RestOK, [Next]_vars
             PROVE  CacheOK' /\ SlotsOK' /\ RestOK'
  <2>1. (CacheOK' /\ SlotsOK' /\ RestOK') => RelayIsWithinLimits'
    <3>1. CacheOK' => cachedBytes' \in Int
      <4> SUFFICES ASSUME CacheOK' PROVE cachedBytes' \in Int
        OBVIOUS
      <4>1. cache' \in Seq(Object) /\ cachedBytes' = Bytes(cache')
        BY DEF CacheOK, CacheIsWithinBudget, Bytes
      <4> QED  BY <4>1, BytesType
    <3> QED  BY <3>1 DEF RelayIsWithinLimits, TypeOK, CacheOK, SlotsOK, RestOK
  <2> QED  BY <2>1, Parts
<1>1. ASSUME NEW t \in Tile, NEW o \in Object, Hit(t, o) PROVE CacheOK' /\ SlotsOK' /\ RestOK'
  BY <1>1, HitKeeps
<1>2. ASSUME NEW t \in Tile, NEW o \in Object, Miss(t, o) PROVE CacheOK' /\ SlotsOK' /\ RestOK'
  BY <1>2, MissKeeps
<1>3. ASSUME NEW t \in Tile, Arrive(t) PROVE CacheOK' /\ SlotsOK' /\ RestOK'
  BY <1>3, ArriveKeeps
<1>4. ASSUME NEW t \in Tile, Error(t) PROVE CacheOK' /\ SlotsOK' /\ RestOK'
  BY <1>4, ErrorKeeps
<1>5. ASSUME NEW t \in Tile, Close(t) PROVE CacheOK' /\ SlotsOK' /\ RestOK'
  BY <1>5 DEF Close, CacheOK, SlotsOK, RestOK, SlotsAreExact, CacheIsWithinBudget, Fetching, Cached,
              Bytes, store, gate
<1>6. ASSUME NEW o \in Object, AheadArrives(o) PROVE CacheOK' /\ SlotsOK' /\ RestOK'
  BY <1>6, AheadArrivesKeeps
<1>7. ASSUME NEW o \in Object, Expire(o) PROVE CacheOK' /\ SlotsOK' /\ RestOK'
  BY <1>7 DEF Expire, CacheOK, SlotsOK, RestOK, SlotsAreExact, CacheIsWithinBudget, Fetching, Cached,
              Bytes, gate
<1>8. CASE UNCHANGED vars
  BY <1>8 DEF vars, CacheOK, SlotsOK, RestOK, SlotsAreExact, CacheIsWithinBudget, Fetching, Cached,
              Bytes, store, gate
<1> QED  BY <1>1, <1>2, <1>3, <1>4, <1>5, <1>6, <1>7, <1>8 DEF Next

(* The relay never takes more slots than its cap nor caches more bytes     *)
(* than its budget, loses or invents no slot, lets nobody wait beside a    *)
(* free slot and counts its bytes exactly: for any number of tiles, any    *)
(* sizes, budget, cap and read-ahead (acquire, release, writeCache,        *)
(* scheduleReadAhead).                                                     *)
THEOREM WithinLimits == Spec => []RelayIsWithinLimits
<1> QED  BY InitLimits, StepLimits, PTL DEF Spec
=============================================================================
