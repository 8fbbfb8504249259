----------------------------- MODULE PlateSearch -----------------------------
(***************************************************************************)
(* The registration grammar (packages/shared/src/plate/grammar.ts): which  *)
(* layout a plate read fits, completely or as a truncated prefix, and      *)
(* which characters are repaired on the way.  A read is the sequence of    *)
(* characters that survive normalise().                                    *)
(*                                                                         *)
(* The fuzzy plate metric and the search plan                              *)
(* (packages/api/src/services/plate-search.ts): the weighted edit distance *)
(* with its edit script, the strings a query generates as candidates, and  *)
(* the ranking.  Costs are in thousandths.                                 *)
(***************************************************************************)
EXTENDS Integers, FiniteSets, SequencesExt

CONSTANTS
    Letter, Digit,      \* the characters a read is made of
    StateCode,          \* STATE_CODES, as pairs of letters
    AlphaToDigit,       \* letter -> the digit it is repaired to
    DigitToAlpha,       \* digit -> the letter it is repaired to
    Measured, Derived   \* the confusable pairs of config/plate-confusions.json

CharAssumption ==
    /\ Letter \intersect Digit = {}
    /\ StateCode \subseteq Letter \X Letter
    /\ AlphaToDigit \in [DOMAIN AlphaToDigit -> Digit] /\ DOMAIN AlphaToDigit \subseteq Letter
    /\ DigitToAlpha \in [DOMAIN DigitToAlpha -> Letter] /\ DOMAIN DigitToAlpha \subseteq Digit

Slot(n, c, l) == [name |-> n, cls |-> c, len |-> l, at |-> 0]
State == Slot("state", "alpha", 2)
Marker(f) == Slot("marker", f, 2)
Literals == [bharat_series |-> {<<"B", "H">>},
             diplomatic |-> {<<"C", "D">>, <<"C", "C">>, <<"U", "N">>}]

Standard(r, s) == <<State, Slot("rto", "digit", r), Slot("series", "alpha", s), Slot("number", "digit", 4)>>
Bharat(s) == <<Slot("year", "digit", 2), Marker("bharat_series"), Slot("number", "digit", 4), Slot("series", "alpha", s)>>
Military == <<Slot("year", "digit", 2), Slot("class", "alpha", 1), Slot("serial", "digit", 6), Slot("check", "alpha", 1)>>
Diplomatic(m, s) == <<Slot("mission", "digit", m), Marker("diplomatic"), Slot("serial", "digit", s)>>
NoSeries(r) == <<State, Slot("rto", "digit", r), Slot("number", "digit", 4)>>

(* LAYOUTS, in the order that breaks ties; each slot knows where it starts.*)
Length(l) == IF l = <<>> THEN 0 ELSE Last(l).at + Last(l).len
Layout(slots) == FoldLeft(LAMBDA l, s : Append(l, [s EXCEPT !.at = Length(l)]), <<>>, slots)
Families ==
    <<Standard(2, 2), Standard(2, 1), Standard(2, 3), Standard(1, 2), Standard(1, 1), Standard(1, 3),
      Bharat(2), Bharat(1), Military,
      Diplomatic(2, 4), Diplomatic(2, 3), Diplomatic(3, 4), Diplomatic(3, 3), NoSeries(2), NoSeries(1)>>

Layouts == [n \in DOMAIN Families |-> Layout(Families[n])]
Longest == Max({Length(Layouts[n]) : n \in DOMAIN Layouts})

MinEvaluable == 4
MaxCorrections == 2

(* Op of the value of v.  (A set binds it: TLC evaluates v once.)          *)
With(v, Op(_)) == CHOOSE y \in {Op(x) : x \in {v}} : TRUE

-----------------------------------------------------------------------------
(* fitLayout.  Slots the read has begun, and what it shows of each. *)
Started(t, l) == {k \in DOMAIN l : l[k].at < Len(t)}
Shown(t, l, k) == SubSeq(t, l[k].at + 1, Min({l[k].at + l[k].len, Len(t)}))

Literal(s) == s.cls \in DOMAIN Literals
Discriminator(s) == s.name = "state" \/ Literal(s)

Class(s) == IF s.cls = "digit" THEN Digit ELSE Letter
Repair(s) == IF s.cls = "digit" THEN AlphaToDigit ELSE DigitToAlpha

(* The characters of slot k that are of the wrong class. *)
Wrong(t, l, k) ==
    IF Literal(l[k]) THEN {}
    ELSE {i \in DOMAIN Shown(t, l, k) : Shown(t, l, k)[i] \notin Class(l[k])}

(* Letters become digits wherever a digit belongs; digits become letters   *)
(* only in a series that already shows a letter.                           *)
Repairable(t, l, k) ==
    /\ \A i \in Wrong(t, l, k) : Shown(t, l, k)[i] \in DOMAIN Repair(l[k])
    /\ l[k].cls = "alpha" /\ Wrong(t, l, k) # {} =>
          l[k].name = "series" /\ Range(Shown(t, l, k)) \intersect Letter # {}

Corrections(t, l) ==
    UNION {{[index |-> l[k].at + i, to |-> Repair(l[k])[Shown(t, l, k)[i]], slot |-> l[k].name] :
              i \in Wrong(t, l, k)} : k \in Started(t, l)}

Corrected(t, l) ==
    LET C == Corrections(t, l)
    IN  [i \in DOMAIN t |->
           IF \E c \in C : c.index = i THEN (CHOOSE c \in C : c.index = i).to ELSE t[i]]

FitsSlot(t, l, k) ==
    LET p == Shown(t, l, k)
    IN  /\ Discriminator(l[k]) => Len(p) = l[k].len
        /\ Literal(l[k]) => p \in Literals[l[k].cls]
        /\ l[k].name = "state" => p \in StateCode
        /\ Repairable(t, l, k)

Fits(t, l) ==
    /\ Len(t) <= Length(l)
    /\ \A k \in Started(t, l) : FitsSlot(t, l, k)
    /\ Cardinality(Corrections(t, l)) <= MaxCorrections
    /\ Len(t) < Length(l) =>
          /\ Len(t) >= l[3].at
          /\ \E k \in Started(t, l) : Discriminator(l[k])

-----------------------------------------------------------------------------
(* best, isAmbiguous: fewest corrections, then fewest missing characters,  *)
(* then the order of the layouts; a tie between different texts is refused.*)
Fitting(t) == {n \in DOMAIN Layouts : Fits(t, Layouts[n])}
Repairs(t, n) == Cardinality(Corrections(t, Layouts[n]))
Missing(t, n) == Length(Layouts[n]) - Len(t)

(* Mutant of Cost: the most complete reading first. *)
CostMissingFirst(t, n) == Missing(t, n) * 100 + Repairs(t, n)

Cost(t, n) == Repairs(t, n) * 100 + Missing(t, n)

Winner(t, fitting) ==
    LET cost == [n \in fitting |-> Cost(t, n)]
    IN  Min({n \in fitting : \A m \in fitting : cost[n] <= cost[m]})

Ambiguous(t, fitting, winner) ==
    \E n \in fitting :
        /\ Cost(t, n) = Cost(t, winner)
        /\ Corrected(t, Layouts[n]) # Corrected(t, Layouts[winner])

(* diagnose: why a read fits nothing - the first of its reasons. *)
Leading(t, from, C, most) ==
    Max({0} \union {n \in 1..most : from + n <= Len(t) /\ \A i \in 1..n : t[from + i] \in C})

Diagnosis(t) ==
    LET rto == Leading(t, 2, Digit, 2)
        series == Leading(t, 2 + rto, Letter, 3)
        number == Leading(t, 2 + rto + series, Digit, 4)
    IN  CASE t = <<>> -> "empty"
          [] t # <<>> /\ Len(t) < MinEvaluable -> "too_short"
          [] Len(t) >= MinEvaluable /\ Range(t) \intersect Letter = {} -> "no_letters"
          [] Len(t) >= MinEvaluable /\ Range(t) \intersect Digit = {} -> "no_digits"
          [] OTHER ->
               IF Len(t) > Longest THEN "too_long"
               ELSE IF ~{t[1], t[2]} \subseteq Letter THEN "no_state_code"
               ELSE IF <<t[1], t[2]>> \notin StateCode THEN "unknown_state_code"
               ELSE IF rto = 0 THEN "missing_rto_digits"
               ELSE IF series = 0 THEN "bad_series"
               ELSE IF number = 0 \/ 2 + rto + series + number < Len(t) THEN "bad_number"
               ELSE "non_plate_shape"

Unread(t, reason) ==
    [corrected |-> t, validity |-> "invalid", corrections |-> {}, layout |-> <<>>, reason |-> reason]

(* validate *)
Read(t, l) ==
    LET whole == Len(t) = Length(l)
    IN  [corrected |-> Corrected(t, l), corrections |-> Corrections(t, l), layout |-> l,
         validity |-> IF whole THEN "valid" ELSE "partial",
         reason |-> IF whole THEN "none" ELSE "truncated"]

Choose(t, fitting, winner) ==
    IF Ambiguous(t, fitting, winner) THEN Unread(t, "ambiguous") ELSE Read(t, Layouts[winner])

Validate(t) ==
    IF Len(t) < MinEvaluable THEN Unread(t, Diagnosis(t))
    ELSE With(Fitting(t), LAMBDA fitting :
            IF fitting = {} THEN Unread(t, Diagnosis(t))
            ELSE With(Winner(t, fitting), LAMBDA winner : Choose(t, fitting, winner)))

(* PlateParts: the piece of the corrected read that each named slot shows. *)
(* A serial number stands in for a number.                                 *)
Part(v, name) ==
    LET k == {k \in DOMAIN v.layout : v.layout[k].name = name}
    IN  IF k = {} THEN <<>> ELSE Shown(v.corrected, v.layout, CHOOSE i \in k : TRUE)
Number(v) == Part(v, "number") \o Part(v, "serial")

-----------------------------------------------------------------------------
(* The metric.                                                             *)
PairAssumption == Measured \union Derived \subseteq (Letter \union Digit) \X (Letter \union Digit)

Substitution == 1000
Indel == 1000
TruncationTail == 350
StateCrossClass == 2500
TailAllowance == 2
MinPrefix == 4

(* positionWeights, in tenths. *)
Weight == [state |-> 16, rto |-> 10, series |-> 9, number |-> 8, unparsed |-> 10]

(* confusionTable: both directions of a pair, the cheaper price first. *)
InTable(P, a, b) == <<a, b>> \in P \/ <<b, a>> \in P
PairCost(a, b) == IF InTable(Measured, a, b) THEN 250 ELSE IF InTable(Derived, a, b) THEN 450 ELSE Substitution

CrossClass(a, b) == (a \in Letter) # (b \in Letter)

(* slotsFor: the parts of the candidate laid end to end in the order state,*)
(* rto, series, number, whatever the order of its layout.                  *)
Named(name, part) == [i \in 1..Len(part) |-> name]
Slots(c) ==
    LET Laid(v) == Named("state", Part(v, "state")) \o Named("rto", Part(v, "rto"))
                     \o Named("series", Part(v, "series")) \o Named("number", Number(v))
        Filled(parts) == SubSeq(parts \o Named("unparsed", c), 1, Len(c))
    IN  With(Validate(c), LAMBDA v : Filled(Laid(v)))

(* queryStateAnchored *)
Anchored(q) == \E i \in 1..Min({2, Len(q)}) : q[i] \in Letter

(* substitutionCost of reading character j of c as the character a. *)
SubstitutionCost(anchored, slots, c, a, j) ==
    IF a = c[j] THEN 0
    ELSE IF j <= 2 /\ CrossClass(a, c[j]) /\ ~anchored THEN StateCrossClass
    ELSE (PairCost(a, c[j]) * Weight[slots[j]]) \div 10

-----------------------------------------------------------------------------
(* innerDistance: row i of the table, from the row above it.  The table of *)
(* a trimmed query and candidate is a corner of the table of the whole.    *)
(* "price" says what reading each character of c as each one of q costs.   *)
Upto(n) == [i \in 1..n |-> i]

NextRow(above, i, price) ==
    LET Best(row, j) == Min({above[j] + price[i][j], above[j + 1] + Indel, row[j] + Indel})
        Extend(s, j) == With(s, LAMBDA row : Append(row, Best(row, j)))
    IN  FoldLeft(Extend, <<i * Indel>>, Upto(Len(above) - 1))

Table(q, c, price) ==
    LET Extend(s, i) == With(s, LAMBDA rows : Append(rows, NextRow(rows[i], i, price)))
    IN  FoldLeft(Extend, <<[j \in 1..(Len(c) + 1) |-> (j - 1) * Indel]>>, Upto(Len(q)))

(* backtrack: one edit back from cell (i, j), the substitution first. *)
Op(kind, cost, index, to) == <<[kind |-> kind, cost |-> cost, index |-> index, to |-> to]>>
StepBack(s, q, rows, price) ==
    LET i == s.i
        j == s.j
        here == rows[i + 1][j + 1]
    IN  CASE i = 0 /\ j = 0 -> s
          [] i > 0 /\ j > 0 /\ here = rows[i][j] + price[i][j] ->
               [i |-> i - 1, j |-> j - 1,
                ops |-> (IF price[i][j] > 0 THEN Op("sub", price[i][j], j, q[i]) ELSE <<>>) \o s.ops]
          [] i > 0 /\ ~(j > 0 /\ here = rows[i][j] + price[i][j]) /\ here = rows[i][j + 1] + Indel ->
               [i |-> i - 1, j |-> j, ops |-> Op("ins", Indel, j, q[i]) \o s.ops]
          [] OTHER -> [i |-> i, j |-> j - 1, ops |-> Op("del", Indel, j, "") \o s.ops]

Backtrack(q, rows, price, m, n) ==
    LET Back(s, k) == With(s, LAMBDA t : StepBack(t, q, rows, price))
    IN  FoldLeft(Back, [i |-> m, j |-> n, ops |-> <<>>], Upto(m + n)).ops

(* weightedDistance: the best of the whole pair and of the pairs with up to*)
(* TailAllowance characters cut from the end of one side, first found.     *)
Trims(q, c) ==
    <<<<0, 0>>>> \o SelectSeq(<<<<0, 1>>, <<0, 2>>, <<1, 0>>, <<2, 0>>>>,
                             LAMBDA t : t[1] <= Max({Len(c) - 1, 0}) /\ t[2] <= Max({Len(q) - 1, 0}))

(* The characters cut off, each at the price of the tail. *)
Cut(k) == [kind |-> "tail", cost |-> TruncationTail, index |-> k, to |-> ""]
Extra(k, ch) == [kind |-> "tail", cost |-> TruncationTail, index |-> k, to |-> ch]

TailOps(q, c, a, b) ==
    [k \in 1..a |-> Cut(Len(c) - a + k)] \o [k \in 1..b |-> Extra(Len(q) - b + k, q[Len(q) - b + k])]

Prices(q, c) ==
    With(Slots(c), LAMBDA slots :
        [i \in DOMAIN q |-> [j \in DOMAIN c |-> SubstitutionCost(Anchored(q), slots, c, q[i], j)]])

Cheapest(q, c, price, rows) ==
    LET trims == Trims(q, c)
        Priced(t) == rows[Len(q) - t[2] + 1][Len(c) - t[1] + 1] + (t[1] + t[2]) * TruncationTail
        k == CHOOSE k \in DOMAIN trims :
               /\ \A n \in DOMAIN trims : Priced(trims[k]) <= Priced(trims[n])
               /\ \A n \in 1..(k - 1) : Priced(trims[k]) < Priced(trims[n])
    IN  With(trims[k], LAMBDA t :
            [distance |-> Priced(t), tailChars |-> t[1] + t[2],
             ops |-> Backtrack(q, rows, price, Len(q) - t[2], Len(c) - t[1]) \o TailOps(q, c, t[1], t[2])])

WeightedDistance(q, c) ==
    IF q = c THEN [distance |-> 0, tailChars |-> 0, ops |-> <<>>]
    ELSE With(Prices(q, c), LAMBDA price :
            With(Table(q, c, price), LAMBDA rows : Cheapest(q, c, price, rows)))

-----------------------------------------------------------------------------
(* planSearch: the reasons not to search, the state codes the query can be *)
(* anchored on, and its own prefixes.                                      *)
Unsearchable == {"no_letters", "no_digits", "empty", "too_short"}
Searchable(q) == Validate(q).reason \notin Unsearchable

StateVariants(s) ==
    {s} \union {ReplaceAt(s, i, a) : i \in 1..2, a \in Letter}
Near(s, t) == \A i \in 1..2 : t[i] # s[i] => InTable(Measured \union Derived, s[i], t[i])
Anchors(s) == {t \in StateVariants(s) : Near(s, t)}

QueryPrefixes(q) ==
    {SubSeq(q, 1, n) : n \in Max({MinPrefix, Len(q) - TailAllowance})..(Len(q) - 1)}

(* candidateClause over the stored plate c: an equality, or a generator and*)
(* the anchor.  "similar" is what the trigram operator says of the pair on *)
(* the connection that runs the query.                                     *)
IsCandidate(q, c, similar) ==
    \/ c = q
    \/ /\ similar \/ IsPrefix(q, c) \/ c \in QueryPrefixes(q)
       /\ LET Anchor(s) == s \in StateCode => SubSeq(c, 1, 2) \in Anchors(s)
          IN  With(Part(Validate(q), "state"), Anchor)
=============================================================================
