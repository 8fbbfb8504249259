------------------------------ MODULE Watchlist ------------------------------
(***************************************************************************)
(* The watchlist: its entries and their CRUD, import and sync              *)
(* (routes/watchlist.ts, watchlist/seed.ts), the lookup of a plate across  *)
(* the connectors (watchlist/index.ts, mock-provider.ts with the           *)
(* ConfusionPlateMatcher of plate-search.ts) and the keyset-paginated list.*)
(* A lookup runs its statements one by one on pooled connections, so       *)
(* writes land between them.                                               *)
(***************************************************************************)
EXTENDS PlateSearch

CONSTANTS
    Systems,       \* the connectors, one per source system
    Ids,           \* uuids, as numbers: only their order matters
    Rows,          \* rows a CSV or a form can hold: [plate, system, key, active]
    Seed,          \* the rows of the shipped CSV, a subset of Rows
    Severity,      \* [Ids -> Nat], the rank of an entry's severity, 0 the most serious
    NoKey,         \* a row without source_ref
    Queries,       \* plates that are looked up
    Limit,         \* the limit of a lookup and of a page
    MaxDistance,   \* max_distance, in thousandths
    MaxWrites      \* bound: writes in one behaviour

WatchlistAssumption ==
    /\ Seed \subseteq Rows /\ Ids \subseteq Nat /\ Limit \in Nat \ {0}
    /\ \A r \in Rows : r.system \in Systems

VARIABLES
    entries,    \* watchlist_entries: id -> row
    writes,     \* writes so far
    lookup,     \* the lookup under way
    stood,      \* history: entries nothing has touched since the lookup began
    around,     \* history: the <<id, plate>> that were active at some time since
    walk,       \* a client walking the list page by page: the cursor, and the ids it was given
    present     \* history: the entries that have been there since the walk began

vars == <<entries, writes, lookup, stood, around, walk, present>>

NoLookup == [pc |-> "idle"]
NoWalk == [cursor |-> 0, listed |-> <<>>, done |-> FALSE]
Active(t) == {i \in DOMAIN t : t[i].active}
Pairs(t) == {<<i, t[i].plate>> : i \in Active(t)}

TypeOK ==
    /\ DOMAIN entries \subseteq Ids /\ Range(entries) \subseteq {[r EXCEPT !.active = a] : r \in Rows, a \in BOOLEAN}
    /\ writes \in 0..MaxWrites
    /\ lookup.pc \in {"idle", "asking", "answered"}
    /\ stood \subseteq DOMAIN entries
    /\ walk.cursor \in Ids \union {0} /\ walk.listed \in Seq(Ids) /\ walk.done \in BOOLEAN
    /\ present \subseteq DOMAIN entries

-----------------------------------------------------------------------------
(* upsertWatchlistEntries: a keyed row overwrites the entry with its       *)
(* (source_system, source_ref), "active" included; the others are inserted.*)
(* Two rows of one key in a batch fail the statement.                      *)
KeyOf(r) == <<r.system, r.key>>
Keyed(b) == {r \in b : r.key # NoKey}
HasKey(t, r) == \E i \in DOMAIN t : r.key # NoKey /\ KeyOf(t[i]) = KeyOf(r)
Upserts(t, b) ==
    LET new == {r \in b : ~HasKey(t, r)}
        Free == Ids \ DOMAIN t
        kept == [i \in DOMAIN t |->
                   IF \E r \in Keyed(b) : KeyOf(r) = KeyOf(t[i])
                   THEN CHOOSE r \in Keyed(b) : KeyOf(r) = KeyOf(t[i]) ELSE t[i]]
    IN  IF \E r, q \in Keyed(b) : r # q /\ KeyOf(r) = KeyOf(q) THEN {}
        ELSE {[i \in DOMAIN t \union DOMAIN f |-> IF i \in DOMAIN t THEN kept[i] ELSE f[i]] :
                 f \in UNION {{g \in [ids -> new] : Range(g) = new} : ids \in kSubset(Cardinality(new), Free)}}

(* What a write does to the history: entries it changed no longer stand.   *)
Write(t) ==
    LET same == {i \in DOMAIN entries \intersect DOMAIN t : entries[i] = t[i]}
    IN  /\ writes < MaxWrites
        /\ entries' = t
        /\ writes' = writes + 1
        /\ stood' = stood \intersect same
        /\ around' = IF lookup.pc = "asking" THEN around \union Pairs(t) ELSE around
        /\ present' = present \intersect DOMAIN t
        /\ UNCHANGED <<lookup, walk>>

(* POST /watchlist, PATCH, DELETE: each with its audit entry in the same   *)
(* transaction.                                                            *)
Create == \E r \in Rows : ~HasKey(entries, r) /\ \E t \in Upserts(entries, {r}) : Write(t)
Patch ==
    \E i \in DOMAIN entries, r \in Rows :
        /\ KeyOf(r) = KeyOf(entries[i])
        /\ Write([entries EXCEPT ![i].plate = r.plate, ![i].active = r.active])
Deactivate == \E i \in DOMAIN entries : Write([entries EXCEPT ![i].active = FALSE])

(* POST /watchlist/import and a provider's sync of the shipped CSV. *)
Import == \E b \in SUBSET Rows : \E t \in Upserts(entries, b) : Write(t)
Sync == \E s \in Systems : \E t \in Upserts(entries, {r \in Seed : r.system = s}) : Write(t)

-----------------------------------------------------------------------------
(* GET /watchlist/lookup/vehicle/:plate: every provider runs its           *)
(* statements; what the plates are to the query is computed once.  A       *)
(* behaviour looks plates up or walks the list: neither reads the other's  *)
(* state.                                                                  *)
Plates == {r.plate : r \in Rows}
Distance == [q \in Queries |-> [p \in Plates |-> WeightedDistance(q, p).distance]]
Generated == [q \in Queries |-> [p \in Plates |-> [s \in BOOLEAN |-> IsCandidate(q, p, s)]]]
CanSearch == [q \in Queries |-> Searchable(q)]

Hits(i, d) == [id |-> i, distance |-> d]
Rowed(s, p) == {i \in Active(entries) : entries[i].system = s /\ entries[i].plate = p}
At(s, stage) == lookup.pc = "asking" /\ lookup.stage[s] = stage

Ask ==
    /\ lookup.pc = "idle" /\ walk = NoWalk
    /\ \E q \in Queries :
          lookup' = [pc |-> "asking", query |-> q, stage |-> [s \in Systems |-> "exact"],
                     hits |-> [s \in Systems |-> {}], queue |-> [s \in Systems |-> <<>>]]
    /\ stood' = DOMAIN entries
    /\ around' = Pairs(entries)
    /\ UNCHANGED <<entries, writes, walk, present>>

(* Mutant of FindExact: no query of its own, the matcher will find it. *)
FindExactByMatcher(s) ==
    /\ At(s, "exact")
    /\ lookup' = [lookup EXCEPT !.stage[s] = "match"]
    /\ UNCHANGED <<entries, writes, stood, around, walk, present>>

FindExact(s) ==
    /\ At(s, "exact")
    /\ lookup' = [lookup EXCEPT !.stage[s] = "match",
                                !.hits[s] = {Hits(i, 0) : i \in Rowed(s, lookup.query)}]
    /\ UNCHANGED <<entries, writes, stood, around, walk, present>>

(* ConfusionPlateMatcher.match: the plates its one statement returns, the  *)
(* nearest Limit of them.                                                  *)
Ranked(q, ps) ==
    {f \in SetToSeqs(ps) : \A m, n \in DOMAIN f : m < n => Distance[q][f[m]] <= Distance[q][f[n]]}
Match(s) ==
    /\ At(s, "match")
    /\ \E similar \in SUBSET Plates :
         LET q == lookup.query
             ps == {p \in {entries[i].plate : i \in {i \in Active(entries) : entries[i].system = s}} :
                      Generated[q][p][(p \in similar)] /\ Distance[q][p] <= MaxDistance}
         IN  \E f \in Ranked(q, IF CanSearch[q] THEN ps ELSE {}) :
               lookup' = [lookup EXCEPT !.stage[s] = "fetch",
                                        !.queue[s] = SubSeq(f, 1, Min({Limit, Len(f)}))]
    /\ UNCHANGED <<entries, writes, stood, around, walk, present>>

(* One candidate's rows; the query itself has been answered. *)
Fetch(s) ==
    /\ At(s, "fetch")
    /\ lookup.queue[s] # <<>>
    /\ LET p == Head(lookup.queue[s])
           found == IF p = lookup.query THEN {} ELSE Rowed(s, p)
       IN  lookup' = [lookup EXCEPT !.queue[s] = Tail(@),
                                    !.hits[s] = @ \union {Hits(i, Distance[lookup.query][p]) : i \in found}]
    /\ UNCHANGED <<entries, writes, stood, around, walk, present>>

(* The nearest n of a set of hits; rows come back in any order. *)
Nearest(hits, n, before) ==
    {c \in kSubset(Min({n, Cardinality(hits)}), hits) : ((hits \ c) \X c) \intersect before = {}}

Nearer(hits) == {p \in hits \X hits : p[1].distance < p[2].distance}

Trim(s) ==
    /\ At(s, "fetch")
    /\ lookup.queue[s] = <<>>
    /\ \E c \in Nearest(lookup.hits[s], Limit, Nearer(lookup.hits[s])) :
          lookup' = [lookup EXCEPT !.stage[s] = "done", !.hits[s] = c]
    /\ UNCHANGED <<entries, writes, stood, around, walk, present>>

(* rank over the batches, the audit entry, the reply. *)
MoreSerious(hits) ==
    Nearer(hits) \union
    {p \in hits \X hits : p[1].distance = p[2].distance /\ Severity[p[1].id] < Severity[p[2].id]}

Answer ==
    /\ lookup.pc = "asking"
    /\ \A s \in Systems : lookup.stage[s] = "done"
    /\ LET hits == UNION Range(lookup.hits)
       IN  \E c \in Nearest(hits, Limit, MoreSerious(hits)) :
          lookup' = [pc |-> "answered", query |-> lookup.query, hits |-> c]
    /\ UNCHANGED <<entries, writes, stood, around, walk, present>>

Forget ==
    /\ lookup.pc = "answered"
    /\ lookup' = NoLookup /\ stood' = {} /\ around' = {}
    /\ UNCHANGED <<entries, writes, walk, present>>

-----------------------------------------------------------------------------
(* GET /watchlist: one row more than a page is read, to know of the next. *)
Above(c) == SetToSortSeq({i \in DOMAIN entries : i > c}, LAMBDA i, j : i < j)

NextCursor(rows) == rows[Limit]

Page ==
    /\ ~walk.done /\ lookup.pc = "idle"
    /\ LET rows == Above(walk.cursor)
           more == Len(rows) > Limit
       IN  walk' = [cursor |-> IF more THEN NextCursor(rows) ELSE walk.cursor,
                    listed |-> walk.listed \o SubSeq(rows, 1, Min({Limit, Len(rows)})),
                    done |-> ~more]
    /\ UNCHANGED <<entries, writes, lookup, stood, around, present>>

-----------------------------------------------------------------------------
(* The table starts as a full sync leaves it. *)
Init ==
    /\ entries \in Upserts(<<>>, Seed)
    /\ writes = 0
    /\ lookup = NoLookup /\ stood = {} /\ around = {}
    /\ walk = NoWalk
    /\ present = DOMAIN entries

Next ==
    \/ Create \/ Patch \/ Deactivate \/ Import \/ Sync
    \/ Ask \/ Answer \/ Forget \/ Page
    \/ \E s \in Systems : FindExact(s) \/ Match(s) \/ Fetch(s) \/ Trim(s)

Spec == Init /\ [][Next]_vars

-----------------------------------------------------------------------------
(* A plate the query must generate whatever the trigram operator says: the *)
(* query itself, or one end of it cut within the allowance.                *)
CutShort(q, p) == IsPrefix(q, p) /\ Len(p) - Len(q) <= TailAllowance
Certain(q, p) ==
    \/ p = q
    \/ CanSearch[q] /\ Len(q) >= MinPrefix /\ Len(p) >= MinPrefix /\ Distance[q][p] <= MaxDistance
         /\ (CutShort(q, p) \/ CutShort(p, q))

(* An entry that nobody touches during a lookup is in its answer when its  *)
(* plate is the one asked for or differs by a truncated tail, however the  *)
(* other entries change meanwhile and whatever threshold the connection    *)
(* was left with - unless Limit others at least as near were about.        *)
StandingEntryIsFound ==
    lookup.pc = "answered" =>
      \A i \in stood :
        entries[i].active /\ Certain(lookup.query, entries[i].plate)
          /\ (\A h \in lookup.hits : h.id # i) =>
             Cardinality({a \in around : /\ a[1] # i
                                         /\ Distance[lookup.query][a[2]] <= Distance[lookup.query][entries[i].plate]})
               >= Limit

(* A walk of the list shows every entry that was there all along, once,    *)
(* whatever is created, imported or changed meanwhile.                     *)
WalkListsEachOnce ==
    /\ \A m, n \in DOMAIN walk.listed : m # n => walk.listed[m] # walk.listed[n]
    /\ walk.done => present \subseteq Range(walk.listed)

(* An entry that stands is reached by both ways to it: the lookup of a     *)
(* sighted plate and the walk of the list.                                 *)
EntriesAreReached == TypeOK /\ StandingEntryIsFound /\ WalkListsEachOnce

-----------------------------------------------------------------------------
(* The reads the list is looked up with.  A camera reads a plate and       *)
(* damages it character by character: it takes one for another it is       *)
(* confusable with, or loses the end.  The grammar and the search work on  *)
(* what is left.  The damage is external: it stands for the OCR whose      *)
(* errors config/plate-confusions.json records.  These variables are       *)
(* apart from those above.                                                 *)

CONSTANTS
    Registrations,      \* the registrations in front of the camera
    MaxDamage    \* bound: how many characters one read gets wrong

VARIABLES
    plate,       \* the registration
    read,        \* what the camera made of it
    damage       \* how many characters it has got wrong

readVars == <<plate, read, damage>>

ReadTypeOK ==
    /\ plate \in Registrations
    /\ Len(read) <= Len(plate)
    /\ damage \in 0..MaxDamage

ReadInit ==
    /\ plate \in Registrations
    /\ read = plate
    /\ damage = 0

(* One character is taken for another. *)
Misread ==
    /\ damage < MaxDamage
    /\ \E i \in DOMAIN read, a \in Letter \union Digit :
          /\ InTable(Measured \union Derived, read[i], a)
          /\ read' = ReplaceAt(read, i, a)
    /\ damage' = damage + 1
    /\ UNCHANGED plate

(* The last character is lost. *)
LoseTail ==
    /\ damage < MaxDamage
    /\ read # <<>>
    /\ read' = Front(read)
    /\ damage' = damage + 1
    /\ UNCHANGED plate

ReadNext == Misread \/ LoseTail
ReadSpec == ReadInit /\ [][ReadNext]_readVars

-----------------------------------------------------------------------------
(* The repair of a read is final: what evaluatePlateRead stores as         *)
(* normalized_text is itself a read the grammar accepts as it stands, so   *)
(* validating it again changes nothing and it is as complete as before.    *)
(* (Search, seed and consumers validate stored text again.)                *)
StableRepair ==
    \A v \in {Validate(read)} : v.validity # "invalid" =>
      \A again \in {Validate(v.corrected)} :
          /\ again.corrected = v.corrected
          /\ again.corrections = {}
          /\ again.validity = v.validity

(* A read that lost only its tail is never repaired into something else:   *)
(* every prefix of a registration with a state code that reaches the       *)
(* second slot is accepted as partial (or whole) with no correction.       *)
CleanPrefixIsKept ==
    IsPrefix(read, plate) /\ Len(read) >= MinEvaluable /\ <<plate[1], plate[2]>> \in StateCode =>
        \A v \in {Validate(read)} : v.validity # "invalid" /\ v.corrected = read

(* The script that explains a match is the match, whichever of the two is  *)
(* the query: applied to the stored text it gives the query, and its       *)
(* prices add up to the distance shown.                                    *)
Apply(c, ops) ==
    LET Edit(s, o) ==
            LET at == o.index + (Len(s) - Len(c))
            IN  CASE o.kind = "sub" -> ReplaceAt(s, at, o.to)
                  [] o.kind = "ins" -> InsertAt(s, at + 1, o.to)
                  [] o.kind = "del" -> RemoveAt(s, at)
                  [] OTHER -> IF o.to = "" THEN Front(s) ELSE Append(s, o.to)
    IN  FoldLeft(Edit, c, ops)
Explained(q, c) ==
    \A w \in {WeightedDistance(q, c)} :
        /\ Apply(c, w.ops) = q
        /\ FoldLeft(LAMBDA n, o : n + o.cost, 0, w.ops) = w.distance
DistanceIsExplained == Explained(read, plate) /\ Explained(plate, read)

(* What a read goes through loses and invents nothing: its repair is       *)
(* final, a clean prefix is kept, and a match is explained by its script.  *)
ReadsAreSound == ReadTypeOK /\ StableRepair /\ CleanPrefixIsKept /\ DistanceIsExplained
=============================================================================
