--------------------------- MODULE CoverageReport ---------------------------
(***************************************************************************)
(* The gap analysis (services/coverage.ts, jobs/gap-analysis-cli.ts) and   *)
(* the sentences of its report (services/gap-report.ts).                   *)
(*                                                                         *)
(* A run reads the registry, rewrites camera_coverage, and then measures   *)
(* three slices of the estate, the junctions and the network, each in a    *)
(* statement of its own that sees the registry as it is by then.  Nothing  *)
(* wraps the statements in a transaction, and another run or an officer's  *)
(* edit may come in between.                                               *)
(*                                                                         *)
(* The ground is a set of spots, a road some of them, and a length is a    *)
(* number of spots; a cell is the set of spots within the radius of its    *)
(* camera, that on which it stands among them.                             *)
(***************************************************************************)
EXTENDS Naturals, FiniteSets

CONSTANTS Camera, Runner,
          Spot,               \* the ground, spot by spot
          Ways,               \* the ways, as sets of spots
          Junction,           \* the spots where three major ways end
          Place, Nowhere,     \* positions; a camera without coordinates
          Disc,               \* the spots within the radius of a class
          Estates,            \* the registries a run may start from
          ListMax,            \* limit of junctionsWithoutCoverage
          MaxEdits

VARIABLES registry,   \* the cameras
          table,      \* camera_coverage: the cell of every row
          run,        \* what each run has computed so far
          report,     \* the analysis published last
          edits

vars == <<registry, table, run, report, edits>>

Class == {"anpr_viable", "detection_only", "unclassified"}
Band == {"trusted", "degraded", "untrusted", "dead", "never"}
Row == [live : BOOLEAN, place : Place \cup {Nowhere}, class : Class,
        band : Band, blind : BOOLEAN]
CoverageReportAssumption ==
    /\ MaxEdits \in Nat
    /\ ListMax \in Nat \ {0}
    /\ IsFiniteSet(Camera) /\ IsFiniteSet(Spot)
    /\ Spot \subseteq Nat /\ UNION Ways \subseteq Spot /\ Junction \subseteq UNION Ways
    /\ Nowhere \notin Place
    /\ Disc \in [Place -> [Class -> (SUBSET Spot) \ {{}}]]
    /\ Estates # {} /\ Estates \subseteq [Camera -> Row]

Slice == {"all", "trusted", "anpr"}
NoTotals == [rows |-> 0, withPolygon |-> 0]
NoJunctions == [total |-> 0, covered |-> 0, worst |-> {}]
None == [c \in {} |-> {}]
Blank == [pc |-> "idle", cams |-> None, write |-> NoTotals,
          slice |-> [s \in Slice |-> {}], measured |-> {}, districts |-> {},
          junctions |-> NoJunctions, calm |-> TRUE]
NoReport == [given |-> FALSE, of |-> Blank]

Init == /\ registry \in Estates
        /\ table = None
        /\ run = [r \in Runner |-> Blank]
        /\ report = NoReport
        /\ edits = 0

(* --------------------------------------------------------- the cells -- *)

(* fovAssumption and radiusCase: a disc by geometry class, or no cell.     *)
Cell(row) == IF row.place = Nowhere THEN {} ELSE Disc[row.place][row.class]
Placed(row) == row.place # Nowhere

(* countsAsTrusted: the band, and D1-06's veto on top of it.               *)
CountsAsTrusted(row) == row.band = "trusted" /\ ~row.blind

Live == {c \in Camera : registry[c].live}

(* The cameras of a slice, chosen from the rows loaded at the start.       *)
Members(cams, s) ==
    {c \in DOMAIN cams :
        /\ Placed(cams[c])
        /\ s = "trusted" => CountsAsTrusted(cams[c])
        /\ s = "anpr" => cams[c].class = "anpr_viable"}

(* The cells of those cameras that are live and placed by now.             *)
Cells(ids) == {Cell(registry[c]) : c \in {d \in ids : registry[d].live}}
Candidates(ids) == {w \in Ways : \E cell \in Cells(ids) : cell \cap w # {}}
Covered(ids) == (UNION Cells(ids)) \cap (UNION Candidates(ids))

(* ----------------------------------------------------------- the run -- *)

(* Whoever writes to the registry or to the table disturbs the runs that   *)
(* are under way; remembered only to tell those reports apart.             *)
Disturbed(runs, but) ==
    [r \in Runner |-> IF r \in but \/ runs[r].pc \in {"idle", "done"}
                      THEN runs[r] ELSE [runs[r] EXCEPT !.calm = FALSE]]

Alone(r) == \A o \in Runner \ {r} : run[o].pc \in {"idle", "done"}

Load(r) ==
    /\ run[r].pc = "idle"
    /\ run' = [Disturbed(run, {r}) EXCEPT ![r].pc = "delete",
                    ![r].cams = [c \in Live |-> registry[c]],
                    ![r].calm = Alone(r)]
    /\ UNCHANGED <<registry, table, report, edits>>

Delete(r) ==
    /\ run[r].pc = "delete"
    /\ table' = None
    /\ run' = [run EXCEPT ![r].pc = "insert"]
    /\ UNCHANGED <<registry, report, edits>>

(* One row for every live camera, the unplaceable ones included.           *)
RowsForPlaced == [c \in {d \in Live : Placed(registry[d])} |->
                     Cell(registry[c])]
Rows == [c \in Live |-> Cell(registry[c])]

(* The primary key refuses the rows of a run that finds another's.         *)
Insert(r) ==
    /\ run[r].pc = "insert"
    /\ IF DOMAIN table \cap DOMAIN Rows = {}
       THEN /\ table' = [c \in DOMAIN table \cup DOMAIN Rows |->
                            IF c \in DOMAIN Rows THEN Rows[c] ELSE table[c]]
            /\ run' = [run EXCEPT ![r].pc = "count"]
       ELSE /\ run' = [run EXCEPT ![r] = [Blank EXCEPT !.pc = "done"]]
            /\ UNCHANGED table
    /\ UNCHANGED <<registry, report, edits>>

Count(r) ==
    /\ run[r].pc = "count"
    /\ run' = [run EXCEPT ![r].pc = "measure",
                  ![r].write =
                     [rows |-> Cardinality(DOMAIN table),
                      withPolygon |-> Cardinality({c \in DOMAIN table :
                                                      table[c] # {}})]]
    /\ UNCHANGED <<registry, table, report, edits>>

(* coverageFor: the covered length of the candidate ways.  Promise.all     *)
(* sends the three statements over three connections, in no order.         *)
Measure(r, s) ==
    /\ run[r].pc = "measure"
    /\ s \notin run[r].measured
    /\ LET ids == Members(run[r].cams, s)
       IN run' = [run EXCEPT ![r].slice[s] = Covered(ids),
                             ![r].measured = @ \cup {s}]
    /\ UNCHANGED <<registry, table, report, edits>>

(* Its second statement: the districts of the estate with covered road; a  *)
(* district is named by its place.                                         *)
Districts(r) ==
    /\ run[r].pc = "measure"
    /\ "all" \in run[r].measured /\ "districts" \notin run[r].measured
    /\ LET ids == {c \in Members(run[r].cams, "all") : registry[c].live}
           on(p) == \E c \in ids : registry[c].place = p /\ Cell(registry[c]) \cap (UNION Ways) # {}
       IN run' = [run EXCEPT ![r].districts = {p \in Place : on(p)},
                             ![r].measured = @ \cup {"districts"}]
    /\ UNCHANGED <<registry, table, report, edits>>

(* junctionsWithoutCoverage: a junction is covered when a trusted camera   *)
(* of the estate as loaded stands within its radius.  The junctions are    *)
(* counted in one statement and the uncovered ones listed in another.      *)
Reached(ids, j) == \E c \in ids : registry[c].live /\ j \in Cell(registry[c])

Junctions(r) ==
    /\ run[r].pc = "measure"
    /\ run[r].measured = Slice \cup {"districts"}
    /\ LET ids == Members(run[r].cams, "trusted")
       IN run' = [run EXCEPT ![r].pc = "worst",
                     ![r].junctions.total = Cardinality(Junction),
                     ![r].junctions.covered = Cardinality({j \in Junction : Reached(ids, j)})]
    /\ UNCHANGED <<registry, table, report, edits>>

(* The first of an order that does not depend on the estate.               *)
First(n, spots) == {j \in spots : Cardinality({k \in spots : k < j}) < n}

Worst(r) ==
    /\ run[r].pc = "worst"
    /\ LET ids == Members(run[r].cams, "trusted")
       IN run' = [run EXCEPT ![r].pc = "publish",
                     ![r].junctions.worst = First(ListMax, {j \in Junction : ~Reached(ids, j)})]
    /\ UNCHANGED <<registry, table, report, edits>>

Length(spots) == Cardinality(spots)
Total(a) == Cardinality(DOMAIN a.cams)
Assessed(a) == Cardinality({c \in DOMAIN a.cams : Placed(a.cams[c])})
Trusted(a) == Cardinality(Members(a.cams, "trusted"))
NeverProbed(a) == Cardinality({c \in DOMAIN a.cams : a.cams[c].band = "never"})

(* The command refuses to publish without roads, without a placed camera,  *)
(* or when the geometry does not add up.                                   *)
Publishable(a, adds) == /\ Ways # {}
                        /\ Assessed(a) > 0
                        /\ adds

Publish(r) ==
    /\ run[r].pc = "publish"
    /\ \E adds \in BOOLEAN :
          report' = IF Publishable(run[r], adds)
                    THEN [given |-> TRUE, of |-> run[r]] ELSE report
    /\ run' = [run EXCEPT ![r] = [Blank EXCEPT !.pc = "done"]]
    /\ UNCHANGED <<registry, table, edits>>

(* ------------------------------------------------- meanwhile, officers -- *)

Edit(c) ==
    /\ edits < MaxEdits
    /\ edits' = edits + 1
    /\ registry[c].live
    /\ \/ \E p \in Place \ {registry[c].place} :
             registry' = [registry EXCEPT ![c].place = p]
       \/ registry' = [registry EXCEPT ![c].live = FALSE]
       \/ \E b \in {"trusted", "dead"} \ {registry[c].band} :
             registry' = [registry EXCEPT ![c].band = b]
    /\ run' = Disturbed(run, {})
    /\ UNCHANGED <<table, report>>

Step(r) == \/ Load(r) \/ Delete(r) \/ Insert(r) \/ Count(r)
           \/ (\E s \in Slice : Measure(r, s))
           \/ Districts(r) \/ Junctions(r) \/ Worst(r) \/ Publish(r)

Next == \/ \E r \in Runner : Step(r)
        \/ \E c \in Camera : Edit(c)

Spec == Init /\ [][Next]_vars

(* ------------------------------------------------------ the sentences -- *)

UnplacedIn(a, band) ==
    Cardinality({c \in DOMAIN a.cams : /\ a.cams[c].band = band
                                       /\ ~Placed(a.cams[c])})

(* zeroTrustedCause: which of its five sentences explains that no road is  *)
(* covered by a trusted camera.                                            *)
ZeroTrustedCause(a) ==
    IF Total(a) = 0 THEN "empty"
    ELSE IF NeverProbed(a) = Total(a) THEN "never probed"
    ELSE IF Trusted(a) > 0 THEN "no road in reach"
    ELSE IF UnplacedIn(a, "trusted") > 0 THEN "not placed" ELSE "none trusted"

(* deltaStatement: which of its three sentences opens the report.          *)
DeltaStatement(a) ==
    IF Length(a.slice["all"]) = 0 THEN "no coverage"
    ELSE IF Length(a.slice["trusted"]) = 0 THEN ZeroTrustedCause(a) ELSE "delta"

(* gapAnalysisMarkdown: what its tables list, and the sentences that stand *)
(* in the place of an empty one.                                           *)
SliceTable(a) ==
    [s \in Slice |-> [cameras |-> Cardinality(Members(a.cams, s)), covered |-> Length(a.slice[s])]]

BandTable(a) ==
    LET of(b) == {c \in DOMAIN a.cams : a.cams[c].band = b}
    IN [b \in {a.cams[c].band : c \in DOMAIN a.cams} |->
           [total |-> Cardinality(of(b)), placed |-> Cardinality({c \in of(b) : Placed(a.cams[c])})]]

JunctionTable(a) ==
    [uncovered |-> a.junctions.total - a.junctions.covered, listed |-> a.junctions.worst,
     noneFound |-> a.junctions.worst = {}]

DistrictTable(a) == [listed |-> a.districts, none |-> a.districts = {}]

(* Every camera, with the radius assumed for it or none.                   *)
CameraTable(a) == [c \in DOMAIN a.cams |-> Placed(a.cams[c])]

Markdown(a) ==
    [headline |-> DeltaStatement(a), slices |-> SliceTable(a), bands |-> BandTable(a),
     junctions |-> JunctionTable(a), districts |-> DistrictTable(a), cameras |-> CameraTable(a),
     probeThem |-> NeverProbed(a) > 0]

-----------------------------------------------------------------------------
TypeOK ==
    /\ registry \in [Camera -> Row]
    /\ DOMAIN table \subseteq Camera
    /\ \A c \in DOMAIN table : table[c] \subseteq Spot
    /\ \A r \in Runner :
          /\ run[r].pc \in {"idle", "delete", "insert", "count", "measure",
                            "worst", "publish", "done"}
          /\ \A s \in Slice : run[r].slice[s] \subseteq Spot
    /\ report.given \in BOOLEAN
    /\ edits \in 0..MaxEdits

(* The parts of a report, each computed by a statement of its own, agree   *)
(* when nobody disturbed the run: camera_coverage has a row for every      *)
(* camera the estate split counts and a cell for every one it calls        *)
(* assessed, the trusted and the ANPR slice lie within the slice of all,   *)
(* the junctions called covered are those on trusted road, and the         *)
(* sentence at the top is true of the cameras the run loaded.              *)
UndisturbedReportsAgree ==
    report.given /\ report.of.calm =>
        LET a == report.of
        IN /\ a.write.rows = Total(a)
           /\ a.write.withPolygon = Assessed(a)
           /\ a.slice["trusted"] \cup a.slice["anpr"] \subseteq a.slice["all"]
           /\ a.junctions.covered =
                 Cardinality(Junction \cap a.slice["trusted"])
           /\ DeltaStatement(a) = "delta" <=>
                 \E c \in Members(a.cams, "trusted") :
                    Cell(a.cams[c]) \cap (UNION Ways) # {}
           /\ DeltaStatement(a) = "not placed" =>
                 \E c \in DOMAIN a.cams : a.cams[c].band = "trusted"
           /\ DeltaStatement(a) \in {"none trusted", "never probed"} =>
                 a.junctions.covered = 0

(* The tables of the printed report say nothing else than its sentences:   *)
(* the list of junctions is as long as the count beside it allows, no      *)
(* district is listed exactly if the headline says that no road is         *)
(* covered, and every camera is listed, with a radius if it has a cell.    *)
UndisturbedTablesAgree ==
    report.given /\ report.of.calm =>
        LET m == Markdown(report.of)
            j == m.junctions
        IN /\ Cardinality(j.listed) = IF j.uncovered < ListMax THEN j.uncovered ELSE ListMax
           /\ j.noneFound <=> j.uncovered = 0
           /\ m.districts.none <=> m.headline = "no coverage"
           /\ Cardinality({c \in DOMAIN m.cameras : m.cameras[c]}) = report.of.write.withPolygon
           /\ m.headline = "never probed" => m.probeThem /\ m.slices["trusted"].cameras = 0
           /\ m.headline = "none trusted" /\ "trusted" \in DOMAIN m.bands =>
                 \E c \in DOMAIN report.of.cams : report.of.cams[c].blind

(* However two runs overlap, once neither is between its delete and its    *)
(* insert the table holds the row and the cell of every live camera: the   *)
(* one whose insert is refused found the rows of the other.                *)
TableIsWhole ==
    /\ \E r \in Runner : run[r].pc \notin {"idle", "delete", "insert"}
    /\ \A r \in Runner : run[r].pc # "insert"
    /\ edits = 0
    => table = [c \in Live |-> Cell(registry[c])]

(* A run nobody disturbed is exact: its parts agree and the table is whole.*)
UndisturbedRunsAreExact ==
    TypeOK /\ UndisturbedReportsAgree /\ UndisturbedTablesAgree /\ TableIsWhole
=============================================================================
