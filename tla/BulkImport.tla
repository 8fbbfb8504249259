------------------------------ MODULE BulkImport ------------------------------
(***************************************************************************)
(* The registry as a file (api/routes/cameras.ts, bulk-import.ts): export  *)
(* to CSV or JSON, a department's edits of the file, and the bulk import   *)
(* that reads it back: parsed, validated row by row, written in one        *)
(* transaction, while syncs, probes and officers write the same cameras.   *)
(* One department; a text is a sequence of characters, of which only the   *)
(* ones CSV treats specially are told apart.                               *)
(***************************************************************************)
EXTENDS Integers, Sequences, FiniteSets, SequencesExt

CONSTANTS
    Keys,           \* external ids, each a text of one plain character
    Texts,          \* names and addresses the registry may hold
    MaxSteps,       \* operations explored
    NA

VARIABLES
    cameras,        \* key -> [name, address, endpoints, score, deleted] for those created
    file,           \* the file on the department's disk: [format, rows or text]
    report,         \* the last import's answer
    steps

vars == <<cameras, file, report, steps>>

Stored(name, address, endpoints, score) ==
    [name |-> name, address |-> address, endpoints |-> endpoints, score |-> score, deleted |-> FALSE]

TypeOK ==
    /\ DOMAIN cameras \subseteq Keys
    /\ \A k \in DOMAIN cameras : cameras[k].name \in Texts /\ cameras[k].address \in Texts \cup {NA}
    /\ report = NA \/ report.received >= 0
    /\ steps \in 0..MaxSteps

-----------------------------------------------------------------------------
(* The CSV writer.                                                         *)
Special == {",", "q", "n", "r"}
Doubled(t) == FlattenSeq([i \in DOMAIN t |-> IF t[i] = "q" THEN <<"q", "q">> ELSE <<t[i]>>])

(* Mutant of Escape: a line break is not a reason to quote. *)
EscapeCommas(t) ==
    IF t = NA THEN <<>>
    ELSE IF ToSet(t) \cap {",", "q"} # {} THEN <<"q">> \o Doubled(t) \o <<"q">> ELSE t

Escape(t) ==
    IF t = NA THEN <<>>
    ELSE IF ToSet(t) \cap Special # {} THEN <<"q">> \o Doubled(t) \o <<"q">> ELSE t

Line(cells) == Escape(cells[1]) \o <<",">> \o Escape(cells[2]) \o <<",">> \o Escape(cells[3]) \o <<"n">>
Header == <<"k", ",", "k", ",", "k", "n">>
Render(rows) == Header \o FlattenSeq([i \in DOMAIN rows |-> Line(rows[i])])

(* parseCsv: one pass over the characters; "r" directly before "n" ends    *)
(* one record with it.                                                     *)
Scan(text) ==
    LET record(s) == [s EXCEPT !.rows = Append(@, Append(s.record, s.field)), !.record = <<>>, !.field = <<>>]
        step(s, i) ==
            LET ch == text[i]
                next == IF i < Len(text) THEN text[i + 1] ELSE NA
            IN  IF s.skip THEN [s EXCEPT !.skip = FALSE]
                ELSE IF s.quoted
                THEN CASE ch = "q" /\ next = "q" -> [s EXCEPT !.field = Append(@, "q"), !.skip = TRUE]
                       [] ch = "q" /\ next # "q" -> [s EXCEPT !.quoted = FALSE]
                       [] OTHER -> [s EXCEPT !.field = Append(@, ch)]
                ELSE CASE ch = "q" -> [s EXCEPT !.quoted = TRUE]
                       [] ch = "," -> [s EXCEPT !.record = Append(@, s.field), !.field = <<>>]
                       [] ch = "n" -> record(s)
                       [] ch = "r" -> [record(s) EXCEPT !.skip = next = "n"]
                       [] OTHER -> [s EXCEPT !.field = Append(@, ch)]
        end == FoldLeft(step, [field |-> <<>>, record |-> <<>>, rows |-> <<>>, quoted |-> FALSE, skip |-> FALSE],
                        [i \in 1..Len(text) |-> i])
    IN  IF end.field # <<>> \/ end.record # <<>> THEN record(end).rows ELSE end.rows

Cell(r, i) == IF i \in DOMAIN r /\ r[i] # <<>> THEN r[i] ELSE NA
ParseCsv(text) ==
    LET rows == SelectSeq(Scan(text), LAMBDA r : \E i \in DOMAIN r : r[i] # <<>>)
    IN  [i \in 1..(Len(rows) - 1) |-> <<Cell(rows[i + 1], 1), Cell(rows[i + 1], 2), Cell(rows[i + 1], 3)>>]

-----------------------------------------------------------------------------
(* GET /cameras/export.                                                    *)
KeyOrder == SetToSeq(Keys)
Exported == SelectSeq(KeyOrder, LAMBDA k : k \in DOMAIN cameras /\ ~cameras[k].deleted)
RowsNow == [i \in DOMAIN Exported |-> <<Exported[i], cameras[Exported[i]].name, cameras[Exported[i]].address>>]
CsvNow == Render(RowsNow)

Counted == steps < MaxSteps /\ steps' = steps + 1

ExportCsv ==
    /\ Counted /\ file' = CsvNow
    /\ UNCHANGED <<cameras, report>>

(* The department edits the file with a tool that writes CSV as it should. *)
EditFile ==
    /\ Counted /\ file # NA
    /\ LET rows == ParseCsv(file)
       IN  \E i \in DOMAIN rows :
            \/ \E t \in Texts : file' = Render([rows EXCEPT ![i][3] = t])
            \/ file' = Render([rows EXCEPT ![i][2] = NA])
            \/ file' = Render(Append(rows, rows[i]))
    /\ UNCHANGED <<cameras, report>>

(* validateBatch: a row without a key or a name is refused, and so is the  *)
(* second row of a key.                                                    *)
Sound(r) == r[1] # NA /\ r[2] # NA
Rejects(rows, i) == ~Sound(rows[i]) \/ \E j \in 1..(i - 1) : Sound(rows[j]) /\ rows[j][1] = rows[i][1]
Valid(rows) == {i \in DOMAIN rows : ~Rejects(rows, i)}

(* importBatch: every valid row is upserted, and none when one of them     *)
(* fails. What the file has no column for takes the default.               *)
Upsert(r) ==
    IF r[1] \in DOMAIN cameras
    THEN [Stored(r[2], r[3], FALSE, FALSE) EXCEPT !.score = cameras[r[1]].score]
    ELSE Stored(r[2], r[3], FALSE, FALSE)

Import ==
    /\ Counted /\ file # NA
    /\ LET rows == ParseCsv(file)
           valid == Valid(rows)
           rowOf(k) == rows[CHOOSE i \in valid : rows[i][1] = k]
           written == {rows[i][1] : i \in valid}
       IN  /\ cameras' = [k \in written |-> Upsert(rowOf(k))] @@ cameras
           /\ report' = [received |-> Len(rows),
                         created |-> Cardinality(written \ DOMAIN cameras),
                         updated |-> Cardinality(written \cap DOMAIN cameras),
                         rejected |-> Cardinality(DOMAIN rows \ valid)]
    /\ UNCHANGED file

ImportAborts == Counted /\ file # NA /\ report' = NA /\ UNCHANGED <<cameras, file>>

(* The other writers of the same rows.                                     *)
Elsewhere(k) ==
    /\ Counted
    /\ \/ /\ k \notin DOMAIN cameras
          /\ \E n \in Texts, a \in Texts \cup {NA} : cameras' = cameras @@ (k :> Stored(n, a, TRUE, FALSE))
       \/ /\ k \in DOMAIN cameras /\ ~cameras[k].deleted
          /\ \/ \E a \in Texts : cameras' = [cameras EXCEPT ![k].address = a]
             \/ cameras' = [cameras EXCEPT ![k].score = TRUE]
             \/ cameras' = [cameras EXCEPT ![k].deleted = TRUE]
    /\ UNCHANGED <<file, report>>

Init == cameras = <<>> /\ file = NA /\ report = NA /\ steps = 0

Next == ExportCsv \/ EditFile \/ Import \/ ImportAborts \/ \E k \in Keys : Elsewhere(k)

Spec == Init /\ [][Next]_vars

-----------------------------------------------------------------------------
(* What the registry holds in the columns of the file survives the way     *)
(* through it: importing the registry's own export, whatever commas,       *)
(* quotes and line breaks its texts hold, changes no exported column, adds *)
(* no camera and refuses no row.                                           *)
ExportedColumnsSurvive ==
    [][Import /\ file = CsvNow =>
        /\ report'.rejected = 0 /\ report'.created = 0
        /\ \A k \in DOMAIN cameras : ~cameras[k].deleted =>
             cameras'[k].name = cameras[k].name /\ cameras'[k].address = cameras[k].address]_vars

(* A sheet that left the registry comes back as it was.                    *)
SheetsAreSound == []TypeOK /\ ExportedColumnsSurvive
=============================================================================
