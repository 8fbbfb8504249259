--------------------------- MODULE RecordsProofs ---------------------------
(***************************************************************************)
(* What leaves the system as a record is what it claims to be, for any     *)
(* number of builds, runs of the gap report, cameras, requests, officers   *)
(* and sightings.                                                          *)
(*                                                                         *)
(* Export bundles.  A build deals with the files of its list (Tasks) from  *)
(* front to back.  Half says what its item list and its omissions are      *)
(* after the first Past of them, Here what a directory holds that it alone *)
(* writes to; both are about plain values, and the lemmas on them carry    *)
(* the argument.  The invariant then says of the whole state that every    *)
(* manifest on disk is Genuine (the audit chain has its entry, its items   *)
(* are the trace and the crops), whoever wrote the files next to it, and   *)
(* that a directory with files in it has an owner - which is why a build   *)
(* that finds itself alone began in an empty one.                          *)
(*                                                                         *)
(* The gap report: what a run nobody disturbed has computed is a function  *)
(* of the registry it read (RunOK).  Traces: what is due to an answer is   *)
(* among its rows, and what the route cache serves was built for the same  *)
(* sightings by a request that has been answered (ReqOK, RowOK).           *)
(* Preservation: each committed request has its entry (Audited), and an    *)
(* answer is what its statements found of the cameras nobody changed       *)
(* since (Answered).                                                       *)
(***************************************************************************)
EXTENDS MCRecords, SetLemmas, SequenceTheorems

Entry == [sighting : Range(Sightings), crop : BOOLEAN]

(* A trace is a beginning of the sightings of the registration.            *)
IsTrace(t) ==
    /\ t \in Seq(Entry)
    /\ Len(t) <= Len(Sightings)
    /\ \A i \in 1..Len(t) : t[i].sighting = Sightings[i]

File == {Json, Csv} \union {CropFile(s) : s \in Range(Sightings)} \union Range(Closing)

(* How many of the files of trace t are dealt with when rest is left.      *)
Past(t, rest) == Len(t) + 6 - Len(rest)

Half(t, rest, its, oms) ==
    /\ rest \in Seq(File)
    /\ Len(rest) <= Len(t) + 6
    /\ \A j \in 1..Len(rest) : rest[j] = Tasks(t)[Past(t, rest) + j]
    /\ \A f \in DOMAIN its : \E j \in 1..Len(t) + 2 : j <= Past(t, rest) /\ f = Tasks(t)[j]
    /\ Past(t, rest) >= 1 => Json \in DOMAIN its /\ its[Json] = <<t>>
    /\ Past(t, rest) >= 2 => Csv \in DOMAIN its /\ its[Csv] = <<t>>
    /\ \A i \in 1..Len(t) : i + 2 <= Past(t, rest) =>
          (CropFile(t[i].sighting) \in DOMAIN its) # (t[i].sighting \in oms)
    /\ \A s \in oms : \E i \in 1..Len(t) : i + 2 <= Past(t, rest) /\ s = t[i].sighting

Here(g, m, t, rest, its) ==
    /\ DOMAIN g = DOMAIN its \union {Tasks(t)[j] : j \in Len(t) + 3 .. Past(t, rest)}
    /\ \A f \in DOMAIN its : g[f] = its[f]
    /\ Past(t, rest) >= Len(t) + 3 => g[ManifestFile] = <<m>>
    /\ Past(t, rest) >= Len(t) + 4 => g[HashFile] = <<m>>

Job == [case : CaseRef \union {""}, trace : Seq(Entry), entry : Nat, tip : Nat, dir : Dir \union {<<>>}]

(* What a manifest promises, of itself and of the audit chain.             *)
Genuine(m) ==
    /\ m.entry \in DOMAIN audit /\ m.entry <= m.tip
    /\ audit[m.entry] = [build |-> m.build, case |-> m.case, resultCount |-> m.sightings]
    /\ {Json, Csv} \subseteq DOMAIN m.items /\ DOMAIN m.items \intersect Unlisted = {}
    /\ m.items[Json] = m.items[Csv]
    /\ m.items[Json] = << m.items[Json][1] >>
    /\ Len(m.items[Json][1]) = m.sightings
    /\ \A t \in Range(m.items[Json][1]) :
          (CropFile(t.sighting) \in DOMAIN m.items) # (t.sighting \in m.omissions)

TypeInv ==
    /\ clock \in 0..MaxClock /\ known \in 0..Len(Sightings)
    /\ crop \in [Range(Sightings) -> 0..MaxVersion]
    /\ audit \in Seq([build : Build, case : CaseRef, resultCount : Nat])
    /\ DOMAIN disk = Dir
    /\ pc \in [Build -> {"idle", "authorise", "tip", "write", "done", "failed"}]
    /\ job \in [Build -> Job]
    /\ DOMAIN todo = Build /\ DOMAIN items = Build
    /\ omissions \in [Build -> SUBSET Range(Sightings)]

(* The audit entry of a build precedes everything it writes.               *)
JobInv == \A b \in Build :
    /\ pc[b] # "idle" => job[b].case \in CaseRef /\ job[b].dir \in Dir /\ IsTrace(job[b].trace)
    /\ pc[b] \in {"idle", "authorise", "tip"} => items[b] = Empty /\ omissions[b] = {}
    /\ pc[b] \in {"tip", "write", "done"} =>
          /\ job[b].entry \in DOMAIN audit
          /\ audit[job[b].entry] = [build |-> b, case |-> job[b].case, resultCount |-> Len(job[b].trace)]
    /\ pc[b] \in {"write", "done"} => job[b].entry <= job[b].tip

(* Items and omissions are those of the files dealt with.                  *)
WriteInv == \A b \in Build :
    /\ pc[b] \in {"write", "done"} => Half(job[b].trace, todo[b], items[b], omissions[b])
    /\ pc[b] = "done" => todo[b] = <<>> /\ Manifest(b) \in bundles

(* A manifest that is on disk in full is genuine, in any directory.        *)
ManifestInv == \A d \in Dir :
    ManifestFile \in DOMAIN disk[d] /\ disk[d][ManifestFile] # Torn => Genuine(disk[d][ManifestFile][1])

(* A directory with files in it is some build's.                           *)
OwnInv == \A d \in Dir : DOMAIN disk[d] # {} => \E c \in Build : pc[c] # "idle" /\ job[c].dir = d

(* A directory that is one build's alone holds what it has written.        *)
AloneInv == \A b \in Build : Alone(b) =>
    /\ pc[b] \in {"authorise", "tip"} => DOMAIN disk[job[b].dir] = {}
    /\ pc[b] \in {"write", "done"} =>
          Here(disk[job[b].dir], Manifest(b), job[b].trace, todo[b], items[b])

(* The inductive invariant.                                                *)
ExportInv == TypeInv /\ JobInv /\ WriteInv /\ ManifestInv /\ OwnInv /\ AloneInv
-----------------------------------------------------------------------------
(* No two files of a bundle share a name.                                  *)
LEMMA NamesDiffer ==
    /\ Json # Csv /\ ManifestFile # HashFile
    /\ \A s : CropFile(s) \notin {Json, Csv} \union Unlisted
    /\ \A r, s : CropFile(r) = CropFile(s) => r = s
    /\ Json \notin Unlisted /\ Csv \notin Unlisted
    /\ \A i \in 1..4 : Closing[i] \in Unlisted
    /\ Len(Closing) = 4 /\ Closing[1] = ManifestFile /\ Closing[2] = HashFile
    /\ Closing[3] \notin {ManifestFile, HashFile} /\ Closing[4] \notin {ManifestFile, HashFile}
    /\ Closing[3] # Closing[4]
BY DEF Json, Csv, CropFile, ManifestFile, HashFile, Closing, Unlisted, Range

(* The list of files: the two reports, one crop a sighting, the four       *)
(* closing files.                                                          *)
LEMMA TasksAre ==
    ASSUME NEW t, IsTrace(t)
    PROVE  /\ Tasks(t) \in Seq(File) /\ Len(Tasks(t)) = Len(t) + 6
           /\ Tasks(t)[1] = Json /\ Tasks(t)[2] = Csv
           /\ \A i \in 1..Len(t) : Tasks(t)[i + 2] = CropFile(t[i].sighting)
           /\ \A k \in 1..4 : Tasks(t)[Len(t) + 2 + k] = Closing[k]
<1>1. Crops(t) \in Seq(File) /\ Len(Crops(t)) = Len(t)
        /\ \A i \in 1..Len(t) : Crops(t)[i] = CropFile(t[i].sighting)
  <2>1. t \in Seq(Entry) /\ DOMAIN t = 1..Len(t) /\ Len(t) \in Nat
    BY DEF IsTrace
  <2>2. \A i \in 1..Len(t) : t[i] \in Entry
    BY <2>1
  <2>3. \A i \in 1..Len(t) : CropFile(t[i].sighting) \in File
    BY <2>2 DEF Entry, File
  <2>4. Crops(t) = [i \in 1..Len(t) |-> CropFile(t[i].sighting)]
    BY <2>1 DEF Crops
  <2> HIDE DEF File, CropFile
  <2>5. Crops(t) \in [1..Len(t) -> File]
    BY <2>3, <2>4
  <2> QED BY <2>1, <2>4, <2>5
<1>2. <<Json, Csv>> \in Seq(File)
  BY DEF File
<1>3. Closing \in Seq(File) /\ Len(Closing) = 4
  <2>1. /\ Closing[1] \in File /\ Closing[2] \in File /\ Closing[3] \in File /\ Closing[4] \in File
    BY DEF File, Closing, Range
  <2> QED BY <2>1 DEF Closing
<1> HIDE DEF Closing, Crops, File, Json, Csv
<1> DEFINE A == <<Json, Csv>>
           B == A \o Crops(t)
<1>4. Len(A) = 2 /\ A[1] = Json /\ A[2] = Csv /\ A \in Seq(File)
  BY <1>2
<1> HIDE DEF A
<1>5. Len(t) \in Nat
  BY DEF IsTrace
<1>6. B \in Seq(File) /\ Len(B) = Len(t) + 2 /\ B[1] = Json /\ B[2] = Csv
        /\ \A i \in 1..Len(t) : B[i + 2] = CropFile(t[i].sighting)
  <2>1. /\ B \in Seq(File) /\ Len(B) = Len(A) + Len(Crops(t))
        /\ \A i \in 1..Len(A) + Len(Crops(t)) : B[i] = IF i <= Len(A) THEN A[i] ELSE Crops(t)[i - Len(A)]
    <3>1. A \in Seq(File) /\ Crops(t) \in Seq(File)
      BY <1>1, <1>4
    <3> QED BY <3>1, ConcatProperties, Zenon
  <2>2. \A i \in 1..Len(t) : i + 2 \in 1..Len(t) + 2 /\ (i + 2 > 2) /\ (i + 2) - 2 = i
    BY <1>5
  <2>3. 1 \in 1..Len(t) + 2 /\ 2 \in 1..Len(t) + 2
    BY <1>5
  <2>4. Len(A) + Len(Crops(t)) = Len(t) + 2
    BY <1>1, <1>4, <1>5
  <2>5. \A i \in 1..Len(t) + 2 : B[i] = IF i <= 2 THEN A[i] ELSE Crops(t)[i - 2]
    <3> HIDE DEF B
    <3> QED BY <1>4, <2>1, <2>4
  <2> HIDE DEF B
  <2>6. B \in Seq(File) /\ Len(B) = Len(t) + 2
    BY <2>1, <2>4
  <2>7. B[1] = Json /\ B[2] = Csv
    BY <1>4, <2>3, <2>5
  <2>8. ASSUME NEW i \in 1..Len(t) PROVE B[i + 2] = CropFile(t[i].sighting)
    <3>1. B[i + 2] = Crops(t)[i]
      BY <2>2, <2>5
    <3> QED BY <1>1, <3>1
  <2> QED BY <2>6, <2>7, <2>8
<1> HIDE DEF B
<1>7. Tasks(t) = B \o Closing
  BY DEF Tasks, A, B
<1>8. /\ (B \o Closing) \in Seq(File) /\ Len(B \o Closing) = Len(t) + 6
      /\ \A j \in 1..Len(t) + 2 : (B \o Closing)[j] = B[j]
      /\ \A k \in 1..4 : (B \o Closing)[Len(t) + 2 + k] = Closing[k]
  <2>1. /\ (B \o Closing) \in Seq(File) /\ Len(B \o Closing) = Len(B) + Len(Closing)
        /\ \A i \in 1..Len(B) + Len(Closing) : (B \o Closing)[i] = IF i <= Len(B) THEN B[i] ELSE Closing[i - Len(B)]
    BY <1>3, <1>6, ConcatProperties
  <2>2. \A k \in 1..4 : Len(t) + 2 + k \in 1..Len(t) + 6 /\ ~(Len(t) + 2 + k <= Len(t) + 2)
                        /\ (Len(t) + 2 + k) - (Len(t) + 2) = k
    BY <1>5
  <2>3. \A j \in 1..Len(t) + 2 : j \in 1..Len(t) + 6 /\ j <= Len(t) + 2
    BY <1>5
  <2> QED BY <1>3, <1>5, <1>6, <2>1, <2>2, <2>3
<1> QED BY <1>5, <1>6, <1>7, <1>8

(* No file is in the list twice, for no sighting is in a trace twice.      *)
LEMMA OneTaskEach ==
    ASSUME NEW t, IsTrace(t), NEW j \in 1..Len(t) + 6, NEW k \in 1..Len(t) + 6, Tasks(t)[j] = Tasks(t)[k]
    PROVE  j = k
<1>1. Len(t) \in Nat
  BY DEF IsTrace
<1>2. \A i \in 1..Len(t) + 6 : i = 1 \/ i = 2 \/ i - 2 \in 1..Len(t) \/ i - Len(t) - 2 \in 1..4
  BY <1>1
<1>3. \A x, y \in 1..Len(t) : t[x].sighting = t[y].sighting => x = y
  BY SightingAssumption DEF IsTrace
<1>4. \A i \in 1..Len(t) + 6 :
        /\ i = 1 => Tasks(t)[i] = Json
        /\ i = 2 => Tasks(t)[i] = Csv
        /\ i - 2 \in 1..Len(t) => Tasks(t)[i] = CropFile(t[i - 2].sighting)
        /\ i - Len(t) - 2 \in 1..4 => Tasks(t)[i] = Closing[i - Len(t) - 2]
  <2>1. TAKE i \in 1..Len(t) + 6
  <2>2. i - 2 \in 1..Len(t) => Tasks(t)[(i - 2) + 2] = CropFile(t[i - 2].sighting)
    BY TasksAre
  <2>3. i - Len(t) - 2 \in 1..4 => Tasks(t)[Len(t) + 2 + (i - Len(t) - 2)] = Closing[i - Len(t) - 2]
    BY TasksAre
  <2>4. (i - 2) + 2 = i /\ Len(t) + 2 + (i - Len(t) - 2) = i
    BY <1>1
  <2> QED BY <2>2, <2>3, <2>4, TasksAre
<1>5. \A x, y \in 1..4 : Closing[x] = Closing[y] => x = y
  <2>1. \A x \in 1..4 : x = 1 \/ x = 2 \/ x = 3 \/ x = 4
    OBVIOUS
  <2> QED BY <2>1, NamesDiffer
<1> DEFINE Kind(i) == IF i = 1 THEN 1 ELSE IF i = 2 THEN 2 ELSE IF i - 2 \in 1..Len(t) THEN 3 ELSE 4
<1>6. Kind(j) = Kind(k)
  <2>1. \A c \in 1..4 : Closing[c] \in Unlisted
    BY NamesDiffer
  <2>2. Json \notin Unlisted /\ Csv \notin Unlisted /\ Json # Csv
    BY NamesDiffer
  <2>3. \A s : CropFile(s) # Json /\ CropFile(s) # Csv /\ CropFile(s) \notin Unlisted
    BY NamesDiffer
  <2> HIDE DEF Unlisted, Json, Csv, CropFile, Closing
  <2>4. \A i \in 1..Len(t) + 6 :
          /\ Kind(i) = 1 => Tasks(t)[i] = Json
          /\ Kind(i) = 2 => Tasks(t)[i] = Csv
          /\ Kind(i) = 3 => \E s : Tasks(t)[i] = CropFile(s)
          /\ Kind(i) = 4 => Tasks(t)[i] \in Unlisted
    <3>1. TAKE i \in 1..Len(t) + 6
    <3>2. Kind(i) = 1 => i = 1
      OBVIOUS
    <3>3. Kind(i) = 2 => i = 2
      OBVIOUS
    <3>4. Kind(i) = 3 => i - 2 \in 1..Len(t)
      OBVIOUS
    <3>5. Kind(i) = 4 => i - Len(t) - 2 \in 1..4
      BY <1>2
    <3> HIDE DEF Kind
    <3> QED BY <1>4, <2>1, <3>2, <3>3, <3>4, <3>5
  <2>5. Kind(j) \in {1, 2, 3, 4} /\ Kind(k) \in {1, 2, 3, 4}
    OBVIOUS
  <2> HIDE DEF Kind
  <2> QED BY <2>2, <2>3, <2>4, <2>5
<1>7. CASE Kind(j) \in {1, 2}
  BY <1>6, <1>7
<1>8. CASE Kind(j) = 3
  <2>1. j - 2 \in 1..Len(t) /\ k - 2 \in 1..Len(t)
    BY <1>6, <1>8
  <2>2. CropFile(t[j - 2].sighting) = CropFile(t[k - 2].sighting)
    BY <1>4, <2>1
  <2>3. j - 2 = k - 2
    BY <1>3, <2>1, <2>2, NamesDiffer
  <2> QED BY <1>1, <2>3
<1>9. CASE Kind(j) = 4
  <2>1. j - Len(t) - 2 \in 1..4 /\ k - Len(t) - 2 \in 1..4
    BY <1>2, <1>6, <1>9
  <2>2. j - Len(t) - 2 = k - Len(t) - 2
    BY <1>4, <1>5, <2>1
  <2> QED BY <1>1, <2>2
<1> QED BY <1>7, <1>8, <1>9

-----------------------------------------------------------------------------
(* A file put down is the only one that changes.                           *)
LEMMA WithIs ==
    ASSUME NEW g, NEW f, NEW c
    PROVE  /\ DOMAIN With(g, f, c) = DOMAIN g \union {f}
           /\ With(g, f, c)[f] = c
           /\ \A x \in DOMAIN g : x # f => With(g, f, c)[x] = g[x]
BY DEF With

(* The file in hand is the first one not dealt with.                       *)
LEMMA NextTask ==
    ASSUME NEW t, IsTrace(t), NEW rest, NEW its, NEW oms, Half(t, rest, its, oms), rest # <<>>
    PROVE  /\ Past(t, rest) \in Nat /\ Past(t, Tail(rest)) = Past(t, rest) + 1
           /\ Past(t, Tail(rest)) \in 1..Len(t) + 6
           /\ Head(rest) = Tasks(t)[Past(t, Tail(rest))]
           /\ Tail(rest) \in Seq(File) /\ Len(Tail(rest)) <= Len(t) + 6
           /\ \A j \in 1..Len(Tail(rest)) : Tail(rest)[j] = Tasks(t)[Past(t, Tail(rest)) + j]
<1>1. Len(t) \in Nat
  BY DEF IsTrace
<1>2. /\ rest \in Seq(File) /\ Len(rest) <= Len(t) + 6
      /\ \A j \in 1..Len(rest) : rest[j] = Tasks(t)[Past(t, rest) + j]
  BY DEF Half
<1>3. /\ Tail(rest) \in Seq(File) /\ Len(Tail(rest)) = Len(rest) - 1
      /\ \A j \in 1..Len(Tail(rest)) : Tail(rest)[j] = rest[j + 1]
      /\ Head(rest) = rest[1] /\ Len(rest) \in Nat \ {0}
  <2>1. rest \in Seq(File) /\ rest # <<>>
    BY <1>2
  <2> HIDE DEF File
  <2> QED BY <2>1, HeadTailProperties
<1>4. Past(t, Tail(rest)) = Past(t, rest) + 1 /\ Past(t, rest) \in Nat
        /\ Past(t, Tail(rest)) \in 1..Len(t) + 6
  BY <1>1, <1>2, <1>3 DEF Past
<1>5. 1 \in 1..Len(rest)
  BY <1>3
<1>6. \A j \in 1..Len(Tail(rest)) : j + 1 \in 1..Len(rest) /\ (Past(t, rest) + (j + 1)) = (Past(t, rest) + 1) + j
  BY <1>3, <1>4
<1> QED BY <1>1, <1>2, <1>3, <1>4, <1>5, <1>6

(* Where in the list of files a file stands.                               *)
LEMMA WhereTasksAre ==
    ASSUME NEW t, IsTrace(t), NEW k \in 1..Len(t) + 6
    PROVE  /\ Tasks(t)[k] = Json <=> k = 1
           /\ Tasks(t)[k] = Csv <=> k = 2
           /\ \A i \in 1..Len(t) : Tasks(t)[k] = CropFile(t[i].sighting) <=> k = i + 2
           /\ Tasks(t)[k] \in Unlisted <=> k > Len(t) + 2
           /\ Tasks(t)[k] = ManifestFile <=> k = Len(t) + 3
           /\ Tasks(t)[k] = HashFile <=> k = Len(t) + 4
<1>1. Len(t) \in Nat
  BY DEF IsTrace
<1>2. /\ Tasks(t)[1] = Json /\ Tasks(t)[2] = Csv
      /\ \A i \in 1..Len(t) : Tasks(t)[i + 2] = CropFile(t[i].sighting)
      /\ \A j \in 1..4 : Tasks(t)[Len(t) + 2 + j] = Closing[j]
  BY TasksAre
<1>3. \A j \in 1..Len(t) + 6 : Tasks(t)[k] = Tasks(t)[j] => k = j
  BY OneTaskEach
<1>4. (Tasks(t)[k] = Json <=> k = 1) /\ (Tasks(t)[k] = Csv <=> k = 2)
  <2>1. 1 \in 1..Len(t) + 6 /\ 2 \in 1..Len(t) + 6
    BY <1>1
  <2> QED BY <1>2, <1>3, <2>1
<1>5. \A i \in 1..Len(t) : Tasks(t)[k] = CropFile(t[i].sighting) <=> k = i + 2
  <2>1. \A i \in 1..Len(t) : i + 2 \in 1..Len(t) + 6
    BY <1>1
  <2> QED BY <1>2, <1>3, <2>1
<1>6. (Tasks(t)[k] = ManifestFile <=> k = Len(t) + 3) /\ (Tasks(t)[k] = HashFile <=> k = Len(t) + 4)
  <2>1. Len(t) + 2 + 1 = Len(t) + 3 /\ Len(t) + 2 + 2 = Len(t) + 4
        /\ Len(t) + 3 \in 1..Len(t) + 6 /\ Len(t) + 4 \in 1..Len(t) + 6
    BY <1>1
  <2>2. Tasks(t)[Len(t) + 2 + 1] = ManifestFile /\ Tasks(t)[Len(t) + 2 + 2] = HashFile
    BY <1>2, NamesDiffer
  <2> QED BY <1>3, <2>1, <2>2
<1>7. Tasks(t)[k] \in Unlisted <=> k > Len(t) + 2
  <2>1. CASE k > Len(t) + 2
    <3>1. k - Len(t) - 2 \in 1..4 /\ Len(t) + 2 + (k - Len(t) - 2) = k
      BY <1>1, <2>1
    <3>2. Tasks(t)[k] = Closing[k - Len(t) - 2]
      BY <1>2, <3>1
    <3> QED BY <2>1, <3>1, <3>2, NamesDiffer
  <2>2. CASE ~(k > Len(t) + 2)
    <3>1. k = 1 \/ k = 2 \/ (k - 2 \in 1..Len(t) /\ (k - 2) + 2 = k)
      BY <1>1, <2>2
    <3>2. Tasks(t)[k] \in {Json, Csv} \/ \E s : Tasks(t)[k] = CropFile(s)
      BY <1>2, <3>1
    <3> QED BY <2>2, <3>2, NamesDiffer
  <2> QED BY <2>1, <2>2
<1> QED BY <1>4, <1>5, <1>6, <1>7

-----------------------------------------------------------------------------
(* Of a build half way: the first files are dealt with, the rest are not.  *)
LEMMA HalfStart ==
    ASSUME NEW t, IsTrace(t)
    PROVE  Half(t, Tasks(t), Empty, {})
<1>1. Len(t) \in Nat
  BY DEF IsTrace
<1>2. Tasks(t) \in Seq(File) /\ Len(Tasks(t)) = Len(t) + 6
  BY TasksAre
<1>3. Past(t, Tasks(t)) = 0
  BY <1>1, <1>2 DEF Past
<1>4. DOMAIN Empty = {}
  BY DEF Empty
<1>5. \A j \in 1..Len(Tasks(t)) : Past(t, Tasks(t)) + j = j
  BY <1>1, <1>2, <1>3
<1>6. \A i \in 1..Len(t) : ~(i + 2 <= Past(t, Tasks(t)))
  BY <1>1, <1>3
<1> HIDE DEF Tasks, Past, File, Empty
<1> QED BY <1>1, <1>2, <1>3, <1>4, <1>5, <1>6 DEF Half

(* A report written is a report listed.                                    *)
LEMMA HalfReport ==
    ASSUME NEW t, IsTrace(t), NEW rest, NEW its, NEW oms, Half(t, rest, its, oms), rest # <<>>,
           Head(rest) \in {Json, Csv}
    PROVE  Half(t, Tail(rest), With(its, Head(rest), <<t>>), oms)
<1> DEFINE k == Past(t, Tail(rest))
           f == Head(rest)
           new == With(its, f, <<t>>)
<1>1. Len(t) \in Nat
  BY DEF IsTrace
<1>2. /\ k \in 1..Len(t) + 6 /\ Past(t, rest) = k - 1 /\ f = Tasks(t)[k]
      /\ Tail(rest) \in Seq(File) /\ Len(Tail(rest)) <= Len(t) + 6
      /\ \A j \in 1..Len(Tail(rest)) : Tail(rest)[j] = Tasks(t)[k + j]
  BY NextTask
<1>3. (f = Json <=> k = 1) /\ (f = Csv <=> k = 2)
  BY <1>2, WhereTasksAre
<1>4. k \in {1, 2} /\ f \in {Json, Csv}
  BY <1>3
<1>5. DOMAIN new = DOMAIN its \union {f} /\ new[f] = <<t>> /\ \A x \in DOMAIN its : x # f => new[x] = its[x]
  <2> HIDE DEF f
  <2> QED BY DEF With
<1>6. /\ \A x \in DOMAIN its : \E j \in 1..Len(t) + 2 : j <= k - 1 /\ x = Tasks(t)[j]
      /\ k - 1 >= 1 => Json \in DOMAIN its /\ its[Json] = <<t>>
  BY <1>2 DEF Half
<1>7. \A s \in oms : \E i \in 1..Len(t) : i + 2 <= k - 1
  BY <1>2 DEF Half
<1> HIDE DEF k, f, new
<1>8. \A x \in DOMAIN new : \E j \in 1..Len(t) + 2 : j <= k /\ x = Tasks(t)[j]
  <2>1. k \in 1..Len(t) + 2
    BY <1>1, <1>4
  <2>2. \A j \in 1..Len(t) + 2 : j <= k - 1 => j <= k
    BY <1>1, <1>4
  <2> QED BY <1>2, <1>4, <1>5, <1>6, <2>1, <2>2
<1>9. (k >= 1 => Json \in DOMAIN new /\ new[Json] = <<t>>) /\ (k >= 2 => Csv \in DOMAIN new /\ new[Csv] = <<t>>)
  BY <1>3, <1>4, <1>5, <1>6
<1>10. \A i \in 1..Len(t) : ~(i + 2 <= k)
  BY <1>1, <1>4
<1>11. oms = {}
  <2>1. \A i \in 1..Len(t) : ~(i + 2 <= k - 1)
    BY <1>1, <1>4
  <2> QED BY <1>7, <2>1
<1> HIDE DEF File, Tasks
<1>12. Half(t, Tail(rest), new, oms)
  BY <1>1, <1>2, <1>8, <1>9, <1>10, <1>11 DEF Half, k
<1> QED BY <1>12 DEF new, f

(* A crop is listed, or its sighting is an omission, and nothing else of   *)
(* that sighting is either.                                                *)
LEMMA HalfCrop ==
    ASSUME NEW t, IsTrace(t), NEW rest, NEW its, NEW oms, Half(t, rest, its, oms), rest # <<>>,
           NEW e \in Range(t), Head(rest) = CropFile(e.sighting), NEW c
    PROVE  /\ Past(t, Tail(rest)) <= Len(t) + 2
           /\ Half(t, Tail(rest), With(its, Head(rest), c), oms)
           /\ Half(t, Tail(rest), its, oms \union {e.sighting})
<1> DEFINE k == Past(t, Tail(rest))
           f == Head(rest)
           new == With(its, f, c)
<1>1. Len(t) \in Nat /\ t \in Seq(Entry)
  BY DEF IsTrace
<1>2. /\ k \in 1..Len(t) + 6 /\ Past(t, rest) = k - 1 /\ f = Tasks(t)[k]
      /\ Tail(rest) \in Seq(File) /\ Len(Tail(rest)) <= Len(t) + 6
      /\ \A j \in 1..Len(Tail(rest)) : Tail(rest)[j] = Tasks(t)[k + j]
  BY NextTask
<1>3. PICK n \in 1..Len(t) : e = t[n]
  BY <1>1 DEF Range
<1>4. k = n + 2
  BY <1>2, <1>3, WhereTasksAre
<1>5. DOMAIN new = DOMAIN its \union {f} /\ new[f] = c /\ \A x \in DOMAIN its : x # f => new[x] = its[x]
  <2> HIDE DEF f
  <2> QED BY DEF With
<1>6. /\ \A x \in DOMAIN its : \E j \in 1..Len(t) + 2 : j <= k - 1 /\ x = Tasks(t)[j]
      /\ k - 1 >= 1 => Json \in DOMAIN its /\ its[Json] = <<t>>
      /\ k - 1 >= 2 => Csv \in DOMAIN its /\ its[Csv] = <<t>>
      /\ \A i \in 1..Len(t) : i + 2 <= k - 1 =>
            (CropFile(t[i].sighting) \in DOMAIN its) # (t[i].sighting \in oms)
      /\ \A s \in oms : \E i \in 1..Len(t) : i + 2 <= k - 1 /\ s = t[i].sighting
  BY <1>2 DEF Half
<1>7. f \notin DOMAIN its
  <2>1. \A j \in 1..Len(t) + 2 : j <= k - 1 => Tasks(t)[k] # Tasks(t)[j]
    <3>1. TAKE j \in 1..Len(t) + 2
    <3>2. HAVE j <= k - 1
    <3>3. j \in 1..Len(t) + 6 /\ j # k
      BY <1>1, <1>2, <3>2
    <3> QED BY <1>2, <3>3, OneTaskEach
  <2> QED BY <1>2, <1>6, <2>1
<1>8. \A i \in 1..Len(t) : t[i].sighting = e.sighting => i = n
  BY <1>3, SightingAssumption DEF IsTrace
<1>9. e.sighting \notin oms
  <2>1. \A i \in 1..Len(t) : i + 2 <= k - 1 => i # n
    BY <1>1, <1>4
  <2> QED BY <1>6, <1>8, <2>1
<1>10. f = CropFile(t[n].sighting) /\ e.sighting = t[n].sighting
  BY <1>3
<1>11. \A i \in 1..Len(t) : i # n => CropFile(t[i].sighting) # f /\ t[i].sighting # e.sighting
  BY <1>8, <1>10, NamesDiffer
<1>12. f # Json /\ f # Csv
  BY <1>10, NamesDiffer
<1> HIDE DEF k, f, new
<1>13. k \in 3..Len(t) + 2
  BY <1>1, <1>4
<1>14. \A i \in 1..Len(t) : i + 2 <= k <=> i = n \/ i + 2 <= k - 1
  BY <1>1, <1>4
<1> HIDE DEF File, Tasks, CropFile, Json, Csv
<1>15. Half(t, Tail(rest), new, oms)
  <2>1. \A x \in DOMAIN new : \E j \in 1..Len(t) + 2 : j <= k /\ x = Tasks(t)[j]
    <3>1. k \in 1..Len(t) + 2
      BY <1>1, <1>13
    <3>2. \A j \in 1..Len(t) + 2 : j <= k - 1 => j <= k
      BY <1>1, <1>13
    <3>3. k <= k /\ f = Tasks(t)[k]
      BY <1>2, <1>13
    <3>4. \A x \in DOMAIN new : x \in DOMAIN its \/ x = f
      BY <1>5
    <3> QED BY <1>6, <3>1, <3>2, <3>3, <3>4, Zenon
  <2>2. (Json \in DOMAIN new /\ new[Json] = <<t>>) /\ (Csv \in DOMAIN new /\ new[Csv] = <<t>>)
    BY <1>5, <1>6, <1>12, <1>13
  <2>3. \A i \in 1..Len(t) : i + 2 <= k =>
            (CropFile(t[i].sighting) \in DOMAIN new) # (t[i].sighting \in oms)
    <3>1. TAKE i \in 1..Len(t)
    <3>2. CASE i = n
      BY <1>5, <1>9, <1>10, <3>2
    <3>3. CASE i # n
      BY <1>5, <1>6, <1>11, <1>14, <3>3
    <3> QED BY <3>2, <3>3
  <2>4. \A s \in oms : \E i \in 1..Len(t) : i + 2 <= k /\ s = t[i].sighting
    BY <1>6, <1>14
  <2> QED BY <1>2, <2>1, <2>2, <2>3, <2>4 DEF Half, k
<1>16. Half(t, Tail(rest), its, oms \union {e.sighting})
  <2> DEFINE more == oms \union {e.sighting}
  <2>1. \A x \in DOMAIN its : \E j \in 1..Len(t) + 2 : j <= k /\ x = Tasks(t)[j]
    <3>1. \A j \in 1..Len(t) + 2 : j <= k - 1 => j <= k
      BY <1>1, <1>13
    <3> QED BY <1>6, <3>1
  <2>2. (Json \in DOMAIN its /\ its[Json] = <<t>>) /\ (Csv \in DOMAIN its /\ its[Csv] = <<t>>)
    BY <1>6, <1>13
  <2>3. \A i \in 1..Len(t) : i + 2 <= k =>
            (CropFile(t[i].sighting) \in DOMAIN its) # (t[i].sighting \in more)
    <3>1. TAKE i \in 1..Len(t)
    <3>2. CASE i = n
      BY <1>7, <1>10, <3>2
    <3>3. CASE i # n
      BY <1>6, <1>11, <1>14, <3>3
    <3> QED BY <3>2, <3>3
  <2>4. \A s \in more : \E i \in 1..Len(t) : i + 2 <= k /\ s = t[i].sighting
    BY <1>6, <1>10, <1>14
  <2> HIDE DEF more
  <2>5. Half(t, Tail(rest), its, more)
    BY <1>2, <2>1, <2>2, <2>3, <2>4 DEF Half, k
  <2> QED BY <2>5 DEF more
<1> QED BY <1>13, <1>15, <1>16 DEF k, f, new

(* Once only the closing files are left, items and omissions account for   *)
(* the whole trace.                                                        *)
LEMMA HalfWhole ==
    ASSUME NEW t, IsTrace(t), NEW rest, NEW its, NEW oms, Half(t, rest, its, oms),
           Past(t, rest) >= Len(t) + 2
    PROVE  /\ Json \in DOMAIN its /\ its[Json] = <<t>>
           /\ Csv \in DOMAIN its /\ its[Csv] = <<t>>
           /\ DOMAIN its \intersect Unlisted = {}
           /\ \A e \in Range(t) : (CropFile(e.sighting) \in DOMAIN its) # (e.sighting \in oms)
<1>1. Len(t) \in Nat /\ t \in Seq(Entry) /\ Len(rest) \in Nat
  BY DEF IsTrace, Half
<1>2. Past(t, rest) \in Int
  BY <1>1 DEF Past
<1>3. \A e \in Range(t) : (CropFile(e.sighting) \in DOMAIN its) # (e.sighting \in oms)
  <2>1. \A i \in 1..Len(t) : i + 2 <= Past(t, rest)
    BY <1>1, <1>2
  <2>2. \A e \in Range(t) : \E i \in 1..Len(t) : e = t[i]
    BY <1>1 DEF Range
  <2> QED BY <2>1, <2>2 DEF Half
<1>4. Past(t, rest) >= 1 /\ Past(t, rest) >= 2
  BY <1>1, <1>2
<1>5. DOMAIN its \intersect Unlisted = {}
  <2>1. \A j \in 1..Len(t) + 2 : j \in 1..Len(t) + 6 /\ ~(j > Len(t) + 2)
    BY <1>1
  <2>2. \A j \in 1..Len(t) + 2 : Tasks(t)[j] \notin Unlisted
    BY <2>1, WhereTasksAre
  <2> QED BY <2>2 DEF Half
<1> QED BY <1>3, <1>4, <1>5 DEF Half

(* The closing files come last and are not listed.                         *)
LEMMA HalfClosing ==
    ASSUME NEW t, IsTrace(t), NEW rest, NEW its, NEW oms, Half(t, rest, its, oms), rest # <<>>,
           Head(rest) \in Unlisted
    PROVE  Past(t, rest) >= Len(t) + 2 /\ Half(t, Tail(rest), its, oms)
<1> DEFINE k == Past(t, Tail(rest))
<1>1. Len(t) \in Nat
  BY DEF IsTrace
<1>2. /\ k \in 1..Len(t) + 6 /\ Past(t, rest) = k - 1 /\ Head(rest) = Tasks(t)[k]
      /\ Tail(rest) \in Seq(File) /\ Len(Tail(rest)) <= Len(t) + 6
      /\ \A j \in 1..Len(Tail(rest)) : Tail(rest)[j] = Tasks(t)[k + j]
  <2>1. Past(t, Tail(rest)) = Past(t, rest) + 1 /\ Past(t, rest) \in Nat
    BY NextTask
  <2>2. Past(t, rest) = k - 1
    BY <2>1
  <2> QED BY <2>2, NextTask
<1>3. k > Len(t) + 2
  BY <1>2, WhereTasksAre
<1> HIDE DEF k
<1>4. k - 1 >= Len(t) + 2 /\ k - 1 >= 1 /\ k - 1 >= 2
  BY <1>1, <1>2, <1>3
<1>5. \A j \in 1..Len(t) + 2 : j <= k
  BY <1>1, <1>2, <1>3
<1>6. \A i \in 1..Len(t) : i + 2 <= k /\ i + 2 <= k - 1
  BY <1>1, <1>2, <1>3
<1>7. /\ \A x \in DOMAIN its : \E j \in 1..Len(t) + 2 : x = Tasks(t)[j]
      /\ k - 1 >= 1 => Json \in DOMAIN its /\ its[Json] = <<t>>
      /\ k - 1 >= 2 => Csv \in DOMAIN its /\ its[Csv] = <<t>>
      /\ \A i \in 1..Len(t) : i + 2 <= k - 1 =>
            (CropFile(t[i].sighting) \in DOMAIN its) # (t[i].sighting \in oms)
      /\ \A s \in oms : \E i \in 1..Len(t) : s = t[i].sighting
  BY <1>2 DEF Half
<1> HIDE DEF File, Tasks, CropFile, Json, Csv
<1> QED BY <1>2, <1>4, <1>5, <1>6, <1>7 DEF Half, k

-----------------------------------------------------------------------------
(* Of a directory that one build alone writes to.                          *)
LEMMA HereStart ==
    ASSUME NEW t, IsTrace(t), NEW g, DOMAIN g = {}, NEW m
    PROVE  Here(g, m, t, Tasks(t), Empty)
<1>1. Len(t) \in Nat /\ Len(Tasks(t)) = Len(t) + 6
  BY TasksAre DEF IsTrace
<1>2. Past(t, Tasks(t)) = 0
  BY <1>1 DEF Past
<1>3. DOMAIN Empty = {}
  BY DEF Empty
<1>4. {Tasks(t)[j] : j \in Len(t) + 3 .. 0} = {} /\ ~(0 >= Len(t) + 3) /\ ~(0 >= Len(t) + 4)
  BY <1>1
<1> HIDE DEF Tasks, Empty, Past
<1> QED BY <1>2, <1>3, <1>4 DEF Here

(* A listed file leaves the directory and the items in agreement.          *)
LEMMA HereAdd ==
    ASSUME NEW t, IsTrace(t), NEW rest, NEW its, NEW oms, Half(t, rest, its, oms), rest # <<>>,
           Past(t, Tail(rest)) <= Len(t) + 2,
           NEW g, NEW m, Here(g, m, t, rest, its), NEW c, NEW n
    PROVE  /\ Here(With(g, Head(rest), c), n, t, Tail(rest), With(its, Head(rest), c))
           /\ Here(g, n, t, Tail(rest), its)
<1> DEFINE k == Past(t, Tail(rest))
           f == Head(rest)
<1>1. Len(t) \in Nat
  BY DEF IsTrace
<1>2. k \in 1..Len(t) + 6 /\ Past(t, rest) = k - 1
  BY NextTask
<1> HIDE DEF k
<1>3. k <= Len(t) + 2
  BY DEF k
<1>4. /\ {Tasks(t)[j] : j \in Len(t) + 3 .. k} = {} /\ {Tasks(t)[j] : j \in Len(t) + 3 .. k - 1} = {}
      /\ ~(k >= Len(t) + 3) /\ ~(k >= Len(t) + 4)
  BY <1>1, <1>2, <1>3
<1> HIDE DEF Tasks
<1>5. DOMAIN g = DOMAIN its /\ \A x \in DOMAIN its : g[x] = its[x]
  BY <1>2, <1>4 DEF Here
<1>6. /\ DOMAIN With(g, f, c) = DOMAIN With(its, f, c)
      /\ \A x \in DOMAIN With(its, f, c) : With(g, f, c)[x] = With(its, f, c)[x]
  BY <1>5 DEF With
<1>7. Here(With(g, f, c), n, t, Tail(rest), With(its, f, c))
  BY <1>4, <1>6 DEF Here, k
<1>8. Here(g, n, t, Tail(rest), its)
  BY <1>4, <1>5 DEF Here, k
<1> QED BY <1>7, <1>8

(* Of the closing files, the manifest and its digest hold the manifest.    *)
LEMMA HereClosing ==
    ASSUME NEW t, IsTrace(t), NEW rest, NEW its, NEW oms, Half(t, rest, its, oms), rest # <<>>,
           Head(rest) \in Unlisted,
           NEW g, NEW m, Here(g, m, t, rest, its)
    PROVE  Here(With(g, Head(rest), <<IF Head(rest) \in {ManifestFile, HashFile} THEN m ELSE Head(rest)>>),
                m, t, Tail(rest), its)
<1> DEFINE k == Past(t, Tail(rest))
           f == Head(rest)
           c == <<IF f \in {ManifestFile, HashFile} THEN m ELSE f>>
           new == With(g, f, c)
<1>1. Len(t) \in Nat
  BY DEF IsTrace
<1>2. k \in 1..Len(t) + 6 /\ Past(t, rest) = k - 1 /\ f = Tasks(t)[k]
  BY NextTask
<1>3. /\ k > Len(t) + 2
      /\ f = ManifestFile <=> k = Len(t) + 3
      /\ f = HashFile <=> k = Len(t) + 4
  BY <1>2, WhereTasksAre
<1>4. f \notin DOMAIN its /\ ManifestFile # HashFile
  BY HalfClosing, HalfWhole, NamesDiffer
<1>5. DOMAIN new = DOMAIN g \union {f} /\ new[f] = c /\ \A x \in DOMAIN g : x # f => new[x] = g[x]
  BY DEF With
<1> HIDE DEF k, new, c, f
<1>6. /\ DOMAIN g = DOMAIN its \union {Tasks(t)[j] : j \in Len(t) + 3 .. k - 1}
      /\ \A x \in DOMAIN its : g[x] = its[x]
      /\ k - 1 >= Len(t) + 3 => g[ManifestFile] = <<m>>
      /\ k - 1 >= Len(t) + 4 => g[HashFile] = <<m>>
  BY <1>2 DEF Here
<1> HIDE DEF Tasks, ManifestFile, HashFile
<1>7. Len(t) + 3 .. k = (Len(t) + 3 .. k - 1) \union {k}
  BY <1>1, <1>2, <1>3
<1>8. DOMAIN new = DOMAIN its \union {Tasks(t)[j] : j \in Len(t) + 3 .. k}
  BY <1>2, <1>5, <1>6, <1>7
<1>9. \A x \in DOMAIN its : new[x] = its[x]
  BY <1>4, <1>5, <1>6
<1>10. ASSUME k >= Len(t) + 3 PROVE new[ManifestFile] = <<m>>
  <2>1. CASE k = Len(t) + 3
    BY <1>3, <1>5, <2>1 DEF c
  <2>2. CASE k # Len(t) + 3
    <3>1. k - 1 >= Len(t) + 3 /\ f # ManifestFile
      BY <1>1, <1>2, <1>3, <1>10, <2>2
    <3>2. ManifestFile \in DOMAIN g
      <4>1. Len(t) + 3 \in Len(t) + 3 .. k - 1
        BY <1>1, <1>2, <3>1
      <4>2. Len(t) + 3 \in 1..Len(t) + 6
        BY <1>1
      <4>3. Tasks(t)[Len(t) + 3] = ManifestFile
        BY <4>2, WhereTasksAre
      <4> QED BY <1>6, <4>1, <4>3
    <3> QED BY <1>5, <1>6, <3>1, <3>2
  <2> QED BY <2>1, <2>2
<1>11. ASSUME k >= Len(t) + 4 PROVE new[HashFile] = <<m>>
  <2>1. CASE k = Len(t) + 4
    BY <1>3, <1>5, <2>1 DEF c
  <2>2. CASE k # Len(t) + 4
    <3>1. k - 1 >= Len(t) + 4 /\ f # HashFile
      BY <1>1, <1>2, <1>3, <1>11, <2>2
    <3>2. HashFile \in DOMAIN g
      <4>1. Len(t) + 4 \in Len(t) + 3 .. k - 1
        BY <1>1, <1>2, <3>1
      <4>2. Len(t) + 4 \in 1..Len(t) + 6
        BY <1>1
      <4>3. Tasks(t)[Len(t) + 4] = HashFile
        BY <4>2, WhereTasksAre
      <4> QED BY <1>6, <4>1, <4>3
    <3> QED BY <1>5, <1>6, <3>1, <3>2
  <2> QED BY <2>1, <2>2
<1> QED BY <1>8, <1>9, <1>10, <1>11 DEF Here, k, new, c, f

-----------------------------------------------------------------------------
(* Nothing is written yet.                                                 *)
LEMMA InvInit == Init => ExportInv
<1> SUFFICES ASSUME Init PROVE ExportInv
  OBVIOUS
<1>1. \A b \in Build : pc[b] = "idle" /\ job[b] = Idle /\ items[b] = Empty /\ omissions[b] = {}
  BY DEF Init
<1>2. \A d \in Dir : disk[d] = Empty /\ DOMAIN Empty = {}
  BY DEF Init, Empty
<1>3. TypeInv
  <2>1. clock \in 0..MaxClock /\ known \in 0..Len(Sightings)
    BY SightingAssumption, BoundsAssumption DEF Init
  <2>2. crop \in [Range(Sightings) -> 0..MaxVersion]
    BY BoundsAssumption DEF Init
  <2>3. Idle \in Job
    BY DEF Idle, Job
  <2>4. job \in [Build -> Job] /\ DOMAIN disk = Dir /\ DOMAIN todo = Build /\ DOMAIN items = Build
    BY <2>3 DEF Init
  <2>5. /\ audit \in Seq([build : Build, case : CaseRef, resultCount : Nat])
        /\ omissions \in [Build -> SUBSET Range(Sightings)]
        /\ pc \in [Build -> {"idle", "authorise", "tip", "write", "done", "failed"}]
    BY DEF Init
  <2> QED BY <2>1, <2>2, <2>4, <2>5 DEF TypeInv
<1>4. JobInv
  BY <1>1 DEF JobInv
<1>5. WriteInv /\ AloneInv
  BY <1>1 DEF WriteInv, AloneInv
<1>6. ManifestInv /\ OwnInv
  BY <1>2 DEF ManifestInv, OwnInv
<1> QED BY <1>3, <1>4, <1>5, <1>6 DEF ExportInv

(* Time, sightings and crops are not part of what the invariant relates.   *)
LEMMA NothingMoves ==
    ASSUME ExportInv, TypeInv', UNCHANGED <<audit, disk, bundles, pc, job, todo, items, omissions>>
    PROVE  ExportInv'
<1>1. JobInv'
  BY DEF ExportInv, JobInv
<1>2. WriteInv'
  BY DEF ExportInv, WriteInv, Manifest
<1>3. ManifestInv'
  BY DEF ExportInv, ManifestInv, Genuine
<1>4. OwnInv'
  BY DEF ExportInv, OwnInv
<1>5. AloneInv'
  BY DEF ExportInv, AloneInv, Alone, Manifest
<1> QED BY <1>1, <1>2, <1>3, <1>4, <1>5 DEF ExportInv

(* A build that is alone after a step was alone before it.                 *)
LEMMA StillAlone ==
    ASSUME NEW b \in Build, pc[b] # "idle", Alone(b)',
           \A c \in Build : pc[c] # "idle" => pc'[c] # "idle" /\ job'[c].dir = job[c].dir
    PROVE  Alone(b)
BY DEF Alone

(* A build puts one file down, or leaves one out.                          *)
LEMMA OneFile ==
    ASSUME ExportInv, NEW b \in Build, pc[b] = "write",
           UNCHANGED <<clock, known, crop, audit, bundles, pc, job>>,
           TypeInv',
           \A c \in Build \ {b} : todo'[c] = todo[c] /\ items'[c] = items[c] /\ omissions'[c] = omissions[c],
           Half(job[b].trace, todo'[b], items'[b], omissions'[b]),
           \A d \in Dir : d # job[b].dir => disk'[d] = disk[d],
           Here(disk[job[b].dir], Manifest(b), job[b].trace, todo[b], items[b])
             => Here(disk'[job[b].dir], Manifest(b)', job[b].trace, todo'[b], items'[b]),
           LET g == disk'[job[b].dir] IN
             ManifestFile \in DOMAIN g /\ g[ManifestFile] # Torn => Genuine(g[ManifestFile][1])
    PROVE  ExportInv'
<1>1. JobInv'
  BY DEF ExportInv, JobInv
<1>2. WriteInv'
  <2>1. SUFFICES ASSUME NEW c \in Build
        PROVE  /\ pc'[c] \in {"write", "done"} => Half(job'[c].trace, todo'[c], items'[c], omissions'[c])
               /\ pc'[c] = "done" => todo'[c] = <<>> /\ Manifest(c)' \in bundles'
    BY DEF WriteInv
  <2>2. CASE c = b
    BY <2>2
  <2>3. CASE c # b
    BY <2>3 DEF ExportInv, WriteInv, Manifest
  <2> QED BY <2>2, <2>3
<1>3. ManifestInv'
  <2>1. \A m : Genuine(m)' <=> Genuine(m)
    BY DEF Genuine
  <2>2. \A d \in Dir : ManifestFile \in DOMAIN disk'[d] /\ disk'[d][ManifestFile] # Torn
            => Genuine(disk'[d][ManifestFile][1])
    BY DEF ExportInv, ManifestInv
  <2> QED BY <2>1, <2>2 DEF ManifestInv
<1>4. OwnInv'
  <2>1. SUFFICES ASSUME NEW d \in Dir, DOMAIN disk'[d] # {}
        PROVE  \E c \in Build : pc'[c] # "idle" /\ job'[c].dir = d
    BY DEF OwnInv, Dir
  <2>2. CASE d = job[b].dir
    BY <2>2
  <2>3. CASE d # job[b].dir
    BY <2>1, <2>3 DEF ExportInv, OwnInv
  <2> QED BY <2>2, <2>3
<1>5. AloneInv'
  <2>1. SUFFICES ASSUME NEW c \in Build, Alone(c)'
        PROVE  /\ pc'[c] \in {"authorise", "tip"} => DOMAIN disk'[job'[c].dir] = {}
               /\ pc'[c] \in {"write", "done"} =>
                     Here(disk'[job'[c].dir], Manifest(c)', job'[c].trace, todo'[c], items'[c])
    BY DEF AloneInv
  <2>2. Alone(c)
    BY <2>1 DEF Alone
  <2>3. CASE c = b
    BY <2>2, <2>3 DEF ExportInv, AloneInv
  <2>4. CASE c # b
    <3>1. job[c].dir # job[b].dir
      BY <2>2, <2>4 DEF Alone
    <3>2. pc[c] # "idle" => job[c].dir \in Dir
      BY DEF ExportInv, JobInv
    <3>3. pc[c] # "idle" => disk'[job[c].dir] = disk[job[c].dir]
      BY <3>1, <3>2
    <3>4. Manifest(c)' = Manifest(c)
      BY <2>4 DEF Manifest
    <3> QED BY <2>2, <2>4, <3>3, <3>4 DEF ExportInv, AloneInv
  <2> QED BY <2>3, <2>4
<1> QED BY <1>1, <1>2, <1>3, <1>4, <1>5 DEF ExportInv

(* What a manifest says when only the closing files are left.              *)
LEMMA ManifestIsGenuine ==
    ASSUME ExportInv, NEW b \in Build, pc[b] = "write",
           Past(job[b].trace, todo[b]) >= Len(job[b].trace) + 2
    PROVE  Genuine(Manifest(b))
<1> DEFINE t == job[b].trace
           its == items[b]
<1>1. IsTrace(t) /\ Half(t, todo[b], its, omissions[b])
  BY DEF ExportInv, JobInv, WriteInv
<1>2. /\ job[b].entry \in DOMAIN audit /\ job[b].entry <= job[b].tip
      /\ audit[job[b].entry] = [build |-> b, case |-> job[b].case, resultCount |-> Len(t)]
  BY DEF ExportInv, JobInv
<1>3. /\ Json \in DOMAIN its /\ its[Json] = <<t>>
      /\ Csv \in DOMAIN its /\ its[Csv] = <<t>>
      /\ DOMAIN its \intersect Unlisted = {}
      /\ \A e \in Range(t) : (CropFile(e.sighting) \in DOMAIN its) # (e.sighting \in omissions[b])
  BY <1>1, HalfWhole
<1>4. /\ Manifest(b).items = its /\ Manifest(b).omissions = omissions[b]
      /\ Manifest(b).entry = job[b].entry /\ Manifest(b).tip = job[b].tip
      /\ Manifest(b).build = b /\ Manifest(b).case = job[b].case /\ Manifest(b).sightings = Len(t)
  BY DEF Manifest
<1> HIDE DEF t, its, Json, Csv, CropFile, Unlisted
<1> DEFINE m == Manifest(b)
<1>5. <<t>>[1] = t
  OBVIOUS
<1>6. m.items[Json] = <<t>> /\ m.items[Csv] = <<t>> /\ m.items[Json][1] = t
  BY <1>3, <1>4, <1>5
<1> HIDE DEF m
<1>7. Genuine(m)
  BY <1>2, <1>3, <1>4, <1>6 DEF Genuine, t, m
<1> QED BY <1>7 DEF m

-----------------------------------------------------------------------------
(* The clock ticks, a sighting lands or a crop is stored.                  *)
LEMMA EnvironmentStep ==
    ASSUME ExportInv, Tick \/ Land \/ \E s \in Range(Sightings) : StoreCrop(s)
    PROVE  ExportInv'
<1>1. UNCHANGED <<audit, disk, bundles, pc, job, todo, items, omissions>>
  BY DEF Tick, Land, StoreCrop
<1>2. clock' \in 0..MaxClock /\ known' \in 0..Len(Sightings) /\ crop' \in [Range(Sightings) -> 0..MaxVersion]
  <2>1. clock \in 0..MaxClock /\ known \in 0..Len(Sightings) /\ crop \in [Range(Sightings) -> 0..MaxVersion]
    BY DEF ExportInv, TypeInv
  <2>2. MaxClock \in Nat /\ MaxVersion \in Nat /\ Len(Sightings) \in Nat
    BY SightingAssumption, BoundsAssumption
  <2>3. CASE Tick
    BY <2>1, <2>2, <2>3 DEF Tick
  <2>4. CASE Land
    BY <2>1, <2>2, <2>4 DEF Land
  <2>5. CASE \E s \in Range(Sightings) : StoreCrop(s)
    BY <2>1, <2>2, <2>5 DEF StoreCrop
  <2> QED BY <2>3, <2>4, <2>5
<1>3. TypeInv'
  BY <1>1, <1>2 DEF ExportInv, TypeInv, Dir, Job
<1> QED BY <1>1, <1>3, NothingMoves

(* A build begins: if it is alone its directory has no owner, so no file.  *)
LEMMA BeginStep ==
    ASSUME ExportInv, NEW b \in Build, NEW c \in CaseRef, Begin(b, c)
    PROVE  ExportInv'
<1> DEFINE t == [i \in 1..known |-> [sighting |-> Sightings[i], crop |-> crop[Sightings[i]] > 0]]
           d == <<Slug[c], clock>>
<1>1. known \in 0..Len(Sightings) /\ crop \in [Range(Sightings) -> 0..MaxVersion] /\ clock \in 0..MaxClock
        /\ Sightings \in Seq(Range(Sightings)) /\ Len(Sightings) \in Nat
        /\ pc \in [Build -> {"idle", "authorise", "tip", "write", "done", "failed"}]
        /\ job \in [Build -> Job]
  BY SightingAssumption DEF ExportInv, TypeInv
<1>2. IsTrace(t) /\ t \in Seq(Entry)
  <2>1. \A i \in 1..known : Sightings[i] \in Range(Sightings)
    BY <1>1
  <2>2. \A i \in 1..known : [sighting |-> Sightings[i], crop |-> crop[Sightings[i]] > 0] \in Entry
    BY <1>1, <2>1 DEF Entry
  <2>3. t \in [1..known -> Entry] /\ known \in Nat
    BY <1>1, <2>2
  <2>4. \A i \in 1..known : t[i].sighting = Sightings[i]
    OBVIOUS
  <2> HIDE DEF t, Entry
  <2>5. t \in Seq(Entry) /\ Len(t) = known
    BY <2>3
  <2> QED BY <1>1, <2>4, <2>5 DEF IsTrace
<1>3. d \in Dir
  BY <1>1, SlugAssumption DEF Dir, Range
<1> DEFINE j == [Idle EXCEPT !.case = c, !.dir = d, !.trace = t]
<1>4. /\ pc' = [pc EXCEPT ![b] = "authorise"] /\ job' = [job EXCEPT ![b] = j]
      /\ pc[b] = "idle" /\ UNCHANGED <<clock, known, crop, audit, bundles, disk, todo, items, omissions>>
  BY DEF Begin
<1> HIDE DEF t, d
<1>5. j.case = c /\ j.dir = d /\ j.trace = t /\ j \in Job
  BY <1>2, <1>3 DEF Idle, Job
<1> HIDE DEF j
<1>6. /\ pc'[b] = "authorise" /\ job'[b] = j
      /\ \A x \in Build \ {b} : pc'[x] = pc[x] /\ job'[x] = job[x]
  BY <1>1, <1>4
<1>7. TypeInv'
  BY <1>1, <1>4, <1>5 DEF ExportInv, TypeInv, Dir, Job
<1>8. JobInv'
  BY <1>2, <1>3, <1>4, <1>5, <1>6 DEF ExportInv, JobInv, Dir
<1>9. WriteInv'
  BY <1>4, <1>6 DEF ExportInv, WriteInv, Manifest
<1>10. ManifestInv'
  BY <1>4 DEF ExportInv, ManifestInv, Genuine
<1>11. OwnInv'
  BY <1>4, <1>6 DEF ExportInv, OwnInv
<1>12. AloneInv'
  <2>1. SUFFICES ASSUME NEW x \in Build, Alone(x)'
        PROVE  /\ pc'[x] \in {"authorise", "tip"} => DOMAIN disk'[job'[x].dir] = {}
               /\ pc'[x] \in {"write", "done"} =>
                     Here(disk'[job'[x].dir], Manifest(x)', job'[x].trace, todo'[x], items'[x])
    BY DEF AloneInv
  <2>2. CASE x = b
    <3>1. \A y \in Build : pc[y] # "idle" => job[y].dir # d
      BY <1>4, <1>5, <1>6, <2>1, <2>2 DEF Alone
    <3>2. DOMAIN disk[d] = {}
      BY <1>3, <3>1 DEF ExportInv, OwnInv
    <3> QED BY <1>4, <1>5, <1>6, <2>2, <3>2
  <2>3. CASE x # b /\ pc[x] # "idle"
    <3>1. Alone(x)
      BY <1>4, <1>6, <2>1, <2>3, StillAlone
    <3>2. Manifest(x)' = Manifest(x)
      BY <1>4, <1>6, <2>3 DEF Manifest
    <3> QED BY <1>4, <1>6, <2>3, <3>1, <3>2 DEF ExportInv, AloneInv
  <2>4. CASE x # b /\ pc[x] = "idle"
    BY <1>6, <2>4
  <2> QED BY <2>2, <2>3, <2>4
<1> QED BY <1>7, <1>8, <1>9, <1>10, <1>11, <1>12 DEF ExportInv

(* The audit entry is appended; the earlier ones stay what they were.      *)
LEMMA AuthoriseStep ==
    ASSUME ExportInv, NEW b \in Build, Authorise(b)
    PROVE  ExportInv'
<1> DEFINE e == [build |-> b, case |-> job[b].case, resultCount |-> Len(job[b].trace)]
           n == Len(audit) + 1
           Row == [build : Build, case : CaseRef, resultCount : Nat]
<1>1. /\ audit \in Seq(Row) /\ job \in [Build -> Job]
      /\ pc \in [Build -> {"idle", "authorise", "tip", "write", "done", "failed"}]
  BY DEF ExportInv, TypeInv
<1>2. job[b].case \in CaseRef /\ job[b].dir \in Dir /\ IsTrace(job[b].trace) /\ Len(job[b].trace) \in Nat
  BY DEF ExportInv, JobInv, Authorise, IsTrace
<1>3. e \in Row
  BY <1>2
<1> HIDE DEF e, Row
<1>4. /\ audit' \in Seq(Row) /\ Len(audit') = n /\ audit'[n] = e /\ n \in Nat
      /\ \A i \in DOMAIN audit : i \in DOMAIN audit' /\ audit'[i] = audit[i]
      /\ n \in DOMAIN audit'
  <2>1. audit' = Append(audit, e)
    BY DEF Authorise, e
  <2> QED BY <1>1, <1>3, <2>1
<1>5. job' = [job EXCEPT ![b].entry = n]
  BY <1>4 DEF Authorise
<1> HIDE DEF n
<1>6. /\ job' \in [Build -> Job]
      /\ job'[b].case = job[b].case /\ job'[b].dir = job[b].dir /\ job'[b].trace = job[b].trace
      /\ job'[b].entry = n
      /\ \A x \in Build \ {b} : job'[x] = job[x]
  BY <1>1, <1>4, <1>5 DEF Job
<1>7. /\ pc[b] = "authorise" /\ pc'[b] = "tip" /\ \A x \in Build \ {b} : pc'[x] = pc[x]
      /\ pc' \in [Build -> {"idle", "authorise", "tip", "write", "done", "failed"}]
      /\ UNCHANGED <<clock, known, crop, bundles, disk, todo, items, omissions>>
  BY <1>1 DEF Authorise
<1>8. TypeInv'
  BY <1>4, <1>6, <1>7 DEF ExportInv, TypeInv, Dir, Row, Job
<1>9. JobInv'
  <2>1. SUFFICES ASSUME NEW x \in Build
        PROVE  /\ pc'[x] # "idle" => job'[x].case \in CaseRef /\ job'[x].dir \in Dir /\ IsTrace(job'[x].trace)
               /\ pc'[x] \in {"idle", "authorise", "tip"} => items'[x] = Empty /\ omissions'[x] = {}
               /\ pc'[x] \in {"tip", "write", "done"} =>
                     /\ job'[x].entry \in DOMAIN audit'
                     /\ audit'[job'[x].entry] =
                           [build |-> x, case |-> job'[x].case, resultCount |-> Len(job'[x].trace)]
               /\ pc'[x] \in {"write", "done"} => job'[x].entry <= job'[x].tip
    BY <1>7 DEF JobInv, Dir
  <2>2. CASE x = b
    BY <1>2, <1>4, <1>6, <1>7, <2>2 DEF ExportInv, JobInv, e
  <2>3. CASE x # b
    BY <1>4, <1>6, <1>7, <2>3 DEF ExportInv, JobInv
  <2> QED BY <2>2, <2>3
<1>10. WriteInv'
  BY <1>6, <1>7 DEF ExportInv, WriteInv, Manifest
<1>11. ManifestInv'
  <2>1. \A m : Genuine(m) => Genuine(m)'
    BY <1>4 DEF Genuine
  <2> QED BY <1>7, <2>1 DEF ExportInv, ManifestInv, Dir
<1>12. OwnInv'
  <2>1. \A x \in Build : pc[x] # "idle" => pc'[x] # "idle" /\ job'[x].dir = job[x].dir
    BY <1>6, <1>7
  <2> QED BY <1>7, <2>1 DEF ExportInv, OwnInv, Dir
<1>13. AloneInv'
  <2>1. SUFFICES ASSUME NEW x \in Build, Alone(x)'
        PROVE  /\ pc'[x] \in {"authorise", "tip"} => DOMAIN disk'[job'[x].dir] = {}
               /\ pc'[x] \in {"write", "done"} =>
                     Here(disk'[job'[x].dir], Manifest(x)', job'[x].trace, todo'[x], items'[x])
    BY DEF AloneInv
  <2>2. \A c \in Build : pc[c] # "idle" => pc'[c] # "idle" /\ job'[c].dir = job[c].dir
    BY <1>6, <1>7
  <2>3. pc[x] # "idle" => Alone(x)
    BY <2>1, <2>2, StillAlone
  <2>4. CASE x = b
    BY <1>6, <1>7, <2>3, <2>4 DEF ExportInv, AloneInv
  <2>5. CASE x # b
    <3>1. Manifest(x)' = Manifest(x)
      BY <1>6, <1>7, <2>5 DEF Manifest
    <3> QED BY <1>6, <1>7, <2>3, <2>5, <3>1 DEF ExportInv, AloneInv
  <2> QED BY <2>4, <2>5
<1> QED BY <1>8, <1>9, <1>10, <1>11, <1>12, <1>13 DEF ExportInv

(* The tip is read after the entry, and the list of files is whole.        *)
LEMMA PrepareStep ==
    ASSUME ExportInv, NEW b \in Build, Prepare(b)
    PROVE  ExportInv'
<1> DEFINE t == job[b].trace
<1>1. /\ job \in [Build -> Job] /\ DOMAIN todo = Build /\ Len(audit) \in Nat /\ DOMAIN audit = 1..Len(audit)
      /\ pc \in [Build -> {"idle", "authorise", "tip", "write", "done", "failed"}]
  BY DEF ExportInv, TypeInv
<1>2. /\ job' \in [Build -> Job]
      /\ job'[b].case = job[b].case /\ job'[b].dir = job[b].dir /\ job'[b].trace = t
      /\ job'[b].entry = job[b].entry /\ job'[b].tip = Len(audit)
      /\ \A x \in Build \ {b} : job'[x] = job[x]
  BY <1>1 DEF Prepare, Job
<1>3. /\ pc[b] = "tip" /\ pc'[b] = "write" /\ \A x \in Build \ {b} : pc'[x] = pc[x]
      /\ pc' \in [Build -> {"idle", "authorise", "tip", "write", "done", "failed"}]
      /\ UNCHANGED <<clock, known, crop, audit, bundles, disk, items, omissions>>
  BY <1>1 DEF Prepare
<1>4. /\ todo'[b] = Tasks(t) /\ DOMAIN todo' = Build
      /\ \A x \in Build \ {b} : todo'[x] = todo[x]
  BY <1>1 DEF Prepare
<1>5. IsTrace(t) /\ items[b] = Empty /\ omissions[b] = {} /\ job[b].entry \in DOMAIN audit
  BY <1>3 DEF ExportInv, JobInv
<1> HIDE DEF t
<1>6. TypeInv'
  BY <1>2, <1>3, <1>4 DEF ExportInv, TypeInv, Dir, Job
<1>7. JobInv'
  <2>1. job[b].entry <= Len(audit)
    BY <1>1, <1>5
  <2> QED BY <1>2, <1>3, <2>1 DEF ExportInv, JobInv, Dir, t
<1>8. WriteInv'
  <2>1. Half(t, todo'[b], items[b], omissions[b])
    BY <1>4, <1>5, HalfStart
  <2>2. \A x \in Build \ {b} : Manifest(x)' = Manifest(x)
    BY <1>2, <1>3 DEF Manifest
  <2> QED BY <1>2, <1>3, <1>4, <2>1, <2>2 DEF ExportInv, WriteInv
<1>9. ManifestInv'
  BY <1>3 DEF ExportInv, ManifestInv, Genuine, Dir
<1>10. OwnInv'
  <2>1. \A x \in Build : pc[x] # "idle" => pc'[x] # "idle" /\ job'[x].dir = job[x].dir
    BY <1>2, <1>3
  <2> QED BY <1>3, <2>1 DEF ExportInv, OwnInv, Dir
<1>11. AloneInv'
  <2>1. SUFFICES ASSUME NEW x \in Build, Alone(x)'
        PROVE  /\ pc'[x] \in {"authorise", "tip"} => DOMAIN disk'[job'[x].dir] = {}
               /\ pc'[x] \in {"write", "done"} =>
                     Here(disk'[job'[x].dir], Manifest(x)', job'[x].trace, todo'[x], items'[x])
    BY DEF AloneInv
  <2>2. \A c \in Build : pc[c] # "idle" => pc'[c] # "idle" /\ job'[c].dir = job[c].dir
    BY <1>2, <1>3
  <2>3. pc[x] # "idle" => Alone(x)
    BY <2>1, <2>2, StillAlone
  <2>4. CASE x = b
    <3>1. DOMAIN disk[job[b].dir] = {}
      BY <1>3, <2>3, <2>4 DEF ExportInv, AloneInv
    <3>2. Here(disk[job[b].dir], Manifest(b)', t, todo'[b], items[b])
      <4>1. \A g, m : DOMAIN g = {} => Here(g, m, t, Tasks(t), Empty)
        BY <1>5, HereStart
      <4> QED BY <1>4, <1>5, <3>1, <4>1
    <3> QED BY <1>2, <1>3, <2>4, <3>2
  <2>5. CASE x # b
    <3>1. Manifest(x)' = Manifest(x)
      BY <1>2, <1>3, <2>5 DEF Manifest
    <3> QED BY <1>2, <1>3, <1>4, <2>3, <2>5, <3>1 DEF ExportInv, AloneInv
  <2> QED BY <2>4, <2>5
<1> QED BY <1>6, <1>7, <1>8, <1>9, <1>10, <1>11 DEF ExportInv

(* A report is written into a directory that others may write to.          *)
LEMMA WriteReportStep ==
    ASSUME ExportInv, NEW b \in Build, WriteReport(b)
    PROVE  ExportInv'
<1> DEFINE t == job[b].trace
           f == Head(todo[b])
           d == job[b].dir
<1>1. /\ DOMAIN todo = Build /\ DOMAIN items = Build /\ DOMAIN disk = Dir
  BY DEF ExportInv, TypeInv
<1>2. /\ pc[b] = "write" /\ todo[b] # <<>> /\ f \in {Json, Csv}
      /\ UNCHANGED <<clock, known, crop, audit, bundles, pc, job, omissions>>
      /\ todo' = [todo EXCEPT ![b] = Tail(@)]
      /\ items' = [items EXCEPT ![b] = With(@, f, <<t>>)]
      /\ disk' = [disk EXCEPT ![d] = With(@, f, <<t>>)]
  BY DEF WriteReport, Writing, Next1, AddFile, Done1, Put, shared
<1>3. IsTrace(t) /\ d \in Dir /\ Half(t, todo[b], items[b], omissions[b])
  BY <1>2 DEF ExportInv, JobInv, WriteInv
<1>4. f \notin Unlisted /\ f # ManifestFile
  BY <1>2, NamesDiffer
<1>5. Half(t, Tail(todo[b]), With(items[b], f, <<t>>), omissions[b])
  BY <1>2, <1>3, HalfReport
<1>6. Past(t, Tail(todo[b])) <= Len(t) + 2
  <2>1. Past(t, Tail(todo[b])) \in 1..Len(t) + 6 /\ f = Tasks(t)[Past(t, Tail(todo[b]))]
    BY <1>2, <1>3, NextTask
  <2>2. ~(Past(t, Tail(todo[b])) > Len(t) + 2)
    BY <1>3, <1>4, <2>1, WhereTasksAre
  <2>3. Len(t) \in Nat
    BY <1>3 DEF IsTrace
  <2> HIDE DEF t, f
  <2> QED BY <2>1, <2>2, <2>3
<1>7. \A g, m, n : Here(g, m, t, todo[b], items[b])
          => Here(With(g, f, <<t>>), n, t, Tail(todo[b]), With(items[b], f, <<t>>))
  BY <1>2, <1>3, <1>6, HereAdd
<1> HIDE DEF t, f, d
<1>8. /\ todo'[b] = Tail(todo[b]) /\ items'[b] = With(items[b], f, <<t>>) /\ disk'[d] = With(disk[d], f, <<t>>)
      /\ \A c \in Build \ {b} : todo'[c] = todo[c] /\ items'[c] = items[c] /\ omissions'[c] = omissions[c]
      /\ \A x \in Dir : x # d => disk'[x] = disk[x]
  BY <1>1, <1>2, <1>3
<1>9. TypeInv'
  BY <1>2 DEF ExportInv, TypeInv, Dir, Job
<1>10. ManifestFile \in DOMAIN disk'[d] /\ disk'[d][ManifestFile] # Torn => Genuine(disk'[d][ManifestFile][1])
  <2>1. ManifestFile \in DOMAIN disk'[d] => ManifestFile \in DOMAIN disk[d] /\ disk'[d][ManifestFile] = disk[d][ManifestFile]
    BY <1>4, <1>8 DEF With
  <2> QED BY <1>3, <2>1 DEF ExportInv, ManifestInv
<1> QED BY <1>2, <1>5, <1>7, <1>8, <1>9, <1>10, OneFile DEF t, d

(* A crop is written and listed, or left out and recorded.                 *)
LEMMA PackCropStep ==
    ASSUME ExportInv, NEW b \in Build, PackCrop(b)
    PROVE  ExportInv'
<1> DEFINE t == job[b].trace
           f == Head(todo[b])
           d == job[b].dir
<1>1. /\ DOMAIN todo = Build /\ DOMAIN items = Build /\ DOMAIN disk = Dir
      /\ omissions \in [Build -> SUBSET Range(Sightings)]
  BY DEF ExportInv, TypeInv
<1>2. /\ pc[b] = "write" /\ todo[b] # <<>>
      /\ UNCHANGED <<clock, known, crop, audit, bundles, pc, job>>
      /\ todo' = [todo EXCEPT ![b] = Tail(@)]
  BY DEF PackCrop, Writing, Done1, shared
<1>3. PICK e \in Range(t) : f = CropFile(e.sighting) /\
        \/ /\ items' = [items EXCEPT ![b] = With(@, f, <<crop[e.sighting]>>)]
           /\ disk' = [disk EXCEPT ![d] = With(@, f, <<crop[e.sighting]>>)]
           /\ UNCHANGED omissions
        \/ omissions' = [omissions EXCEPT ![b] = @ \union {e.sighting}] /\ UNCHANGED <<disk, items>>
  BY DEF PackCrop, Next1, AddFile, Put, Omit
<1>4. IsTrace(t) /\ d \in Dir /\ Half(t, todo[b], items[b], omissions[b])
  BY <1>2 DEF ExportInv, JobInv, WriteInv
<1>5. f # ManifestFile
  BY <1>3, NamesDiffer DEF Unlisted, Closing, Range
<1>6. /\ Past(t, Tail(todo[b])) <= Len(t) + 2
      /\ \A c : Half(t, Tail(todo[b]), With(items[b], f, c), omissions[b])
      /\ Half(t, Tail(todo[b]), items[b], omissions[b] \union {e.sighting})
  BY <1>2, <1>3, <1>4, HalfCrop
<1>7. \A g, m, n, c : Here(g, m, t, todo[b], items[b])
          => /\ Here(With(g, f, c), n, t, Tail(todo[b]), With(items[b], f, c))
             /\ Here(g, n, t, Tail(todo[b]), items[b])
  BY <1>2, <1>4, <1>6, HereAdd
<1>8. e.sighting \in Range(Sightings)
  <2>1. t \in Seq(Entry)
    BY <1>4 DEF IsTrace
  <2>2. e \in Entry
    BY <1>3, <2>1 DEF Range
  <2> QED BY <2>2 DEF Entry
<1> HIDE DEF t, f, d
<1>9. todo'[b] = Tail(todo[b]) /\ \A c \in Build \ {b} : todo'[c] = todo[c]
  BY <1>1, <1>2
<1>10. CASE /\ items' = [items EXCEPT ![b] = With(@, f, <<crop[e.sighting]>>)]
            /\ disk' = [disk EXCEPT ![d] = With(@, f, <<crop[e.sighting]>>)]
            /\ UNCHANGED omissions
  <2> DEFINE c == <<crop[e.sighting]>>
  <2> HIDE DEF c
  <2>1. /\ items'[b] = With(items[b], f, c) /\ disk'[d] = With(disk[d], f, c)
        /\ \A x \in Build \ {b} : items'[x] = items[x] /\ omissions'[x] = omissions[x]
        /\ \A x \in Dir : x # d => disk'[x] = disk[x]
    BY <1>1, <1>4, <1>10 DEF c
  <2>2. TypeInv'
    BY <1>2, <1>10 DEF ExportInv, TypeInv, Dir, Job
  <2>3. ManifestFile \in DOMAIN disk'[d] /\ disk'[d][ManifestFile] # Torn => Genuine(disk'[d][ManifestFile][1])
    <3>1. ManifestFile \in DOMAIN disk'[d] => ManifestFile \in DOMAIN disk[d] /\ disk'[d][ManifestFile] = disk[d][ManifestFile]
      BY <1>5, <2>1 DEF With
    <3> QED BY <1>4, <3>1 DEF ExportInv, ManifestInv
  <2>4. Half(t, todo'[b], items'[b], omissions'[b])
    BY <1>6, <1>9, <1>10, <2>1
  <2> QED BY <1>2, <1>7, <1>9, <2>1, <2>2, <2>3, <2>4, OneFile DEF t, d
<1>11. CASE omissions' = [omissions EXCEPT ![b] = @ \union {e.sighting}] /\ UNCHANGED <<disk, items>>
  <2>1. /\ omissions'[b] = omissions[b] \union {e.sighting}
        /\ \A x \in Build \ {b} : items'[x] = items[x] /\ omissions'[x] = omissions[x]
        /\ \A x \in Dir : x # d => disk'[x] = disk[x]
        /\ omissions' \in [Build -> SUBSET Range(Sightings)]
    BY <1>1, <1>8, <1>11
  <2>2. TypeInv'
    BY <1>2, <1>11, <2>1 DEF ExportInv, TypeInv, Dir, Job
  <2>3. ManifestFile \in DOMAIN disk'[d] /\ disk'[d][ManifestFile] # Torn => Genuine(disk'[d][ManifestFile][1])
    BY <1>4, <1>11 DEF ExportInv, ManifestInv
  <2>4. Half(t, todo'[b], items'[b], omissions'[b])
    BY <1>6, <1>9, <1>11, <2>1
  <2>5. Here(disk[d], Manifest(b), t, todo[b], items[b]) => Here(disk'[d], Manifest(b)', t, todo'[b], items'[b])
    BY <1>7, <1>9, <1>11
  <2> QED BY <1>2, <2>1, <1>9, <2>2, <2>3, <2>4, <2>5, OneFile DEF t, d
<1> QED BY <1>3, <1>10, <1>11

(* A closing file is written, the manifest among them.                     *)
LEMMA WriteClosingStep ==
    ASSUME ExportInv, NEW b \in Build, WriteClosing(b)
    PROVE  ExportInv'
<1> DEFINE t == job[b].trace
           f == Head(todo[b])
           d == job[b].dir
           m == Manifest(b)
           c == <<IF f \in {ManifestFile, HashFile} THEN m ELSE f>>
<1>1. /\ DOMAIN todo = Build /\ DOMAIN disk = Dir
  BY DEF ExportInv, TypeInv
<1>2. /\ pc[b] = "write" /\ todo[b] # <<>> /\ f \in Unlisted
      /\ UNCHANGED <<clock, known, crop, audit, bundles, pc, job, items, omissions>>
      /\ todo' = [todo EXCEPT ![b] = Tail(@)]
      /\ disk' = [disk EXCEPT ![d] = With(@, f, c)]
  BY DEF WriteClosing, Writing, Next1, Done1, Put, shared, Unlisted
<1>3. IsTrace(t) /\ d \in Dir /\ Half(t, todo[b], items[b], omissions[b])
  BY <1>2 DEF ExportInv, JobInv, WriteInv
<1>4. Past(t, todo[b]) >= Len(t) + 2 /\ Half(t, Tail(todo[b]), items[b], omissions[b])
  BY <1>2, <1>3, HalfClosing
<1>5. Genuine(m)
  BY <1>2, <1>4, ManifestIsGenuine
<1>6. \A g : Here(g, m, t, todo[b], items[b]) => Here(With(g, f, c), m, t, Tail(todo[b]), items[b])
  BY <1>2, <1>3, HereClosing
<1>7. m' = m
  BY <1>2 DEF Manifest
<1>8. f = ManifestFile => c = <<m>>
  OBVIOUS
<1> HIDE DEF t, f, d, m, c
<1>9. /\ todo'[b] = Tail(todo[b]) /\ disk'[d] = With(disk[d], f, c)
      /\ \A x \in Build \ {b} : todo'[x] = todo[x] /\ items'[x] = items[x] /\ omissions'[x] = omissions[x]
      /\ \A x \in Dir : x # d => disk'[x] = disk[x]
  BY <1>1, <1>2, <1>3
<1>10. TypeInv'
  BY <1>2 DEF ExportInv, TypeInv, Dir, Job
<1>11. ManifestFile \in DOMAIN disk'[d] /\ disk'[d][ManifestFile] # Torn => Genuine(disk'[d][ManifestFile][1])
  <2>1. CASE f = ManifestFile
    <3>1. disk'[d][ManifestFile] = <<m>>
      BY <1>8, <1>9, <2>1 DEF With
    <3>2. disk'[d][ManifestFile][1] = m
      BY <3>1
    <3> QED BY <1>5, <3>2
  <2>2. CASE f # ManifestFile
    <3>1. ManifestFile \in DOMAIN disk'[d] => ManifestFile \in DOMAIN disk[d] /\ disk'[d][ManifestFile] = disk[d][ManifestFile]
      BY <1>9, <2>2 DEF With
    <3> QED BY <1>3, <3>1 DEF ExportInv, ManifestInv
  <2> QED BY <2>1, <2>2
<1>12. Half(t, todo'[b], items'[b], omissions'[b])
  BY <1>2, <1>4, <1>9
<1>13. Here(disk[d], Manifest(b), t, todo[b], items[b]) => Here(disk'[d], Manifest(b)', t, todo'[b], items'[b])
  BY <1>2, <1>6, <1>7, <1>9 DEF m
<1> QED BY <1>2, <1>9, <1>10, <1>11, <1>12, <1>13, OneFile DEF t, d

(* The row in export_bundles comes last.                                   *)
LEMMA RecordStep ==
    ASSUME ExportInv, NEW b \in Build, RecordBundle(b)
    PROVE  ExportInv'
<1>1. /\ pc[b] = "write" /\ todo[b] = <<>> /\ bundles' = bundles \union {Manifest(b)}
      /\ UNCHANGED <<clock, known, crop, audit, disk, job, todo, items, omissions>>
      /\ pc'[b] = "done" /\ \A x \in Build \ {b} : pc'[x] = pc[x]
      /\ pc' \in [Build -> {"idle", "authorise", "tip", "write", "done", "failed"}]
  BY DEF RecordBundle, ExportInv, TypeInv
<1>2. \A x \in Build : Manifest(x)' = Manifest(x)
  BY <1>1 DEF Manifest
<1>3. TypeInv'
  BY <1>1 DEF ExportInv, TypeInv, Dir, Job
<1>4. JobInv'
  BY <1>1 DEF ExportInv, JobInv, Dir
<1>5. WriteInv'
  BY <1>1, <1>2 DEF ExportInv, WriteInv
<1>6. ManifestInv'
  BY <1>1 DEF ExportInv, ManifestInv, Genuine, Dir
<1>7. OwnInv'
  BY <1>1 DEF ExportInv, OwnInv, Dir
<1>8. AloneInv'
  <2>1. SUFFICES ASSUME NEW x \in Build, Alone(x)'
        PROVE  /\ pc'[x] \in {"authorise", "tip"} => DOMAIN disk'[job'[x].dir] = {}
               /\ pc'[x] \in {"write", "done"} =>
                     Here(disk'[job'[x].dir], Manifest(x)', job'[x].trace, todo'[x], items'[x])
    BY DEF AloneInv
  <2>2. \A c \in Build : pc[c] # "idle" => pc'[c] # "idle" /\ job'[c].dir = job[c].dir
    BY <1>1
  <2>3. pc[x] # "idle" => Alone(x)
    BY <2>1, <2>2, StillAlone
  <2>4. pc'[x] \in {"authorise", "tip"} => pc[x] = pc'[x]
    BY <1>1
  <2>5. pc'[x] \in {"write", "done"} => pc[x] \in {"write", "done"}
    BY <1>1
  <2> QED BY <1>1, <1>2, <2>3, <2>4, <2>5 DEF ExportInv, AloneInv
<1> QED BY <1>3, <1>4, <1>5, <1>6, <1>7, <1>8 DEF ExportInv

(* A build dies, a file of its directory perhaps half written.             *)
LEMMA FailStep ==
    ASSUME ExportInv, NEW b \in Build, Fail(b)
    PROVE  ExportInv'
<1> DEFINE d == job[b].dir
           f == Next1(b)
<1>1. /\ pc[b] \notin {"idle", "done", "failed"}
      /\ UNCHANGED <<clock, known, crop, audit, bundles, job, todo, items, omissions>>
      /\ pc'[b] = "failed" /\ \A x \in Build \ {b} : pc'[x] = pc[x]
      /\ pc' \in [Build -> {"idle", "authorise", "tip", "write", "done", "failed"}]
      /\ disk' = disk \/ disk' = [disk EXCEPT ![d] = With(@, f, Torn)]
  BY DEF Fail, ExportInv, TypeInv, shared, Put
<1>2. DOMAIN disk = Dir /\ d \in Dir
  BY <1>1 DEF ExportInv, TypeInv, JobInv
<1> HIDE DEF d, f
<1>3. /\ DOMAIN disk' = Dir
      /\ disk'[d] = disk[d] \/ disk'[d] = With(disk[d], f, Torn)
      /\ \A x \in Dir : x # d => disk'[x] = disk[x]
  BY <1>1, <1>2
<1>4. \A x \in Build : Manifest(x)' = Manifest(x)
  BY <1>1 DEF Manifest
<1>5. TypeInv'
  BY <1>1, <1>3 DEF ExportInv, TypeInv, Dir, Job
<1>6. JobInv'
  BY <1>1 DEF ExportInv, JobInv, Dir
<1>7. WriteInv'
  BY <1>1, <1>4 DEF ExportInv, WriteInv
<1>8. ManifestInv'
  <2>1. \A m : Genuine(m)' <=> Genuine(m)
    BY <1>1 DEF Genuine
  <2>2. ManifestFile \in DOMAIN disk'[d] /\ disk'[d][ManifestFile] # Torn =>
          ManifestFile \in DOMAIN disk[d] /\ disk'[d][ManifestFile] = disk[d][ManifestFile]
    BY <1>3 DEF With
  <2>3. \A x \in Dir : ManifestFile \in DOMAIN disk'[x] /\ disk'[x][ManifestFile] # Torn
            => Genuine(disk'[x][ManifestFile][1])
    BY <1>3, <2>2 DEF ExportInv, ManifestInv
  <2> QED BY <1>1, <2>1, <2>3 DEF ManifestInv, Dir
<1>9. OwnInv'
  <2>1. SUFFICES ASSUME NEW x \in Dir, DOMAIN disk'[x] # {}
        PROVE  \E c \in Build : pc'[c] # "idle" /\ job'[c].dir = x
    BY <1>1 DEF OwnInv, Dir
  <2>2. CASE x = d
    BY <1>1, <2>2 DEF d
  <2>3. CASE x # d
    <3>1. PICK c \in Build : pc[c] # "idle" /\ job[c].dir = x
      BY <1>3, <2>1, <2>3 DEF ExportInv, OwnInv
    <3> QED BY <1>1, <3>1
  <2> QED BY <2>2, <2>3
<1>10. AloneInv'
  <2>1. SUFFICES ASSUME NEW x \in Build, Alone(x)'
        PROVE  /\ pc'[x] \in {"authorise", "tip"} => DOMAIN disk'[job'[x].dir] = {}
               /\ pc'[x] \in {"write", "done"} =>
                     Here(disk'[job'[x].dir], Manifest(x)', job'[x].trace, todo'[x], items'[x])
    BY DEF AloneInv
  <2>2. \A c \in Build : pc[c] # "idle" => pc'[c] # "idle" /\ job'[c].dir = job[c].dir
    BY <1>1
  <2>3. pc[x] # "idle" => Alone(x)
    BY <2>1, <2>2, StillAlone
  <2>4. CASE x = b
    BY <1>1, <2>4
  <2>5. CASE x # b
    <3>1. pc[x] # "idle" => job[x].dir # d /\ job[x].dir \in Dir
      BY <1>1, <2>3, <2>5 DEF ExportInv, JobInv, Alone, d
    <3>2. pc[x] # "idle" => disk'[job[x].dir] = disk[job[x].dir]
      BY <1>3, <3>1
    <3> QED BY <1>1, <1>4, <2>3, <2>5, <3>2 DEF ExportInv, AloneInv
  <2> QED BY <2>4, <2>5
<1> QED BY <1>5, <1>6, <1>7, <1>8, <1>9, <1>10 DEF ExportInv

-----------------------------------------------------------------------------
(* The invariant gives the property: disk[d][Json] is what the manifest of  *)
(* d lists, and the last file of a finished build was its own.             *)
LEMMA InvWhole == ExportInv => BundlesAreWhole
<1> SUFFICES ASSUME ExportInv PROVE BundlesAreWhole
  OBVIOUS
<1>1. TypeOK
  <2> DEFINE Row == [build : Build, case : CaseRef, resultCount : Nat]
  <2>0. audit \in Seq(Row) /\ \A e \in Row : e.build \in Build /\ e.case \in CaseRef
    BY DEF ExportInv, TypeInv
  <2> HIDE DEF Row
  <2>1. \A e \in Range(audit) : e.build \in Build /\ e.case \in CaseRef
    BY <2>0 DEF Range
  <2>2. \A b \in Build : pc[b] \in {"tip", "write", "done"} => job[b].entry \in 1..Len(audit)
    <3>1. DOMAIN audit = 1..Len(audit)
      BY <2>0
    <3> QED BY <3>1 DEF ExportInv, JobInv
  <2> QED BY <2>1, <2>2 DEF ExportInv, TypeInv, TypeOK
<1>2. VerifiedIsWhole
  <2>1. SUFFICES ASSUME NEW d \in Dir, Verifies(d)
        PROVE  LET m == disk[d][ManifestFile][1]
                   trace == disk[d][Json][1]
               IN  /\ m.entry \in DOMAIN audit /\ m.entry <= m.tip
                   /\ audit[m.entry] = [build |-> m.build, case |-> m.case, resultCount |-> m.sightings]
                   /\ Len(trace) = m.sightings
                   /\ disk[d][Csv] = <<trace>>
                   /\ \A t \in Range(trace) :
                         (CropFile(t.sighting) \in DOMAIN disk[d]) # (t.sighting \in m.omissions)
    BY DEF VerifiedIsWhole
  <2> DEFINE m == disk[d][ManifestFile][1]
             trace == disk[d][Json][1]
  <2>2. Genuine(m) /\ Matches(d, m)
    BY <2>1 DEF Verifies, ExportInv, ManifestInv
  <2>3. \A s : CropFile(s) \notin Unlisted
    BY NamesDiffer
  <2>4. trace = m.items[Json][1] /\ disk[d][Csv] = m.items[Csv]
    BY <2>2 DEF Matches, Genuine
  <2> HIDE DEF m, trace, CropFile, Json, Csv, Unlisted
  <2>5. disk[d][Csv] = <<trace>> /\ Len(trace) = m.sightings
    BY <2>2, <2>4 DEF Genuine
  <2>6. \A s : CropFile(s) \in DOMAIN disk[d] <=> CropFile(s) \in DOMAIN m.items
    BY <2>2, <2>3 DEF Matches
  <2>7. \A t \in Range(trace) : (CropFile(t.sighting) \in DOMAIN disk[d]) # (t.sighting \in m.omissions)
    BY <2>2, <2>4, <2>6 DEF Genuine
  <2> QED BY <2>2, <2>5, <2>7 DEF Genuine, m, trace
<1>3. FinishedVerifies
  <2>1. SUFFICES ASSUME NEW b \in Build, pc[b] = "done", Alone(b)
        PROVE  Verifies(job[b].dir) /\ disk[job[b].dir][ManifestFile][1] \in bundles
    BY DEF FinishedVerifies
  <2> DEFINE t == job[b].trace
             g == disk[job[b].dir]
             m == Manifest(b)
             its == items[b]
  <2>2. IsTrace(t) /\ todo[b] = <<>> /\ m \in bundles /\ Here(g, m, t, <<>>, its) /\ Half(t, <<>>, its, omissions[b])
    BY <2>1 DEF ExportInv, JobInv, WriteInv, AloneInv
  <2>3. Len(t) \in Nat /\ Past(t, <<>>) = Len(t) + 6
    BY <2>2 DEF Past, IsTrace
  <2>4. m.items = its
    BY DEF Manifest
  <2> HIDE DEF t, g, m, its, Tasks, ManifestFile, HashFile
  <2>5. Past(t, <<>>) >= Len(t) + 3 /\ Past(t, <<>>) >= Len(t) + 4
    BY <2>3
  <2>6. /\ DOMAIN g = DOMAIN its \union {Tasks(t)[j] : j \in Len(t) + 3 .. Len(t) + 6}
        /\ \A f \in DOMAIN its : g[f] = its[f]
        /\ g[ManifestFile] = <<m>> /\ g[HashFile] = <<m>>
    BY <2>2, <2>3, <2>5 DEF Here
  <2>7. \A j \in Len(t) + 3 .. Len(t) + 6 : j \in 1..Len(t) + 6 /\ j > Len(t) + 2
    BY <2>3
  <2>8. \A j \in Len(t) + 3 .. Len(t) + 6 : Tasks(t)[j] \in Unlisted
    BY <2>2, <2>7, WhereTasksAre
  <2>9. ManifestFile \in DOMAIN g /\ HashFile \in DOMAIN g
    <3>1. Len(t) + 3 \in Len(t) + 3 .. Len(t) + 6 /\ Len(t) + 4 \in Len(t) + 3 .. Len(t) + 6
      BY <2>3
    <3>2. Len(t) + 3 \in 1..Len(t) + 6 /\ Len(t) + 4 \in 1..Len(t) + 6
      BY <2>3
    <3>3. Tasks(t)[Len(t) + 3] = ManifestFile /\ Tasks(t)[Len(t) + 4] = HashFile
      BY <2>2, <3>2, WhereTasksAre
    <3> QED BY <2>6, <3>1, <3>3
  <2>10. <<m>>[1] = m /\ <<m>> # <<>>
    OBVIOUS
  <2>11. DOMAIN g \subseteq DOMAIN its \union Unlisted
    BY <2>6, <2>8
  <2>12. Matches(job[b].dir, m)
    BY <2>4, <2>6, <2>11 DEF Matches, g
  <2>13. Verifies(job[b].dir)
    BY <2>6, <2>9, <2>10, <2>12 DEF Verifies, g, Torn
  <2> QED BY <2>2, <2>6, <2>10, <2>13 DEF g
<1> QED BY <1>1, <1>2, <1>3 DEF BundlesAreWhole

(* Every step keeps the invariant.                                         *)
LEMMA InvNext == ExportInv /\ [Next]_vars => ExportInv'
<1> SUFFICES ASSUME ExportInv, [Next]_vars PROVE ExportInv'
  OBVIOUS
<1>1. CASE Tick \/ Land \/ \E s \in Range(Sightings) : StoreCrop(s)
  BY <1>1, EnvironmentStep
<1>2. ASSUME NEW b \in Build, NEW c \in CaseRef, Begin(b, c) PROVE ExportInv'
  BY <1>2, BeginStep
<1>3. ASSUME NEW b \in Build,
             Authorise(b) \/ Prepare(b) \/ WriteReport(b) \/ PackCrop(b)
               \/ WriteClosing(b) \/ RecordBundle(b) \/ Fail(b)
      PROVE  ExportInv'
  BY <1>3, AuthoriseStep, PrepareStep, WriteReportStep, PackCropStep, WriteClosingStep, RecordStep, FailStep
<1>4. CASE UNCHANGED vars
  <2>1. UNCHANGED <<clock, known, crop, audit, disk, bundles, pc, job, todo, items, omissions>>
    BY <1>4 DEF vars
  <2>2. TypeInv'
    BY <2>1 DEF ExportInv, TypeInv, Dir, Job
  <2> QED BY <2>1, <2>2, NothingMoves
<1> QED BY <1>1, <1>2, <1>3, <1>4 DEF Next

(* The invariant holds of every behaviour, however the builds interleave.  *)
THEOREM Invariance == Spec => []ExportInv
<1> QED BY InvInit, InvNext, PTL DEF Spec

(* However many builds share a directory and wherever a write, an insert   *)
(* or the process fails: a directory that verifies is one whole export,    *)
(* authorised by the audit entry it names, and a finished build that was   *)
(* alone in its directory verifies and is on record (buildExportBundle,    *)
(* verifyExportBundle).                                                    *)
THEOREM Whole == Spec => []BundlesAreWhole
<1> QED BY Invariance, InvWhole, PTL

THEOREM BundlesHold == RecordsSpec => []BundlesAreWhole
<1>1. RecordsInit => Init  BY DEF RecordsInit
<1>2. [RecordsNext]_recordsVars => [Next]_vars  BY DEF RecordsNext, recordsVars
<1>3. RecordsSpec => Spec  BY <1>1, <1>2, PTL DEF RecordsSpec, Spec
<1> QED  BY <1>3, Whole, PTL

-----------------------------------------------------------------------------
(* The gap report.  What a run computes is a function of the rows it       *)
(* loaded, as long as the registry still says what they say.               *)
Estate == UNION {[S -> Gap!Row] : S \in SUBSET Camera}
Road == UNION Ways
Reach(cams, s) == UNION {Gap!Cell(cams[c]) : c \in Gap!Members(cams, s)}
OnRoad(cams) ==
    {p \in Place : \E c \in Gap!Members(cams, "all") : cams[c].place = p /\ Gap!Cell(cams[c]) \cap Road # {}}
Reached(cams) == {j \in Junction : j \in Reach(cams, "trusted")}
Counts(cams) ==
    [rows |-> Cardinality(DOMAIN cams),
     withPolygon |-> Cardinality({c \in DOMAIN cams : Gap!Placed(cams[c])})]

Tasks3 == Gap!Slice \cup {"districts"}
Steps == {"idle", "delete", "insert", "count", "measure", "worst", "publish", "done"}
Found == [total : Nat, covered : Nat, worst : SUBSET Junction]
Run == [pc : Steps, cams : Estate, write : [rows : Nat, withPolygon : Nat],
        slice : [Gap!Slice -> SUBSET Spot], measured : SUBSET Tasks3, districts : SUBSET Place,
        junctions : Found, calm : BOOLEAN]

Wrote(a) == a.write = Counts(a.cams)
Measured(a) ==
    /\ \A s \in Gap!Slice : s \in a.measured => a.slice[s] = Reach(a.cams, s) \cap Road
    /\ "districts" \in a.measured => a.districts = OnRoad(a.cams)
Counted(a) ==
    a.junctions.total = Cardinality(Junction) /\ a.junctions.covered = Cardinality(Reached(a.cams))
Listed(a) == a.junctions.worst = Gap!First(ListMax, Junction \ Reached(a.cams))

(* What a report says of the cameras it was computed from.                 *)
Told(a) == Wrote(a) /\ Measured(a) /\ a.measured = Tasks3 /\ Counted(a) /\ Listed(a)

Loaded == [c \in Gap!Live |-> gap_registry[c]]
Active(a) == a.pc \notin {"idle", "done"}

(* A run nobody disturbed: its rows are those of the registry, what it has *)
(* computed follows from them, and camera_coverage is as it left it.       *)
RunOK(a) ==
    /\ a.cams = Loaded
    /\ a.pc = "insert" => gap_table = Gap!None
    /\ a.pc \notin {"delete", "insert"} => gap_table = Gap!Rows
    /\ a.pc \notin {"delete", "insert", "count"} => Wrote(a)
    /\ Measured(a)
    /\ a.pc \in {"worst", "publish"} => a.measured = Tasks3 /\ Counted(a)
    /\ a.pc = "publish" => Listed(a)

GapInv ==
    /\ gap_registry \in [Camera -> Gap!Row] /\ gap_run \in [Runner -> Run]
    /\ DOMAIN gap_table \subseteq Camera /\ \A c \in DOMAIN gap_table : gap_table[c] \subseteq Spot
    /\ gap_edits \in 0..MaxEdits /\ \A r \in Runner : gap_run[r].pc = "idle" => gap_run[r] = Gap!Blank
    /\ \A r \in Runner : Active(gap_run[r]) /\ gap_run[r].calm => Gap!Alone(r) /\ RunOK(gap_run[r])
    /\ gap_report \in [given : BOOLEAN, of : Run]
    /\ gap_report.given /\ gap_report.of.calm => Told(gap_report.of)
    /\ gap_edits = 0 => gap_table \in {Gap!None, Gap!Rows}
    /\ Gap!TableIsWhole

LEMMA GapFacts ==
    /\ MaxEdits \in Nat /\ ListMax \in Nat \ {0} /\ IsFiniteSet(Camera) /\ IsFiniteSet(Spot)
    /\ Spot \subseteq Nat /\ Road \subseteq Spot /\ Junction \subseteq Road /\ Nowhere \notin Place
    /\ Disc \in [Place -> [Gap!Class -> (SUBSET Spot) \ {{}}]]
    /\ Estates # {} /\ Estates \subseteq [Camera -> Gap!Row]
<1>1. \A S : Gap!IsFiniteSet(S) = IsFiniteSet(S)
  BY DEF Gap!IsFiniteSet, IsFiniteSet
<1> QED  BY <1>1, GapConstants DEF Gap!CoverageReportAssumption, Road

LEMMA GapNumber == \A S : Gap!Cardinality(S) = Cardinality(S)
  BY DEF Gap!Cardinality, Cardinality

(* A placed camera has a cell on the ground, and no other camera has one.  *)
LEMMA CellIs ==
    ASSUME NEW row \in Gap!Row
    PROVE  Gap!Cell(row) \subseteq Spot /\ (Gap!Cell(row) # {} <=> Gap!Placed(row))
<1>1. CASE row.place = Nowhere
  BY <1>1 DEF Gap!Cell, Gap!Placed
<1>2. CASE row.place # Nowhere
  <2>1. row.place \in Place /\ row.class \in Gap!Class
    BY <1>2 DEF Gap!Row
  <2>2. Disc[row.place][row.class] \in (SUBSET Spot) \ {{}}
    BY <2>1, GapFacts
  <2> QED  BY <1>2, <2>2 DEF Gap!Cell, Gap!Placed
<1> QED  BY <1>1, <1>2

(* While the registry says what was loaded, a statement that measures a    *)
(* slice finds what the rows say.                                          *)
LEMMA CoveredIs ==
    ASSUME NEW s \in Gap!Slice, gap_registry \in [Camera -> Gap!Row]
    PROVE  Gap!Covered(Gap!Members(Loaded, s)) = Reach(Loaded, s) \cap Road
<1> DEFINE ids == Gap!Members(Loaded, s)
<1>1. ids \subseteq Gap!Live /\ DOMAIN Loaded = Gap!Live /\ \A c \in ids : Loaded[c] = gap_registry[c]
  BY DEF Gap!Members, Loaded
<1>2. {d \in ids : gap_registry[d].live} = ids
  BY <1>1 DEF Gap!Live
<1>3. Gap!Cells(ids) = {Gap!Cell(Loaded[c]) : c \in ids}
  BY <1>1, <1>2 DEF Gap!Cells
<1>4. (UNION Gap!Cells(ids)) = Reach(Loaded, s)
  BY <1>3 DEF Reach
<1>5. (UNION Gap!Cells(ids)) \cap (UNION Gap!Candidates(ids)) = (UNION Gap!Cells(ids)) \cap Road
  BY DEF Gap!Candidates, Road
<1> QED  BY <1>4, <1>5 DEF Gap!Covered

LEMMA DistrictsAre ==
    ASSUME gap_registry \in [Camera -> Gap!Row]
    PROVE  LET ids == {c \in Gap!Members(Loaded, "all") : gap_registry[c].live}
           IN {p \in Place : \E c \in ids : gap_registry[c].place = p
                                /\ Gap!Cell(gap_registry[c]) \cap (UNION Ways) # {}} = OnRoad(Loaded)
<1> DEFINE all == Gap!Members(Loaded, "all")
           ids == {c \in all : gap_registry[c].live}
<1>1. \A c \in all : c \in Gap!Live /\ Loaded[c] = gap_registry[c]
  BY DEF Gap!Members, Loaded
<1>2. ids = all
  BY <1>1 DEF Gap!Live
<1> QED  BY <1>1, <1>2 DEF OnRoad, Road

LEMMA ReachedAre ==
    ASSUME gap_registry \in [Camera -> Gap!Row]
    PROVE  /\ {j \in Junction : Gap!Reached(Gap!Members(Loaded, "trusted"), j)} = Reached(Loaded)
           /\ {j \in Junction : ~Gap!Reached(Gap!Members(Loaded, "trusted"), j)} = Junction \ Reached(Loaded)
<1> DEFINE ids == Gap!Members(Loaded, "trusted")
<1>1. \A c \in ids : c \in Gap!Live /\ Loaded[c] = gap_registry[c]
  BY DEF Gap!Members, Loaded
<1>2. \A j : Gap!Reached(ids, j) <=> \E c \in ids : j \in Gap!Cell(Loaded[c])
  BY <1>1 DEF Gap!Reached, Gap!Live
<1>3. \A j : j \in Reach(Loaded, "trusted") <=> \E c \in ids : j \in Gap!Cell(Loaded[c])
  BY DEF Reach
<1> QED  BY <1>2, <1>3 DEF Reached

LEMMA LoadedIs ==
    ASSUME gap_registry \in [Camera -> Gap!Row]
    PROVE  /\ Loaded \in Estate /\ DOMAIN Loaded = Gap!Live /\ Gap!Live \subseteq Camera
           /\ \A c \in Gap!Live : Loaded[c] = gap_registry[c] /\ Loaded[c] \in Gap!Row
           /\ DOMAIN Gap!Rows = Gap!Live /\ \A c \in Gap!Live : Gap!Rows[c] = Gap!Cell(Loaded[c])
<1>1. Gap!Live \subseteq Camera
  BY DEF Gap!Live
<1>2. Loaded \in [Gap!Live -> Gap!Row]
  BY <1>1 DEF Loaded
<1>3. Loaded \in Estate
  BY <1>1, <1>2 DEF Estate
<1> QED  BY <1>1, <1>2, <1>3 DEF Loaded, Gap!Rows

(* The totals of the table are those of the rows.                          *)
LEMMA CountsAre ==
    ASSUME gap_registry \in [Camera -> Gap!Row]
    PROVE  [rows |-> Gap!Cardinality(DOMAIN Gap!Rows),
            withPolygon |-> Gap!Cardinality({c \in DOMAIN Gap!Rows : Gap!Rows[c] # {}})] = Counts(Loaded)
<1>1. \A c \in Gap!Live : Gap!Rows[c] # {} <=> Gap!Placed(Loaded[c])
  BY LoadedIs, CellIs
<1>2. {c \in DOMAIN Gap!Rows : Gap!Rows[c] # {}} = {c \in DOMAIN Loaded : Gap!Placed(Loaded[c])}
  BY <1>1, LoadedIs
<1> QED  BY <1>2, LoadedIs, GapNumber DEF Counts
(* The first n of a finite set of numbers are n of them, or all.           *)
LEMMA FirstIs ==
    ASSUME NEW S \in SUBSET Nat, IsFiniteSet(S), NEW n \in Nat
    PROVE  /\ IsFiniteSet(Gap!First(n, S))
           /\ Cardinality(Gap!First(n, S)) = IF Cardinality(S) < n THEN Cardinality(S) ELSE n
<1> DEFINE m == IF Cardinality(S) < n THEN Cardinality(S) ELSE n
           T == Gap!First(n, S)
           f == [j \in T |-> Rank(S, j)]
<1>1. Cardinality(S) \in Nat /\ m \in Nat /\ m <= n /\ m <= Cardinality(S) /\ m \in {n, Cardinality(S)}
  BY FS_CardinalityType
<1> HIDE DEF m
<1>2. T = {j \in S : Rank(S, j) < n}
  BY GapNumber DEF Gap!First, Rank
<1>3. \A j \in S : Rank(S, j) \in 0..(Cardinality(S) - 1)
  BY Ranks
<1>4. \A i, j \in S : i < j => Rank(S, i) < Rank(S, j)
  BY Ranks
<1>5. \A k \in 0..(Cardinality(S) - 1) : \E j \in S : Rank(S, j) = k
  BY Ranks
<1>6. f \in [T -> 0..(m - 1)]
  <2> SUFFICES ASSUME NEW j \in T PROVE Rank(S, j) \in 0..(m - 1)
    OBVIOUS
  <2>1. j \in S /\ Rank(S, j) < n /\ Rank(S, j) \in 0..(Cardinality(S) - 1)
    BY <1>2, <1>3
  <2> QED  BY <2>1, <1>1
<1>7. \A i, j \in T : f[i] = f[j] => i = j
  <2> SUFFICES ASSUME NEW i \in T, NEW j \in T, f[i] = f[j], i # j PROVE FALSE
    OBVIOUS
  <2>1. i \in Nat /\ j \in Nat /\ i \in S /\ j \in S /\ Rank(S, i) = Rank(S, j)
    BY <1>2
  <2>2. i < j \/ j < i
    BY <2>1
  <2> QED  BY <2>1, <2>2, <1>3, <1>4
<1>8. \A k \in 0..(m - 1) : \E j \in T : f[j] = k
  <2> TAKE k \in 0..(m - 1)
  <2>1. k \in 0..(Cardinality(S) - 1) /\ k < n
    BY <1>1
  <2>2. PICK j \in S : Rank(S, j) = k
    BY <2>1, <1>5
  <2> QED  BY <2>1, <2>2, <1>2
<1>9. IsFiniteSet(T)
  BY <1>2, FS_Subset
<1>10. f \in Bijection(T, 0..(m - 1))
  BY <1>6, <1>7, <1>8 DEF Bijection, Injection, Surjection, IsInjective
<1>11. Cardinality(0..(m - 1)) = Cardinality(T)
  BY <1>9, <1>10, FS_Bijection DEF ExistsBijection
<1>12. Cardinality(0..(m - 1)) = m
  <2>1. m - 1 \in Int
    BY <1>1
  <2>2. Cardinality(0..(m - 1)) = IF 0 > m - 1 THEN 0 ELSE (m - 1) - 0 + 1
    BY <2>1, FS_Interval
  <2> QED  BY <2>2, <1>1
<1> QED  BY <1>9, <1>11, <1>12 DEF m

(* A camera that counts for a slice is loaded and placed, and one of the   *)
(* trusted or of the ANPR slice is in the slice of all.                    *)
LEMMA MembersAre ==
    ASSUME NEW cams \in Estate
    PROVE  /\ IsFiniteSet(DOMAIN cams) /\ DOMAIN cams \subseteq Camera /\ \A c \in DOMAIN cams : cams[c] \in Gap!Row
           /\ \A s \in Gap!Slice : /\ Gap!Members(cams, s) \subseteq Gap!Members(cams, "all")
                                   /\ IsFiniteSet(Gap!Members(cams, s))
                                   /\ Reach(cams, s) \subseteq Reach(cams, "all") /\ Reach(cams, s) \subseteq Spot
           /\ Gap!Members(cams, "all") = {c \in DOMAIN cams : Gap!Placed(cams[c])}
           /\ Gap!Members(cams, "trusted") =
                 {c \in DOMAIN cams : Gap!Placed(cams[c]) /\ Gap!CountsAsTrusted(cams[c])}
<1>1. PICK S \in SUBSET Camera : cams \in [S -> Gap!Row]
  BY DEF Estate
<1>2. DOMAIN cams \subseteq Camera /\ IsFiniteSet(DOMAIN cams) /\ \A c \in DOMAIN cams : cams[c] \in Gap!Row
  BY <1>1, GapFacts, FS_Subset
<1>3. Gap!Members(cams, "all") = {c \in DOMAIN cams : Gap!Placed(cams[c])}
  BY DEF Gap!Members
<1>4. Gap!Members(cams, "trusted") =
         {c \in DOMAIN cams : Gap!Placed(cams[c]) /\ Gap!CountsAsTrusted(cams[c])}
  BY DEF Gap!Members
<1>5. ASSUME NEW s \in Gap!Slice
      PROVE  /\ Gap!Members(cams, s) \subseteq Gap!Members(cams, "all")
             /\ IsFiniteSet(Gap!Members(cams, s))
             /\ Reach(cams, s) \subseteq Reach(cams, "all") /\ Reach(cams, s) \subseteq Spot
  <2>1. Gap!Members(cams, s) \subseteq Gap!Members(cams, "all") /\ Gap!Members(cams, s) \subseteq DOMAIN cams
    BY DEF Gap!Members
  <2>2. \A c \in Gap!Members(cams, s) : Gap!Cell(cams[c]) \subseteq Spot
    BY <2>1, <1>2, CellIs
  <2> QED  BY <2>1, <2>2, <1>2, FS_Subset DEF Reach
<1> QED  BY <1>2, <1>3, <1>4, <1>5

(* What a report tells, its sentences and its tables agree upon.           *)
LEMMA ToldAgrees ==
    ASSUME gap_report.of \in Run, Told(gap_report.of)
    PROVE  Gap!UndisturbedReportsAgree /\ Gap!UndisturbedTablesAgree
<1> DEFINE a == gap_report.of
           cs == a.cams
           all == a.slice["all"]
           trusted == a.slice["trusted"]
<1>1. /\ cs \in Estate /\ a.measured = Tasks3 /\ a.write = Counts(cs)
      /\ a.junctions.total = Cardinality(Junction) /\ a.junctions.covered = Cardinality(Reached(cs))
      /\ a.junctions.worst = Gap!First(ListMax, Junction \ Reached(cs))
  BY DEF Run, Told, Wrote, Counted, Listed
<1>2. /\ all = Reach(cs, "all") \cap Road /\ trusted = Reach(cs, "trusted") \cap Road
      /\ a.slice["anpr"] = Reach(cs, "anpr") \cap Road
  BY DEF Told, Measured, Tasks3, Gap!Slice
<1>3. a.districts = OnRoad(cs)
  BY DEF Told, Measured, Tasks3
<1> HIDE DEF a
<1>4. a.write.rows = Gap!Total(a) /\ a.write.withPolygon = Gap!Assessed(a)
  BY <1>1, GapNumber DEF Counts, Gap!Total, Gap!Assessed
<1>5. trusted \subseteq all /\ a.slice["anpr"] \subseteq all /\ all \subseteq Spot
  BY <1>1, <1>2, MembersAre DEF Gap!Slice
<1>6. Reached(cs) = Junction \cap trusted
  BY <1>2, GapFacts DEF Reached
<1>7. IsFiniteSet(all) /\ IsFiniteSet(trusted) /\ IsFiniteSet(Junction)
  BY <1>5, GapFacts, FS_Subset
<1>8. (Gap!Length(all) = 0 <=> all = {}) /\ (Gap!Length(trusted) = 0 <=> trusted = {})
  BY <1>7, GapNumber, FS_EmptySet DEF Gap!Length
<1>9. trusted # {} <=> \E c \in Gap!Members(cs, "trusted") : Gap!Cell(cs[c]) \cap (UNION Ways) # {}
  BY <1>2 DEF Reach, Road
<1>10. all # {} <=> OnRoad(cs) # {}
  <2>1. all # {} <=> \E c \in Gap!Members(cs, "all") : Gap!Cell(cs[c]) \cap Road # {}
    BY <1>2 DEF Reach
  <2>2. \A c \in Gap!Members(cs, "all") : cs[c].place \in Place
    BY <1>1, MembersAre DEF Gap!Placed, Gap!Row
  <2> QED  BY <2>1, <2>2 DEF OnRoad
<1>11. Gap!DeltaStatement(a) = IF all = {} THEN "no coverage" ELSE IF trusted = {} THEN Gap!ZeroTrustedCause(a) ELSE "delta"
  BY <1>8 DEF Gap!DeltaStatement
<1>12. Gap!ZeroTrustedCause(a) \in {"empty", "never probed", "no road in reach", "not placed", "none trusted"}
  BY DEF Gap!ZeroTrustedCause
<1>13. trusted # {} => all # {}
  BY <1>5
<1>14. Gap!DeltaStatement(a) = "delta" <=> trusted # {}
  BY <1>11, <1>12, <1>13
<1>15. Gap!DeltaStatement(a) = "no coverage" <=> all = {}
  BY <1>11, <1>12
<1>16. Gap!DeltaStatement(a) \notin {"no coverage", "delta"} => trusted = {} /\ Gap!DeltaStatement(a) = Gap!ZeroTrustedCause(a)
  BY <1>11
<1> DEFINE never == {c \in DOMAIN cs : cs[c].band = "never"}
           unplaced == {c \in DOMAIN cs : cs[c].band = "trusted" /\ ~Gap!Placed(cs[c])}
           members == Gap!Members(cs, "trusted")
<1>17. IsFiniteSet(DOMAIN cs) /\ IsFiniteSet(never) /\ IsFiniteSet(unplaced) /\ IsFiniteSet(members)
  BY <1>1, MembersAre, FS_Subset DEF Gap!Slice
<1>18. /\ Gap!Total(a) = Cardinality(DOMAIN cs) /\ Gap!NeverProbed(a) = Cardinality(never)
       /\ Gap!Trusted(a) = Cardinality(members) /\ Gap!UnplacedIn(a, "trusted") = Cardinality(unplaced)
  BY GapNumber DEF Gap!Total, Gap!NeverProbed, Gap!Trusted, Gap!UnplacedIn
<1>19. Gap!ZeroTrustedCause(a) = "never probed" => never = DOMAIN cs /\ Gap!Total(a) # 0
  BY <1>17, <1>18, FS_Subset, FS_CardinalityType DEF Gap!ZeroTrustedCause
<1>20. Gap!ZeroTrustedCause(a) = "not placed" => unplaced # {}
  BY <1>17, <1>18, FS_EmptySet DEF Gap!ZeroTrustedCause
<1>21. Gap!ZeroTrustedCause(a) = "none trusted" => unplaced = {} /\ members = {}
  BY <1>17, <1>18, FS_EmptySet, FS_CardinalityType DEF Gap!ZeroTrustedCause
<1>22. Gap!NeverProbed(a) # 0 => Gap!NeverProbed(a) > 0
  <2>1. Gap!NeverProbed(a) \in Nat
    BY <1>17, <1>18, FS_CardinalityType
  <2> QED  BY <2>1
<1>23. Gap!UndisturbedReportsAgree
  <2>1. Gap!DeltaStatement(a) = "not placed" => \E c \in DOMAIN cs : cs[c].band = "trusted"
    BY <1>16, <1>20
  <2>2. Gap!DeltaStatement(a) \in {"none trusted", "never probed"} => a.junctions.covered = 0
    BY <1>1, <1>6, <1>16, FS_EmptySet
  <2>3. a.junctions.covered = Gap!Cardinality(Junction \cap trusted)
    BY <1>1, <1>6, GapNumber
  <2> QED  BY <2>1, <2>2, <2>3, <1>4, <1>5, <1>9, <1>14 DEF Gap!UndisturbedReportsAgree, a
<1>24. Gap!UndisturbedTablesAgree
  <2> DEFINE un == Junction \ Reached(cs)
  <2>1. Cardinality(un) = Cardinality(Junction) - Cardinality(Reached(cs)) /\ IsFiniteSet(un) /\ un \in SUBSET Nat
    <3>1. Reached(cs) \subseteq Junction /\ IsFiniteSet(Reached(cs)) /\ IsFiniteSet(un)
      BY <1>7, FS_Subset DEF Reached
    <3>2. Junction = Reached(cs) \cup un /\ Reached(cs) \cap un = {}
      BY <3>1
    <3>3. Cardinality(Junction) = Cardinality(Reached(cs)) + Cardinality(un) - Cardinality({})
      BY <3>1, <3>2, FS_Union
    <3>4. Cardinality({}) = 0
      BY FS_EmptySet
    <3>5. Cardinality(Reached(cs)) \in Nat /\ Cardinality(un) \in Nat
      BY <3>1, FS_CardinalityType
    <3>6. un \in SUBSET Nat
      BY GapFacts
    <3> HIDE DEF un
    <3> QED  BY <3>1, <3>3, <3>4, <3>5, <3>6
  <2> HIDE DEF un
  <2>2. LET j == Gap!Markdown(a).junctions
        IN j.uncovered = Cardinality(un) /\ j.listed = Gap!First(ListMax, un) /\ j.noneFound = (Gap!First(ListMax, un) = {})
    BY <1>1, <2>1 DEF Gap!Markdown, Gap!JunctionTable, un
  <2>3. /\ Cardinality(Gap!First(ListMax, un)) = IF Cardinality(un) < ListMax THEN Cardinality(un) ELSE ListMax
        /\ IsFiniteSet(Gap!First(ListMax, un))
    BY <2>1, GapFacts, FirstIs
  <2>4. Gap!First(ListMax, un) = {} <=> Cardinality(un) = 0
    BY <2>1, <2>3, GapFacts, FS_EmptySet, FS_CardinalityType
  <2>5. Gap!Markdown(a).districts.none <=> Gap!Markdown(a).headline = "no coverage"
    BY <1>3, <1>10, <1>15 DEF Gap!Markdown, Gap!DistrictTable
  <2>6. Gap!Cardinality({c \in DOMAIN Gap!Markdown(a).cameras : Gap!Markdown(a).cameras[c]}) = a.write.withPolygon
    <3>1. {c \in DOMAIN Gap!Markdown(a).cameras : Gap!Markdown(a).cameras[c]} = {c \in DOMAIN cs : Gap!Placed(cs[c])}
      BY DEF Gap!Markdown, Gap!CameraTable
    <3> QED  BY <3>1, <1>4 DEF Gap!Assessed
  <2>7. Gap!Markdown(a).headline = "never probed" =>
           Gap!Markdown(a).probeThem /\ Gap!Markdown(a).slices["trusted"].cameras = 0
    <3> SUFFICES ASSUME Gap!DeltaStatement(a) = "never probed"
                 PROVE  Gap!NeverProbed(a) > 0 /\ Gap!Cardinality(members) = 0
      BY DEF Gap!Markdown, Gap!SliceTable, Gap!Slice
    <3>1. never = DOMAIN cs /\ Gap!Total(a) # 0
      BY <1>16, <1>19
    <3>2. members = {}
      BY <3>1, <1>1, MembersAre DEF Gap!CountsAsTrusted
    <3>3. Gap!NeverProbed(a) # 0
      BY <3>1, <1>18
    <3>5. Gap!Cardinality(members) = 0
      BY <3>2, FS_EmptySet, GapNumber
    <3> QED  BY <3>3, <3>5, <1>22
  <2>8. Gap!Markdown(a).headline = "none trusted" /\ "trusted" \in DOMAIN Gap!Markdown(a).bands =>
           \E c \in DOMAIN cs : cs[c].blind
    <3> SUFFICES ASSUME Gap!DeltaStatement(a) = "none trusted",
                        "trusted" \in {cs[c].band : c \in DOMAIN cs}
                 PROVE  \E c \in DOMAIN cs : cs[c].blind
      BY DEF Gap!Markdown, Gap!BandTable
    <3>1. PICK c \in DOMAIN cs : cs[c].band = "trusted"
      OBVIOUS
    <3>2. unplaced = {} /\ members = {}
      BY <1>16, <1>21
    <3>3. Gap!Placed(cs[c]) /\ ~Gap!CountsAsTrusted(cs[c])
      BY <3>1, <3>2, <1>1, MembersAre
    <3> QED  BY <3>1, <3>3 DEF Gap!CountsAsTrusted
  <2> QED  BY <2>2, <2>3, <2>4, <2>5, <2>6, <2>7, <2>8, GapNumber DEF Gap!UndisturbedTablesAgree, a
<1> QED  BY <1>23, <1>24
(* A run that has come one statement further.                              *)
LEMMA FurtherIs ==
    ASSUME NEW a \in Run, NEW p \in Steps
    PROVE  LET b == [a EXCEPT !.pc = p]
           IN /\ b \in Run /\ b.pc = p /\ b.cams = a.cams /\ b.write = a.write /\ b.slice = a.slice
              /\ b.measured = a.measured /\ b.districts = a.districts /\ b.junctions = a.junctions /\ b.calm = a.calm
BY DEF Run

LEMMA Steady ==
    ASSUME UNCHANGED gap_registry
    PROVE  Loaded' = Loaded /\ Gap!Rows' = Gap!Rows /\ Gap!Live' = Gap!Live
BY DEF Loaded, Gap!Rows, Gap!Live

LEMMA BlankIs == Gap!Blank \in Run /\ [Gap!Blank EXCEPT !.pc = "done"] \in Run
                 /\ [Gap!Blank EXCEPT !.pc = "done"].pc = "done" /\ Gap!Blank.pc = "idle"
<1>1. Gap!None \in Estate
  BY DEF Gap!None, Estate
<1>2. Gap!NoTotals \in [rows : Nat, withPolygon : Nat] /\ Gap!NoJunctions \in Found
      /\ [s \in Gap!Slice |-> {}] \in [Gap!Slice -> SUBSET Spot]
  BY DEF Gap!NoTotals, Gap!NoJunctions, Found
<1>3. Gap!Blank \in Run /\ Gap!Blank.pc = "idle"
  BY <1>1, <1>2 DEF Gap!Blank, Run, Steps
<1> QED  BY <1>3, FurtherIs DEF Steps

(* A step of one run leaves the others alone; one nobody disturbed is the  *)
(* only one under way.                                                     *)
LEMMA RunsAre ==
    ASSUME GapInv, NEW r \in Runner, Active(gap_run[r]), NEW a \in Run,
           gap_run' = [gap_run EXCEPT ![r] = a], UNCHANGED gap_registry,
           a.pc # "idle", a.calm /\ Active(a) => gap_run[r].calm /\ RunOK(a)'
    PROVE  /\ gap_run' \in [Runner -> Run] /\ gap_run'[r] = a
           /\ \A o \in Runner : gap_run'[o].pc = "idle" => gap_run'[o] = Gap!Blank
           /\ \A o \in Runner \ {r} : gap_run'[o] = gap_run[o]
           /\ \A o \in Runner : Active(gap_run'[o]) /\ gap_run'[o].calm
                 => Gap!Alone(o)' /\ RunOK(gap_run[o])'
<1>1. gap_run \in [Runner -> Run]
  BY DEF GapInv
<1>2. gap_run' \in [Runner -> Run] /\ gap_run'[r] = a /\ \A o \in Runner \ {r} : gap_run'[o] = gap_run[o]
  BY <1>1
<1>3. ASSUME NEW o \in Runner, Active(gap_run'[o]), gap_run'[o].calm
      PROVE  Gap!Alone(o)' /\ RunOK(gap_run[o])'
  <2>1. CASE o = r
    <3>1. gap_run[r].calm /\ RunOK(a)'
      BY <1>2, <1>3, <2>1
    <3>2. Gap!Alone(r)
      BY <3>1 DEF GapInv
    <3>3. Gap!Alone(o)'
      BY <3>2, <1>2, <2>1 DEF Gap!Alone
    <3>4. (gap_run[o])' = a
      BY <1>2, <2>1
    <3> QED  BY <3>1, <3>3, <3>4
  <2>2. CASE o # r
    <3>1. Active(gap_run[o]) /\ gap_run[o].calm
      BY <1>2, <1>3, <2>2
    <3>2. Gap!Alone(o)
      BY <3>1 DEF GapInv
    <3> QED  BY <3>2, <2>2 DEF Gap!Alone, Active
  <2> QED  BY <2>1, <2>2
<1>4. ASSUME NEW o \in Runner, gap_run'[o].pc = "idle" PROVE gap_run'[o] = Gap!Blank
  BY <1>2, <1>4 DEF GapInv
<1> QED  BY <1>2, <1>3, <1>4

(* Before and after a step, on the table.                                  *)
LEMMA TableSame ==
    ASSUME GapInv, NEW r \in Runner, Active(gap_run[r]), NEW a \in Run, gap_run[r].pc # "delete",
           a.pc \notin {"idle", "delete", "insert"},
           gap_run' = [gap_run EXCEPT ![r] = a], UNCHANGED <<gap_registry, gap_table, gap_edits>>,
           gap_run[r].pc = "insert" /\ gap_edits = 0 => gap_table = Gap!Rows
    PROVE  Gap!TableIsWhole'
<1>1. gap_run'[r] = a /\ \A o \in Runner \ {r} : gap_run'[o] = gap_run[o]
  BY DEF GapInv
<1> SUFFICES ASSUME (\A o \in Runner : gap_run'[o].pc # "insert"), gap_edits = 0
             PROVE  gap_table = [c \in Gap!Live |-> Gap!Cell(gap_registry[c])]
  BY Steady DEF Gap!TableIsWhole
<1>2. CASE gap_run[r].pc = "insert"
  BY <1>2 DEF Gap!Rows
<1>3. CASE gap_run[r].pc # "insert"
  <2>1. gap_run[r].pc \notin {"idle", "delete", "insert"}
    BY <1>3 DEF Active
  <2>2. \A o \in Runner : gap_run[o].pc # "insert"
    BY <1>1, <2>1
  <2> QED  BY <2>1, <2>2 DEF GapInv, Gap!TableIsWhole
<1> QED  BY <1>2, <1>3

LEMMA GapInit == gap_registry \in Estates /\ Gap!Init => GapInv
<1> SUFFICES ASSUME gap_registry \in Estates, Gap!Init PROVE GapInv
  OBVIOUS
<1>1. gap_registry \in [Camera -> Gap!Row] /\ gap_edits \in 0..MaxEdits
  BY GapFacts DEF Gap!Init
<1>2. \A r \in Runner : gap_run[r] = Gap!Blank
  BY DEF Gap!Init
<1>3. gap_run \in [Runner -> Run] /\ \A r \in Runner : gap_run[r].pc = "idle"
  BY BlankIs DEF Gap!Init
<1>4. gap_table = Gap!None /\ DOMAIN gap_table = {}
  BY DEF Gap!Init, Gap!None
<1>5. gap_report \in [given : BOOLEAN, of : Run] /\ ~gap_report.given
  BY BlankIs DEF Gap!Init, Gap!NoReport
<1>6. Gap!TableIsWhole
  BY <1>3 DEF Gap!TableIsWhole
<1> QED  BY <1>1, <1>2, <1>3, <1>4, <1>5, <1>6 DEF GapInv, Active
LEMMA DisturbedIs ==
    ASSUME gap_run \in [Runner -> Run], NEW but
    PROVE  LET d == Gap!Disturbed(gap_run, but)
           IN /\ d \in [Runner -> Run]
              /\ \A o \in Runner : d[o].pc = gap_run[o].pc
              /\ \A o \in Runner : o \in but => d[o] = gap_run[o]
              /\ \A o \in Runner : ~Active(gap_run[o]) => d[o] = gap_run[o]
              /\ \A o \in Runner \ but : Active(gap_run[o]) => ~d[o].calm
<1>1. \A a \in Run : LET b == [a EXCEPT !.calm = FALSE] IN b \in Run /\ b.pc = a.pc /\ ~b.calm
  BY DEF Run
<1> QED  BY <1>1 DEF Gap!Disturbed, Active

LEMMA LoadStep == ASSUME GapInv, NEW r \in Runner, Gap!Load(r) PROVE GapInv'
<1> DEFINE d == Gap!Disturbed(gap_run, {r})
<1>1. gap_run[r].pc = "idle" /\ UNCHANGED <<gap_registry, gap_table, gap_report, gap_edits>>
  BY DEF Gap!Load
<1>2. /\ d \in [Runner -> Run] /\ d[r] = gap_run[r] /\ gap_run \in [Runner -> Run]
      /\ \A o \in Runner : d[o].pc = gap_run[o].pc
      /\ \A o \in Runner \ {r} : Active(gap_run[o]) => ~d[o].calm
      /\ \A o \in Runner : ~Active(gap_run[o]) => d[o] = gap_run[o]
  <2>1. gap_run \in [Runner -> Run] /\ ~Active(gap_run[r])
    BY <1>1 DEF GapInv, Active
  <2>2. /\ d \in [Runner -> Run]
        /\ \A o \in Runner : d[o].pc = gap_run[o].pc
        /\ \A o \in Runner : o \in {r} => d[o] = gap_run[o]
        /\ \A o \in Runner : ~Active(gap_run[o]) => d[o] = gap_run[o]
        /\ \A o \in Runner \ {r} : Active(gap_run[o]) => ~d[o].calm
    BY <2>1, DisturbedIs
  <2> HIDE DEF d
  <2>3. d[r] = gap_run[r]
    BY <2>2
  <2> QED  BY <2>1, <2>2, <2>3
<1>3. gap_run' = [d EXCEPT ![r].pc = "delete", ![r].cams = Loaded, ![r].calm = Gap!Alone(r)]
  BY DEF Gap!Load, Loaded
<1>4. Gap!Alone(r) \in BOOLEAN
  BY DEF Gap!Alone
<1> HIDE DEF d
<1>5. PICK k \in BOOLEAN : k = Gap!Alone(r)
  BY <1>4
<1>6. PICK cams \in Estate : cams = Loaded
  BY LoadedIs DEF GapInv
<1>7. PICK a : a = [d[r] EXCEPT !.pc = "delete", !.cams = cams, !.calm = k]
  OBVIOUS
<1>8. /\ a \in Run /\ a.pc = "delete" /\ a.cams = cams /\ a.calm = k /\ a.measured = {}
  <2>1. d[r] \in Run /\ d[r].measured = {}
    BY <1>1, <1>2 DEF GapInv, Gap!Blank
  <2> QED  BY <2>1, <1>7 DEF Run, Steps
<1>9. gap_run' = [d EXCEPT ![r] = a]
  BY <1>2, <1>3, <1>5, <1>6, <1>7
<1>10. gap_run' \in [Runner -> Run] /\ gap_run'[r] = a /\ \A o \in Runner \ {r} : gap_run'[o] = d[o]
  BY <1>2, <1>8, <1>9
<1>11. ASSUME NEW o \in Runner, Active(gap_run'[o]), gap_run'[o].calm
       PROVE  Gap!Alone(o)' /\ RunOK(gap_run[o])'
  <2>1. o = r
    BY <1>2, <1>10, <1>11 DEF Active
  <2>2. Gap!Alone(r)
    BY <2>1, <1>5, <1>8, <1>10, <1>11
  <2>3. Gap!Alone(o)'
    BY <2>1, <2>2, <1>2, <1>10 DEF Gap!Alone
  <2>4. RunOK(a)'
    BY <1>1, <1>6, <1>8, Steady DEF RunOK, Measured
  <2>5. (gap_run[o])' = a
    BY <2>1, <1>10
  <2> QED  BY <2>3, <2>4, <2>5
<1>12. ASSUME NEW o \in Runner, gap_run'[o].pc = "idle" PROVE gap_run'[o] = Gap!Blank
  BY <1>2, <1>8, <1>10, <1>12 DEF GapInv, Active
<1>13. Gap!TableIsWhole'
  <2>1. \A o \in Runner : gap_run'[o].pc = gap_run[o].pc \/ (o = r /\ gap_run'[o].pc = "delete")
    BY <1>2, <1>8, <1>10
  <2>2. Gap!TableIsWhole
    BY DEF GapInv
  <2> QED  BY <2>1, <2>2, <1>1, Steady DEF Gap!TableIsWhole
<1> QED  BY <1>1, <1>10, <1>11, <1>12, <1>13, Steady DEF GapInv, Told, Wrote, Counted, Listed, Measured

(* A step of a run that touches neither the registry nor the table.        *)
LEMMA RunStep ==
    ASSUME GapInv, NEW r \in Runner, NEW a \in Run, gap_run[r].pc \in {"count", "measure", "worst"},
           a.pc \in {"measure", "worst", "publish"}, a.calm = gap_run[r].calm, a.cams = gap_run[r].cams,
           gap_run' = [gap_run EXCEPT ![r] = a], UNCHANGED <<gap_registry, gap_table, gap_report, gap_edits>>,
           gap_run[r].calm /\ RunOK(gap_run[r]) => RunOK(a)
    PROVE  GapInv'
<1>1. Active(gap_run[r])
  BY DEF Active
<1>2. a.calm /\ Active(a) => gap_run[r].calm /\ RunOK(a)'
  <2> SUFFICES ASSUME a.calm PROVE RunOK(a)'
    OBVIOUS
  <2>1. RunOK(a)
    BY <1>1 DEF GapInv
  <2> QED  BY <2>1, Steady DEF RunOK
<1>3. /\ gap_run' \in [Runner -> Run]
      /\ \A o \in Runner : gap_run'[o].pc = "idle" => gap_run'[o] = Gap!Blank
      /\ \A o \in Runner : Active(gap_run'[o]) /\ gap_run'[o].calm
            => Gap!Alone(o)' /\ RunOK(gap_run[o])'
  BY <1>1, <1>2, RunsAre
<1>4. Gap!TableIsWhole'
  BY <1>1, TableSame
<1> QED  BY <1>3, <1>4, Steady DEF GapInv, Told, Wrote, Counted, Listed, Measured
LEMMA DeleteStep == ASSUME GapInv, NEW r \in Runner, Gap!Delete(r) PROVE GapInv'
<1>1. gap_run[r].pc = "delete" /\ gap_table' = Gap!None /\ UNCHANGED <<gap_registry, gap_report, gap_edits>>
      /\ gap_run \in [Runner -> Run]
  BY DEF Gap!Delete, GapInv
<1>2. PICK a : a = [gap_run[r] EXCEPT !.pc = "insert"]
  OBVIOUS
<1>3. /\ a \in Run /\ a.pc = "insert" /\ a.cams = gap_run[r].cams /\ a.slice = gap_run[r].slice
      /\ a.measured = gap_run[r].measured /\ a.districts = gap_run[r].districts /\ a.calm = gap_run[r].calm
  BY <1>1, <1>2, FurtherIs DEF Steps
<1>4. gap_run' = [gap_run EXCEPT ![r] = a]
  BY <1>1, <1>2 DEF Gap!Delete
<1>5. a.calm /\ Active(a) => gap_run[r].calm /\ RunOK(a)'
  <2> SUFFICES ASSUME a.calm PROVE RunOK(a)'
    BY <1>3
  <2>1. RunOK(gap_run[r])
    BY <1>1, <1>3 DEF GapInv, Active
  <2> QED  BY <2>1, <1>1, <1>3, Steady DEF RunOK, Measured
<1>6. /\ gap_run' \in [Runner -> Run] /\ gap_run'[r] = a
      /\ \A o \in Runner : gap_run'[o].pc = "idle" => gap_run'[o] = Gap!Blank
      /\ \A o \in Runner : Active(gap_run'[o]) /\ gap_run'[o].calm
            => Gap!Alone(o)' /\ RunOK(gap_run[o])'
  <2>1. Active(gap_run[r]) /\ a.pc # "idle"
    BY <1>1, <1>3 DEF Active
  <2> QED  BY <2>1, <1>1, <1>3, <1>4, <1>5, RunsAre
<1>7. Gap!TableIsWhole'
  BY <1>3, <1>6 DEF Gap!TableIsWhole
<1>8. DOMAIN gap_table' = {}
  BY <1>1 DEF Gap!None
<1> QED  BY <1>1, <1>6, <1>7, <1>8, Steady DEF GapInv, Told, Wrote, Counted, Listed, Measured

LEMMA InsertStep == ASSUME GapInv, NEW r \in Runner, Gap!Insert(r) PROVE GapInv'
<1>1. gap_run[r].pc = "insert" /\ UNCHANGED <<gap_registry, gap_report, gap_edits>> /\ Active(gap_run[r])
      /\ gap_registry \in [Camera -> Gap!Row] /\ gap_run \in [Runner -> Run]
  BY DEF Gap!Insert, GapInv, Active
<1>2. CASE DOMAIN gap_table \cap DOMAIN Gap!Rows = {}
  <2>1. gap_table' = [c \in DOMAIN gap_table \cup DOMAIN Gap!Rows |->
                         IF c \in DOMAIN Gap!Rows THEN Gap!Rows[c] ELSE gap_table[c]]
        /\ gap_run' = [gap_run EXCEPT ![r].pc = "count"]
    BY <1>2 DEF Gap!Insert
  <2>2. \A c \in DOMAIN Gap!Rows : c \in Camera /\ Gap!Rows[c] \subseteq Spot
    BY <1>1, LoadedIs, CellIs
  <2>3. DOMAIN gap_table' \subseteq Camera /\ \A c \in DOMAIN gap_table' : gap_table'[c] \subseteq Spot
    BY <2>1, <2>2 DEF GapInv
  <2>4. gap_table = Gap!None => gap_table' = Gap!Rows
    <3> SUFFICES ASSUME gap_table = Gap!None PROVE gap_table' = Gap!Rows
      OBVIOUS
    <3>1. DOMAIN gap_table = {}
      BY DEF Gap!None
    <3>2. gap_table' = [c \in DOMAIN Gap!Rows |-> Gap!Rows[c]]
      BY <2>1, <3>1
    <3> QED  BY <3>2 DEF Gap!Rows
  <2>5. gap_table = Gap!Rows => gap_table' = Gap!Rows
    <3> SUFFICES ASSUME gap_table = Gap!Rows PROVE gap_table' = Gap!Rows
      OBVIOUS
    <3>1. gap_table' = [c \in DOMAIN Gap!Rows |-> Gap!Rows[c]]
      BY <2>1
    <3> QED  BY <3>1 DEF Gap!Rows
  <2>6. PICK a : a = [gap_run[r] EXCEPT !.pc = "count"]
    OBVIOUS
  <2>7. /\ a \in Run /\ a.pc = "count" /\ a.cams = gap_run[r].cams /\ a.slice = gap_run[r].slice
        /\ a.measured = gap_run[r].measured /\ a.districts = gap_run[r].districts /\ a.calm = gap_run[r].calm
    BY <1>1, <2>6, FurtherIs DEF Steps
  <2>8. gap_run' = [gap_run EXCEPT ![r] = a]
    BY <1>1, <2>1, <2>6
  <2>9. a.calm /\ Active(a) => gap_run[r].calm /\ RunOK(a)'
    <3> SUFFICES ASSUME a.calm PROVE RunOK(a)'
      BY <2>7
    <3>1. RunOK(gap_run[r])
      BY <1>1, <2>7 DEF GapInv
    <3>2. gap_table' = Gap!Rows
      BY <3>1, <1>1, <2>4 DEF RunOK
    <3> QED  BY <3>1, <3>2, <1>1, <2>7, Steady DEF RunOK, Measured
  <2>10. /\ gap_run' \in [Runner -> Run] /\ gap_run'[r] = a
         /\ \A o \in Runner : gap_run'[o].pc = "idle" => gap_run'[o] = Gap!Blank
         /\ \A o \in Runner : Active(gap_run'[o]) /\ gap_run'[o].calm
               => Gap!Alone(o)' /\ RunOK(gap_run[o])'
    <3>1. a.pc # "idle"
      BY <2>7
    <3> QED  BY <3>1, <1>1, <2>7, <2>8, <2>9, RunsAre
  <2>11. gap_edits = 0 => gap_table' = Gap!Rows
    BY <2>4, <2>5 DEF GapInv
  <2>12. Gap!TableIsWhole'
    BY <1>1, <2>11, Steady DEF Gap!TableIsWhole, Gap!Rows
  <2> QED  BY <1>1, <2>3, <2>10, <2>11, <2>12, Steady DEF GapInv, Told, Wrote, Counted, Listed, Measured
<1>3. CASE DOMAIN gap_table \cap DOMAIN Gap!Rows # {}
  <2>1. gap_table' = gap_table /\ gap_run' = [gap_run EXCEPT ![r] = [Gap!Blank EXCEPT !.pc = "done"]]
    BY <1>3 DEF Gap!Insert
  <2>2. PICK a : a = [Gap!Blank EXCEPT !.pc = "done"]
    OBVIOUS
  <2>3. a \in Run /\ a.pc = "done" /\ ~Active(a)
    BY <2>2, BlankIs DEF Active
  <2>4. gap_run' = [gap_run EXCEPT ![r] = a]
    BY <2>1, <2>2
  <2>5. /\ gap_run' \in [Runner -> Run] /\ gap_run'[r] = a
        /\ \A o \in Runner : gap_run'[o].pc = "idle" => gap_run'[o] = Gap!Blank
        /\ \A o \in Runner : Active(gap_run'[o]) /\ gap_run'[o].calm
              => Gap!Alone(o)' /\ RunOK(gap_run[o])'
    <3>1. a.pc # "idle"
      BY <2>3
    <3> QED  BY <3>1, <1>1, <2>3, <2>4, RunsAre
  <2>6. gap_edits = 0 => gap_table = Gap!Rows
    <3> SUFFICES ASSUME gap_table = Gap!None PROVE FALSE
      BY DEF GapInv
    <3> QED  BY <1>3 DEF Gap!None
  <2>7. Gap!TableIsWhole'
    <3>1. gap_run[r].pc # "delete" /\ a.pc \notin {"idle", "delete", "insert"}
      BY <1>1, <2>3
    <3> QED  BY <3>1, <1>1, <2>1, <2>3, <2>4, <2>6, TableSame
  <2> QED  BY <1>1, <2>1, <2>5, <2>7, Steady DEF GapInv, Told, Wrote, Counted, Listed, Measured
<1> QED  BY <1>2, <1>3

LEMMA CountStep == ASSUME GapInv, NEW r \in Runner, Gap!Count(r) PROVE GapInv'
<1> DEFINE totals == [rows |-> Gap!Cardinality(DOMAIN gap_table),
                      withPolygon |-> Gap!Cardinality({c \in DOMAIN gap_table : gap_table[c] # {}})]
<1>1. gap_run[r].pc = "count" /\ UNCHANGED <<gap_registry, gap_table, gap_report, gap_edits>>
      /\ gap_run' = [gap_run EXCEPT ![r].pc = "measure", ![r].write = totals] /\ gap_run \in [Runner -> Run]
  BY DEF Gap!Count, GapInv
<1>2. totals \in [rows : Nat, withPolygon : Nat]
  <2>1. IsFiniteSet(DOMAIN gap_table) /\ IsFiniteSet({c \in DOMAIN gap_table : gap_table[c] # {}})
    BY GapFacts, FS_Subset DEF GapInv
  <2> QED  BY <2>1, GapNumber, FS_CardinalityType
<1>3. gap_table = Gap!Rows => totals = Counts(Loaded)
  BY CountsAre DEF GapInv
<1> HIDE DEF totals
<1>4. PICK w \in [rows : Nat, withPolygon : Nat] : w = totals
  BY <1>2
<1>5. PICK a : a = [gap_run[r] EXCEPT !.pc = "measure", !.write = w]
  OBVIOUS
<1>6. /\ a \in Run /\ a.pc = "measure" /\ a.write = w /\ a.cams = gap_run[r].cams /\ a.slice = gap_run[r].slice
      /\ a.measured = gap_run[r].measured /\ a.districts = gap_run[r].districts /\ a.calm = gap_run[r].calm
  BY <1>1, <1>5 DEF Run, Steps
<1>7. gap_run' = [gap_run EXCEPT ![r] = a]
  BY <1>1, <1>4, <1>5
<1>8. RunOK(gap_run[r]) => RunOK(a)
  BY <1>1, <1>3, <1>4, <1>6 DEF RunOK, Measured, Wrote
<1> QED  BY <1>1, <1>6, <1>7, <1>8, RunStep
LEMMA MeasureStep == ASSUME GapInv, NEW r \in Runner, NEW s \in Gap!Slice, Gap!Measure(r, s) PROVE GapInv'
<1> DEFINE ids == Gap!Members(gap_run[r].cams, s)
<1>1. gap_run[r].pc = "measure" /\ UNCHANGED <<gap_registry, gap_table, gap_report, gap_edits>>
      /\ gap_run' = [gap_run EXCEPT ![r].slice[s] = Gap!Covered(ids), ![r].measured = @ \cup {s}]
      /\ gap_run \in [Runner -> Run] /\ gap_registry \in [Camera -> Gap!Row]
  BY DEF Gap!Measure, GapInv
<1>2. Gap!Covered(ids) \in SUBSET Spot
  BY GapFacts DEF Gap!Covered, Gap!Candidates, Road
<1>3. RunOK(gap_run[r]) => Gap!Covered(ids) = Reach(gap_run[r].cams, s) \cap Road
  BY <1>1, CoveredIs DEF RunOK
<1> HIDE DEF ids
<1>4. PICK x \in SUBSET Spot : x = Gap!Covered(ids)
  BY <1>2
<1>5. PICK a : a = [gap_run[r] EXCEPT !.slice[s] = x, !.measured = @ \cup {s}]
  OBVIOUS
<1>6. gap_run[r] \in Run /\ gap_run[r].slice \in [Gap!Slice -> SUBSET Spot] /\ s \in Tasks3
  BY <1>1 DEF Run, Tasks3
<1>7. /\ a \in Run /\ a.pc = "measure" /\ a.write = gap_run[r].write /\ a.cams = gap_run[r].cams
      /\ a.slice = [gap_run[r].slice EXCEPT ![s] = x] /\ a.measured = gap_run[r].measured \cup {s}
      /\ a.districts = gap_run[r].districts /\ a.calm = gap_run[r].calm
  BY <1>1, <1>5, <1>6 DEF Run, Steps
<1>8. gap_run' = [gap_run EXCEPT ![r] = a]
  BY <1>1, <1>4, <1>5
<1>9. RunOK(gap_run[r]) => RunOK(a)
  <2> SUFFICES ASSUME RunOK(gap_run[r]) PROVE RunOK(a)
    OBVIOUS
  <2>1. Measured(gap_run[r])
    BY DEF RunOK
  <2>2. a.slice[s] = Reach(a.cams, s) \cap Road
    BY <1>3, <1>4, <1>6, <1>7
  <2>3. ASSUME NEW t \in Gap!Slice, t \in a.measured PROVE a.slice[t] = Reach(a.cams, t) \cap Road
    <3>1. CASE t = s
      BY <3>1, <2>2
    <3>2. CASE t # s
      <4>1. a.slice[t] = gap_run[r].slice[t] /\ t \in gap_run[r].measured
        BY <3>2, <2>3, <1>6, <1>7
      <4> QED  BY <4>1, <2>1, <1>7 DEF Measured
    <3> QED  BY <3>1, <3>2
  <2>4. "districts" \in a.measured => a.districts = OnRoad(a.cams)
    BY <2>1, <1>7 DEF Measured, Gap!Slice
  <2>5. Measured(a)
    BY <2>3, <2>4 DEF Measured
  <2> QED  BY <2>5, <1>1, <1>7 DEF RunOK, Wrote
<1> QED  BY <1>1, <1>7, <1>8, <1>9, RunStep

LEMMA DistrictsStep == ASSUME GapInv, NEW r \in Runner, Gap!Districts(r) PROVE GapInv'
<1> DEFINE ids == {c \in Gap!Members(gap_run[r].cams, "all") : gap_registry[c].live}
           on == {p \in Place : \E c \in ids : gap_registry[c].place = p
                                     /\ Gap!Cell(gap_registry[c]) \cap (UNION Ways) # {}}
<1>1. gap_run[r].pc = "measure" /\ UNCHANGED <<gap_registry, gap_table, gap_report, gap_edits>>
      /\ gap_run' = [gap_run EXCEPT ![r].districts = on, ![r].measured = @ \cup {"districts"}]
      /\ gap_run \in [Runner -> Run] /\ gap_registry \in [Camera -> Gap!Row]
  BY DEF Gap!Districts, GapInv
<1>2. RunOK(gap_run[r]) => on = OnRoad(gap_run[r].cams)
  BY <1>1, DistrictsAre DEF RunOK
<1>3. on \in SUBSET Place
  OBVIOUS
<1> HIDE DEF on
<1>4. PICK x \in SUBSET Place : x = on
  BY <1>3
<1>5. PICK a : a = [gap_run[r] EXCEPT !.districts = x, !.measured = @ \cup {"districts"}]
  OBVIOUS
<1>6. /\ a \in Run /\ a.pc = "measure" /\ a.write = gap_run[r].write /\ a.cams = gap_run[r].cams
      /\ a.slice = gap_run[r].slice /\ a.measured = gap_run[r].measured \cup {"districts"}
      /\ a.districts = x /\ a.calm = gap_run[r].calm
  BY <1>1, <1>5 DEF Run, Steps, Tasks3
<1>7. gap_run' = [gap_run EXCEPT ![r] = a]
  BY <1>1, <1>4, <1>5
<1>8. RunOK(gap_run[r]) => RunOK(a)
  <2> SUFFICES ASSUME RunOK(gap_run[r]) PROVE RunOK(a)
    OBVIOUS
  <2>1. Measured(gap_run[r]) /\ "districts" \notin Gap!Slice
    BY DEF RunOK, Gap!Slice
  <2>2. Measured(a)
    BY <2>1, <1>2, <1>4, <1>6 DEF Measured
  <2> QED  BY <2>2, <1>1, <1>6 DEF RunOK, Wrote
<1> QED  BY <1>1, <1>6, <1>7, <1>8, RunStep

LEMMA JunctionsStep == ASSUME GapInv, NEW r \in Runner, Gap!Junctions(r) PROVE GapInv'
<1> DEFINE ids == Gap!Members(gap_run[r].cams, "trusted")
           found == {j \in Junction : Gap!Reached(ids, j)}
<1>1. gap_run[r].pc = "measure" /\ UNCHANGED <<gap_registry, gap_table, gap_report, gap_edits>>
      /\ gap_run' = [gap_run EXCEPT ![r].pc = "worst", ![r].junctions.total = Gap!Cardinality(Junction),
                                    ![r].junctions.covered = Gap!Cardinality(found)]
      /\ gap_run \in [Runner -> Run] /\ gap_registry \in [Camera -> Gap!Row]
      /\ gap_run[r].measured = Tasks3
  BY DEF Gap!Junctions, GapInv, Tasks3
<1>2. RunOK(gap_run[r]) => found = Reached(gap_run[r].cams)
  BY <1>1, ReachedAre DEF RunOK
<1>3. Gap!Cardinality(Junction) \in Nat /\ Gap!Cardinality(found) \in Nat
  <2>1. IsFiniteSet(Junction) /\ IsFiniteSet(found)
    BY GapFacts, FS_Subset
  <2> QED  BY <2>1, GapNumber, FS_CardinalityType
<1> HIDE DEF found
<1>4. PICK t \in Nat : t = Gap!Cardinality(Junction)
  BY <1>3
<1>5. PICK k \in Nat : k = Gap!Cardinality(found)
  BY <1>3
<1>6. PICK a : a = [gap_run[r] EXCEPT !.pc = "worst", !.junctions.total = t, !.junctions.covered = k]
  OBVIOUS
<1>7. gap_run[r] \in Run /\ gap_run[r].junctions \in Found
  BY <1>1 DEF Run
<1>8. /\ a \in Run /\ a.pc = "worst" /\ a.write = gap_run[r].write /\ a.cams = gap_run[r].cams
      /\ a.slice = gap_run[r].slice /\ a.measured = gap_run[r].measured
      /\ a.districts = gap_run[r].districts /\ a.calm = gap_run[r].calm
      /\ a.junctions.total = t /\ a.junctions.covered = k
  BY <1>6, <1>7 DEF Run, Steps, Found
<1>9. gap_run' = [gap_run EXCEPT ![r] = a]
  BY <1>1, <1>4, <1>5, <1>6
<1>10. RunOK(gap_run[r]) => RunOK(a)
  BY <1>1, <1>2, <1>4, <1>5, <1>8, GapNumber DEF RunOK, Measured, Wrote, Counted
<1> QED  BY <1>1, <1>8, <1>9, <1>10, RunStep

LEMMA WorstStep == ASSUME GapInv, NEW r \in Runner, Gap!Worst(r) PROVE GapInv'
<1> DEFINE ids == Gap!Members(gap_run[r].cams, "trusted")
           left == {j \in Junction : ~Gap!Reached(ids, j)}
<1>1. gap_run[r].pc = "worst" /\ UNCHANGED <<gap_registry, gap_table, gap_report, gap_edits>>
      /\ gap_run' = [gap_run EXCEPT ![r].pc = "publish", ![r].junctions.worst = Gap!First(ListMax, left)]
      /\ gap_run \in [Runner -> Run] /\ gap_registry \in [Camera -> Gap!Row]
  BY DEF Gap!Worst, GapInv
<1>2. RunOK(gap_run[r]) => left = Junction \ Reached(gap_run[r].cams)
  BY <1>1, ReachedAre DEF RunOK
<1>3. Gap!First(ListMax, left) \in SUBSET Junction
  BY DEF Gap!First
<1> HIDE DEF left
<1>4. PICK x \in SUBSET Junction : x = Gap!First(ListMax, left)
  BY <1>3
<1>5. PICK a : a = [gap_run[r] EXCEPT !.pc = "publish", !.junctions.worst = x]
  OBVIOUS
<1>6. gap_run[r] \in Run /\ gap_run[r].junctions \in Found
  BY <1>1 DEF Run
<1>7. /\ a \in Run /\ a.pc = "publish" /\ a.write = gap_run[r].write /\ a.cams = gap_run[r].cams
      /\ a.slice = gap_run[r].slice /\ a.measured = gap_run[r].measured
      /\ a.districts = gap_run[r].districts /\ a.calm = gap_run[r].calm
      /\ a.junctions.total = gap_run[r].junctions.total /\ a.junctions.covered = gap_run[r].junctions.covered
      /\ a.junctions.worst = x
  BY <1>5, <1>6 DEF Run, Steps, Found
<1>8. gap_run' = [gap_run EXCEPT ![r] = a]
  BY <1>1, <1>4, <1>5
<1>9. RunOK(gap_run[r]) => RunOK(a)
  BY <1>1, <1>2, <1>4, <1>7 DEF RunOK, Measured, Wrote, Counted, Listed
<1> QED  BY <1>1, <1>7, <1>8, <1>9, RunStep

LEMMA PublishStep == ASSUME GapInv, NEW r \in Runner, Gap!Publish(r) PROVE GapInv'
<1>1. gap_run[r].pc = "publish" /\ UNCHANGED <<gap_registry, gap_table, gap_edits>> /\ Active(gap_run[r])
      /\ gap_run' = [gap_run EXCEPT ![r] = [Gap!Blank EXCEPT !.pc = "done"]] /\ gap_run \in [Runner -> Run]
      /\ gap_report' \in {gap_report, [given |-> TRUE, of |-> gap_run[r]]}
  BY DEF Gap!Publish, GapInv, Active
<1>2. PICK a : a = [Gap!Blank EXCEPT !.pc = "done"]
  OBVIOUS
<1>3. a \in Run /\ a.pc = "done" /\ ~Active(a) /\ gap_run' = [gap_run EXCEPT ![r] = a]
  BY <1>1, <1>2, BlankIs DEF Active
<1>4. /\ gap_run' \in [Runner -> Run]
      /\ \A o \in Runner : gap_run'[o].pc = "idle" => gap_run'[o] = Gap!Blank
      /\ \A o \in Runner : Active(gap_run'[o]) /\ gap_run'[o].calm
            => Gap!Alone(o)' /\ RunOK(gap_run[o])'
  <2>1. a.pc # "idle"
    BY <1>3
  <2> QED  BY <2>1, <1>1, <1>3, RunsAre
<1>5. Gap!TableIsWhole'
  <2>1. gap_run[r].pc \notin {"delete", "insert"} /\ a.pc \notin {"idle", "delete", "insert"}
    BY <1>1, <1>3
  <2> QED  BY <2>1, <1>1, <1>3, TableSame
<1>6. /\ gap_report' \in [given : BOOLEAN, of : Run]
      /\ gap_report'.given /\ gap_report'.of.calm => Told(gap_report.of)'
  <2>1. CASE gap_report' = gap_report
    BY <2>1 DEF GapInv, Told, Wrote, Counted, Listed, Measured
  <2>2. CASE gap_report' = [given |-> TRUE, of |-> gap_run[r]]
    <3>1. gap_report'.of = gap_run[r] /\ gap_run[r] \in Run
      BY <2>2, <1>1
    <3>2. gap_run[r].calm => Told(gap_run[r])
      BY <1>1 DEF GapInv, RunOK, Told
    <3>3. PICK b : b = gap_run[r]
      OBVIOUS
    <3>4. b.calm => Told(b)
      BY <3>2, <3>3
    <3>5. (gap_report.of)' = b
      BY <3>1, <3>3
    <3>6. b.calm => Told(b)'
      BY <3>4 DEF Told, Wrote, Counted, Listed, Measured
    <3> QED  BY <2>2, <3>1, <3>5, <3>6
  <2> QED  BY <1>1, <2>1, <2>2
<1> QED  BY <1>1, <1>4, <1>5, <1>6, Steady DEF GapInv

(* An edit disturbs every run under way.                                   *)
LEMMA EditStep == ASSUME GapInv, NEW c \in Camera, Gap!Edit(c) PROVE GapInv'
<1>1. /\ gap_edits < MaxEdits /\ gap_edits' = gap_edits + 1 /\ UNCHANGED <<gap_table, gap_report>>
      /\ gap_run' = Gap!Disturbed(gap_run, {}) /\ gap_run \in [Runner -> Run]
  BY DEF Gap!Edit, GapInv
<1>2. gap_registry' \in [Camera -> Gap!Row]
  <2>1. gap_registry[c] \in Gap!Row
    BY DEF GapInv
  <2>2. /\ \A p \in Place : [gap_registry[c] EXCEPT !.place = p] \in Gap!Row
        /\ [gap_registry[c] EXCEPT !.live = FALSE] \in Gap!Row
        /\ \A b \in {"trusted", "dead"} : [gap_registry[c] EXCEPT !.band = b] \in Gap!Row
    BY <2>1 DEF Gap!Row, Gap!Band
  <2>3. \E x \in Gap!Row : gap_registry' = [gap_registry EXCEPT ![c] = x]
    BY <2>2 DEF Gap!Edit
  <2> QED  BY <2>3 DEF GapInv
<1>3. /\ gap_run' \in [Runner -> Run]
      /\ \A o \in Runner : gap_run'[o].pc = gap_run[o].pc
      /\ \A o \in Runner : ~Active(gap_run[o]) => gap_run'[o] = gap_run[o]
      /\ \A o \in Runner : Active(gap_run[o]) => ~gap_run'[o].calm
  BY <1>1, DisturbedIs
<1>4. gap_edits' \in 0..MaxEdits /\ gap_edits' # 0
  BY <1>1, GapFacts DEF GapInv
<1>5. \A o \in Runner : gap_run'[o].pc = "idle" => gap_run'[o] = Gap!Blank
  BY <1>3 DEF GapInv, Active
<1>6. \A o \in Runner : Active(gap_run'[o]) => ~gap_run'[o].calm
  BY <1>3 DEF Active
<1>7. Gap!TableIsWhole'
  BY <1>4 DEF Gap!TableIsWhole
<1> QED  BY <1>1, <1>2, <1>3, <1>4, <1>5, <1>6, <1>7 DEF GapInv, Told, Wrote, Counted, Listed, Measured

LEMMA GapStep == GapInv /\ Gap!Next => GapInv'
<1> SUFFICES ASSUME GapInv, Gap!Next PROVE GapInv'
  OBVIOUS
<1> QED  BY LoadStep, DeleteStep, InsertStep, CountStep, MeasureStep, DistrictsStep, JunctionsStep,
            WorstStep, PublishStep, EditStep DEF Gap!Next, Gap!Step

LEMMA GapSame == GapInv /\ UNCHANGED gapVars => GapInv'
<1> SUFFICES ASSUME GapInv, UNCHANGED gapVars PROVE GapInv'
  OBVIOUS
<1>1. UNCHANGED <<gap_registry, gap_table, gap_run, gap_report, gap_edits>>
  BY DEF gapVars
<1>2. ASSUME NEW r \in Runner, Active(gap_run'[r]), gap_run'[r].calm PROVE Gap!Alone(r)' /\ RunOK(gap_run[r])'
  <2>1. Gap!Alone(r) /\ RunOK(gap_run[r])
    BY <1>1, <1>2 DEF GapInv
  <2> QED  BY <2>1, <1>1, Steady DEF Gap!Alone, RunOK, Wrote, Measured, Counted, Listed
<1>3. gap_report'.given /\ gap_report'.of.calm => Told(gap_report.of)'
  BY <1>1 DEF GapInv, Told, Wrote, Measured, Counted, Listed
<1>4. Gap!TableIsWhole'
  <2>1. Gap!TableIsWhole
    BY DEF GapInv
  <2> QED  BY <2>1, <1>1, Steady DEF Gap!TableIsWhole
<1> QED  BY <1>1, <1>2, <1>3, <1>4, Steady DEF GapInv

LEMMA GapShows == GapInv => Gap!UndisturbedRunsAreExact
<1> SUFFICES ASSUME GapInv PROVE Gap!UndisturbedRunsAreExact
  OBVIOUS
<1>1. Gap!TypeOK
  BY DEF GapInv, Gap!TypeOK, Run, Steps
<1>2. Gap!UndisturbedReportsAgree /\ Gap!UndisturbedTablesAgree
  <2>1. CASE gap_report.given /\ gap_report.of.calm
    BY <2>1, ToldAgrees DEF GapInv
  <2>2. CASE ~(gap_report.given /\ gap_report.of.calm)
    BY <2>2 DEF Gap!UndisturbedReportsAgree, Gap!UndisturbedTablesAgree
  <2> QED  BY <2>1, <2>2
<1> QED  BY <1>1, <1>2 DEF Gap!UndisturbedRunsAreExact, GapInv

(* For any estate, any road and any number of runs at once and of edits    *)
(* in between: a report nobody disturbed says the same in every part, and  *)
(* camera_coverage is whole once no run is between its delete and insert.  *)
THEOREM RunsAreExact == RecordsSpec => []UndisturbedRunsAreExact
<1>1. RecordsInit => GapInv
  <2> SUFFICES ASSUME RecordsInit PROVE GapInv
    OBVIOUS
  <2>1. gap_registry \in Estates /\ Gap!Init
    BY GapFacts DEF RecordsInit
  <2> QED  BY <2>1, GapInit
<1>2. GapInv /\ [RecordsNext]_recordsVars => GapInv'
  BY GapStep, GapSame DEF RecordsNext, recordsVars
<1>3. GapInv => UndisturbedRunsAreExact
  BY GapShows DEF UndisturbedRunsAreExact
<1> QED  BY <1>1, <1>2, <1>3, PTL DEF RecordsSpec

-----------------------------------------------------------------------------
(* Traces and their routes.                                                *)
LEMMA TraceFacts ==
    /\ IsFiniteSet(DOMAIN Shot) /\ DOMAIN Shot \subseteq Nat /\ \A s \in DOMAIN Shot : Shot[s].ts \in Int
    /\ Early \subseteq DOMAIN Shot /\ Limit \in Nat \ {0} /\ \A a \in Asks : a.plate \in DOMAIN Strength
    /\ Policy.repeats \in Nat
    /\ Trace!Sighting = DOMAIN Shot
<1>1. \A S : Trace!IsFiniteSet(S) = IsFiniteSet(S)
  BY DEF Trace!IsFiniteSet, IsFiniteSet
<1> QED  BY <1>1, TraceConstants DEF Trace!TraceAssumption, Trace!Sighting

LEMMA TraceNumber == \A S : Trace!Cardinality(S) = Cardinality(S)
  BY DEF Trace!Cardinality, Cardinality

(* How many sightings of S come before s.                                  *)
Ahead(S, s) == Cardinality({x \in S : Trace!Before(x, s)})

LEMMA AheadIs ==
    ASSUME NEW S, S \subseteq DOMAIN Shot
    PROVE  /\ IsFiniteSet(S)
           /\ \A s \in S : Ahead(S, s) \in 0..(Cardinality(S) - 1)
           /\ \A a, b \in S : Trace!Before(a, b) => Ahead(S, a) < Ahead(S, b)
           /\ \A a, b \in S : a = b \/ Trace!Before(a, b) \/ Trace!Before(b, a)
           /\ \A k \in 0..(Cardinality(S) - 1) : \E s \in S : Ahead(S, s) = k
<1> DEFINE order == {p \in S \X S : Trace!Before(p[1], p[2])}
<1>1. IsFiniteSet(S) /\ S \subseteq Nat /\ \A s \in S : Shot[s].ts \in Int
  BY TraceFacts, FS_Subset
<1>2. \A a, b \in S : <<a, b>> \in order <=> Trace!Before(a, b)
  OBVIOUS
<1>3. \A a, b \in S : a = b \/ Trace!Before(a, b) \/ Trace!Before(b, a)
  BY <1>1 DEF Trace!Before
<1>4. TotalOn(S, order)
  <2> HIDE DEF order
  <2> QED  BY <1>1, <1>2 DEF TotalOn, Trace!Before
<1>5. \A s \in S : RankIn(S, order, s) = Ahead(S, s)
  <2> SUFFICES ASSUME NEW s \in S
               PROVE  {x \in S : <<x, s>> \in order} = {x \in S : Trace!Before(x, s)}
    BY DEF RankIn, Ahead
  <2> QED  BY <1>2
<1> HIDE DEF order
<1>6. /\ \A i \in S : RankIn(S, order, i) \in 0..(Cardinality(S) - 1)
      /\ \A i, j \in S : <<i, j>> \in order => RankIn(S, order, i) < RankIn(S, order, j)
      /\ \A k \in 0..(Cardinality(S) - 1) : \E i \in S : RankIn(S, order, i) = k
  BY <1>1, <1>4, RanksIn
<1>7. \A s \in S : Ahead(S, s) \in 0..(Cardinality(S) - 1)
  BY <1>5, <1>6
<1>8. \A a, b \in S : Trace!Before(a, b) => Ahead(S, a) < Ahead(S, b)
  BY <1>2, <1>5, <1>6
<1>9. \A k \in 0..(Cardinality(S) - 1) : \E s \in S : Ahead(S, s) = k
  BY <1>5, <1>6
<1> QED  BY <1>1, <1>3, <1>7, <1>8, <1>9

(* The sightings of a set in the order of their clocks, all and each once. *)
LEMMA InOrderIs ==
    ASSUME NEW S, S \subseteq DOMAIN Shot
    PROVE  LET t == Trace!InOrder(S)
           IN /\ t \in [1..Cardinality(S) -> S] /\ Cardinality(S) \in Nat
              /\ \A s \in S : \E i \in 1..Cardinality(S) : t[i] = s
              /\ \A i \in 1..(Cardinality(S) - 1) : Trace!Before(t[i], t[i + 1])
<1> DEFINE n == Cardinality(S)
           t == Trace!InOrder(S)
<1>1. n \in Nat
  BY AheadIs, FS_CardinalityType
<1>2. t = [i \in 1..n |-> CHOOSE s \in S : Ahead(S, s) = i - 1]
  BY DEF Trace!InOrder, Ahead, Trace!Cardinality, Cardinality
<1> HIDE DEF t
<1>3. ASSUME NEW i \in 1..n PROVE t[i] \in S /\ Ahead(S, t[i]) = i - 1
  <2>1. i - 1 \in 0..(n - 1)
    BY <1>1
  <2>2. \E s \in S : Ahead(S, s) = i - 1
    BY <2>1, AheadIs
  <2> QED  BY <1>2, <2>2
<1>4. ASSUME NEW s \in S PROVE \E i \in 1..n : t[i] = s
  <2>1. Ahead(S, s) \in 0..(n - 1)
    BY AheadIs
  <2> DEFINE i == Ahead(S, s) + 1
  <2>2. i \in 1..n /\ i - 1 = Ahead(S, s)
    BY <1>1, <2>1
  <2>3. t[i] \in S /\ Ahead(S, t[i]) = Ahead(S, s)
    BY <1>3, <2>2
  <2>4. t[i] = s
    <3>1. Ahead(S, s) \in Int
      BY <2>1
    <3> HIDE DEF i
    <3> QED  BY <3>1, <2>3, AheadIs
  <2> QED  BY <2>2, <2>4
<1>5. ASSUME NEW i \in 1..(n - 1) PROVE Trace!Before(t[i], t[i + 1])
  <2>1. i \in 1..n /\ i + 1 \in 1..n
    BY <1>1
  <2>2. t[i] \in S /\ t[i + 1] \in S /\ Ahead(S, t[i]) = i - 1 /\ Ahead(S, t[i + 1]) = (i + 1) - 1
    BY <1>3, <2>1
  <2>3. i \in Int
    OBVIOUS
  <2> QED  BY <2>2, <2>3, AheadIs
<1>6. t \in [1..n -> S]
  BY <1>2, <1>3
<1> QED  BY <1>1, <1>4, <1>5, <1>6 DEF t

(* A LIMIT that cuts something off leaves as many rows as it allows.       *)
LEMMA FirstOfIs ==
    ASSUME NEW S, S \subseteq DOMAIN Shot
    PROVE  /\ Trace!FirstOf(S) \subseteq S
           /\ Trace!FirstOf(S) = S \/ Cardinality(Trace!FirstOf(S)) >= Limit
<1> DEFINE T == Trace!FirstOf(S)
           n == Cardinality(S)
<1>1. T = {s \in S : Ahead(S, s) < Limit}
  BY TraceNumber DEF Trace!FirstOf, Ahead
<1> SUFFICES ASSUME NEW s \in S, s \notin T PROVE Cardinality(T) >= Limit
  BY <1>1
<1>2. n \in Nat /\ Limit \in Nat \ {0} /\ Ahead(S, s) \in 0..(n - 1) /\ ~(Ahead(S, s) < Limit)
  BY <1>1, AheadIs, FS_CardinalityType, TraceFacts
<1> DEFINE f == [x \in T |-> Ahead(S, x)]
<1>3. \A k \in 0..(Limit - 1) : \E x \in T : f[x] = k
  <2> TAKE k \in 0..(Limit - 1)
  <2>1. k \in 0..(n - 1) /\ k < Limit
    BY <1>2
  <2>2. PICK x \in S : Ahead(S, x) = k
    BY <2>1, AheadIs
  <2> QED  BY <1>1, <2>1, <2>2
<1>4. f \in [T -> 0..(Limit - 1)]
  <2> SUFFICES ASSUME NEW x \in T PROVE Ahead(S, x) \in 0..(Limit - 1)
    OBVIOUS
  <2>1. Ahead(S, x) \in 0..(n - 1) /\ Ahead(S, x) < Limit
    BY <1>1, AheadIs
  <2> QED  BY <2>1, <1>2
<1>5. f \in Surjection(T, 0..(Limit - 1))
  BY <1>3, <1>4 DEF Surjection
<1>6. IsFiniteSet(T)
  BY <1>1, AheadIs, FS_Subset
<1> HIDE DEF f, T
<1>7. Cardinality(0..(Limit - 1)) <= Cardinality(T)
  BY <1>5, <1>6, FS_Surjection
<1>8. Cardinality(0..(Limit - 1)) = Limit
  <2>1. Limit - 1 \in Int
    BY <1>2
  <2>2. Cardinality(0..(Limit - 1)) = IF 0 > Limit - 1 THEN 0 ELSE (Limit - 1) - 0 + 1
    BY <2>1, FS_Interval
  <2> QED  BY <2>2, <1>2
<1>9. Cardinality(T) \in Nat
  BY <1>6, FS_CardinalityType
<1> QED  BY <1>2, <1>7, <1>8, <1>9

-----------------------------------------------------------------------------
IdsOf(q) == [i \in DOMAIN q.trace |-> q.trace[i].id]
QuestionOf(q) == [plate |-> q.ask.plate, floor |-> q.ask.floor]

(* A route joins the sightings of a trace, hop by hop.                     *)
Joins(g, ids) ==
    /\ Len(ids) \in Nat /\ DOMAIN ids = 1..Len(ids)
    /\ Len(g) = Len(ids) - 1 /\ DOMAIN g = 1..(Len(ids) - 1)
    /\ \A i \in 1..(Len(ids) - 1) : g[i].from = ids[i] /\ g[i].to = ids[i + 1]

(* A row of the cache was written by a request that is answered.           *)
RowOK(row, all) ==
    /\ row.id \in Requests /\ all[row.id].pc = "done"
    /\ row.fingerprint = IdsOf(all[row.id])
    /\ Joins(row.segments, row.fingerprint)

Fields(q) ==
    /\ q = [pc |-> q.pc, ask |-> q.ask, plates |-> q.plates, rows |-> q.rows, trace |-> q.trace,
            truncated |-> q.truncated, route |-> q.route, due |-> q.due, dropped |-> q.dropped]
    /\ q.pc \in {"hydrate", "bridged", "links", "cache", "segments", "drive", "write", "candidates",
                 "persist", "done"}
    /\ q.ask \in Asks /\ q.rows \subseteq DOMAIN Shot /\ q.due \subseteq DOMAIN Shot /\ q.dropped \in Nat

(* Until the trace is built, what is due is among the rows unless they     *)
(* were cut.                                                               *)
Searched(q, got) ==
    /\ q.pc = "hydrate" => \A s \in q.due : s \in got /\ Shot[s].plate \in q.plates
    /\ q.pc \in {"bridged", "links"} =>
          q.due \subseteq got /\ (q.due \subseteq q.rows \/ Cardinality(q.rows) >= Limit)

TraceOK(q) ==
    /\ Len(q.trace) \in Nat /\ DOMAIN q.trace = 1..Len(q.trace)
    /\ \A i \in 1..Len(q.trace) : q.trace[i].id \in DOMAIN Shot
    /\ \A i \in 1..(Len(q.trace) - 1) : Trace!Before(q.trace[i].id, q.trace[i + 1].id)
    /\ (\A s \in q.due : \E i \in 1..Len(q.trace) : q.trace[i].id = s) \/ q.truncated \/ q.dropped > 0

Fresh(q) ==
    /\ q.route.hit = FALSE
    /\ Joins(q.route.segments, IdsOf(q))
    /\ \A i \in 1..(Len(q.trace) - 1) : \E b \in BOOLEAN :
          q.route.segments[i] = Trace!Segment(IdsOf(q)[i], IdsOf(q)[i + 1], b)

Stored(q) ==
    /\ q.route.hit = TRUE
    /\ q.route.segments = <<>> \/ Joins(q.route.segments, IdsOf(q))

(* The row that was hit was built for these very sightings; whatever has   *)
(* replaced it since has an answered request behind it too.                *)
Promised(q, all, kept) ==
    /\ q.route.id \in Requests /\ all[q.route.id].pc = "done"
    /\ IdsOf(all[q.route.id]) = IdsOf(q)
    /\ RowOK(kept[QuestionOf(q)], all)

RoutedOK(q, all, kept) ==
    /\ q.pc \in {"hydrate", "bridged", "links", "cache", "drive", "candidates", "persist"} => q.route = NA
    /\ q.pc \in {"cache", "segments", "drive", "write"} => Len(q.trace) >= 2
    /\ q.pc = "segments" => Promised(q, all, kept)
    /\ q.pc = "write" => Fresh(q)
    /\ q.pc = "done" => q.route = NA \/ Fresh(q) \/ Stored(q)

ReqOK(q, got, all, kept) ==
    /\ Fields(q) /\ Searched(q, got)
    /\ q.pc \notin {"hydrate", "bridged", "links"} => TraceOK(q)
    /\ RoutedOK(q, all, kept)

LinksOK(ls) == \A l \in ls : l.plate \in DOMAIN Strength /\ l.sighting \in DOMAIN Shot

TraceInv ==
    /\ Early \subseteq trace_detected /\ trace_read \subseteq trace_detected
    /\ trace_detected \subseteq DOMAIN Shot
    /\ LinksOK(trace_links)
    /\ trace_routes = [k \in Trace!Keys |-> trace_routes[k]]
    /\ trace_reqs = [r \in Requests |-> trace_reqs[r]]
    /\ \A k \in Trace!Keys : trace_routes[k] = NA \/ RowOK(trace_routes[k], trace_reqs)
    /\ \A r \in Requests :
          trace_reqs[r] = Trace!Idle \/ ReqOK(trace_reqs[r], trace_read, trace_reqs, trace_routes)

LEMMA IdsAre ==
    ASSUME NEW q, TraceOK(q)
    PROVE  /\ Len(IdsOf(q)) = Len(q.trace) /\ DOMAIN IdsOf(q) = 1..Len(q.trace)
           /\ \A i \in 1..Len(q.trace) : IdsOf(q)[i] = q.trace[i].id
<1>1. IdsOf(q) = [i \in 1..Len(q.trace) |-> q.trace[i].id] /\ Len(q.trace) \in Nat
  BY DEF TraceOK, IdsOf
<1>2. IdsOf(q) \in [1..Len(q.trace) -> DOMAIN Shot]
  BY <1>1 DEF TraceOK
<1> QED  BY <1>1, <1>2, SequenceOf

LEMMA DoneStays ==
    ASSUME NEW all, all = [r \in Requests |-> all[r]], NEW r \in Requests, all[r].pc # "done",
           NEW q, NEW all2, all2 = [all EXCEPT ![r] = q]
    PROVE  /\ all2 = [o \in Requests |-> all2[o]] /\ all2[r] = q
           /\ \A o \in Requests : o # r => all2[o] = all[o]
           /\ \A o \in Requests : all[o].pc = "done" => all2[o] = all[o]
           /\ \A row : RowOK(row, all) => RowOK(row, all2)
<1>1. /\ all2 = [o \in Requests |-> all2[o]] /\ all2[r] = q
      /\ \A o \in Requests : o # r => all2[o] = all[o]
  OBVIOUS
<1>2. \A o \in Requests : all[o].pc = "done" => all2[o] = all[o]
  BY <1>1
<1>3. ASSUME NEW row, RowOK(row, all) PROVE RowOK(row, all2)
  <2>1. row.id \in Requests /\ all[row.id].pc = "done"
    BY <1>3 DEF RowOK
  <2>2. all2[row.id] = all[row.id]
    BY <1>2, <2>1
  <2> QED  BY <1>3, <2>2 DEF RowOK
<1> QED  BY <1>1, <1>2, <1>3

(* One request takes a step: the others keep what they have.               *)
LEMMA RequestMoves ==
    ASSUME TraceInv, NEW r \in Requests, NEW q, trace_reqs' = [trace_reqs EXCEPT ![r] = q],
           trace_reqs[r].pc # "done", UNCHANGED <<trace_detected, trace_read>>,
           LinksOK(trace_links'),
           trace_routes' = [k \in Trace!Keys |-> trace_routes'[k]],
           \A k \in Trace!Keys : trace_routes'[k] = trace_routes[k] \/ RowOK(trace_routes'[k], trace_reqs'),
           ReqOK(q, trace_read, trace_reqs', trace_routes')
    PROVE  TraceInv'
<1>1. trace_reqs = [o \in Requests |-> trace_reqs[o]]
  BY DEF TraceInv
<1>2. /\ trace_reqs' = [o \in Requests |-> trace_reqs'[o]] /\ trace_reqs'[r] = q
      /\ \A o \in Requests : o # r => trace_reqs'[o] = trace_reqs[o]
      /\ \A o \in Requests : trace_reqs[o].pc = "done" => trace_reqs'[o] = trace_reqs[o]
      /\ \A row : RowOK(row, trace_reqs) => RowOK(row, trace_reqs')
  BY <1>1, DoneStays
<1>3. ASSUME NEW k \in Trace!Keys PROVE trace_routes'[k] = NA \/ RowOK(trace_routes'[k], trace_reqs')
  BY <1>2 DEF TraceInv
<1>4. ASSUME NEW o \in Requests
      PROVE  trace_reqs'[o] = Trace!Idle \/ ReqOK(trace_reqs'[o], trace_read', trace_reqs', trace_routes')
  <2>1. CASE o = r
    BY <1>2, <2>1
  <2>2. CASE o # r /\ trace_reqs[o] = Trace!Idle
    BY <1>2, <2>2
  <2>3. CASE o # r /\ ReqOK(trace_reqs[o], trace_read, trace_reqs, trace_routes)
    <3> DEFINE p == trace_reqs[o]
    <3>1. trace_reqs'[o] = p
      BY <1>2, <2>3
    <3> HIDE DEF p
    <3>2. Fields(p) /\ Searched(p, trace_read') /\ (p.pc \notin {"hydrate", "bridged", "links"} => TraceOK(p))
            /\ RoutedOK(p, trace_reqs, trace_routes)
      BY <2>3 DEF ReqOK, p
    <3>3. Promised(p, trace_reqs, trace_routes) => Promised(p, trace_reqs', trace_routes')
      <4> SUFFICES ASSUME Promised(p, trace_reqs, trace_routes) PROVE Promised(p, trace_reqs', trace_routes')
        OBVIOUS
      <4>1. p.route.id \in Requests /\ trace_reqs[p.route.id].pc = "done"
              /\ IdsOf(trace_reqs[p.route.id]) = IdsOf(p) /\ RowOK(trace_routes[QuestionOf(p)], trace_reqs)
        BY DEF Promised
      <4>2. trace_reqs'[p.route.id] = trace_reqs[p.route.id]
        BY <1>2, <4>1
      <4>3. QuestionOf(p) \in Trace!Keys
        BY <3>2 DEF Fields, QuestionOf, Trace!Keys
      <4>4. RowOK(trace_routes'[QuestionOf(p)], trace_reqs')
        BY <1>2, <4>1, <4>3
      <4> QED  BY <4>1, <4>2, <4>4 DEF Promised
    <3>4. RoutedOK(p, trace_reqs', trace_routes')
      BY <3>2, <3>3 DEF RoutedOK
    <3> QED  BY <3>1, <3>2, <3>4 DEF ReqOK
  <2> QED  BY <2>1, <2>2, <2>3 DEF TraceInv
<1> QED  BY <1>2, <1>3, <1>4 DEF TraceInv

(* Where a request stands before it moves. *)
LEMMA Standing ==
    ASSUME TraceInv, NEW r \in Requests, trace_reqs[r].pc # "idle"
    PROVE  ReqOK(trace_reqs[r], trace_read, trace_reqs, trace_routes)
BY DEF TraceInv, Trace!Idle

LEMMA SearchStep == ASSUME TraceInv, NEW r \in Requests, Trace!Search(r) PROVE TraceInv'
<1>1. trace_reqs[r] = Trace!Idle
  BY DEF Trace!Search
<1>2. PICK a \in Asks :
        LET plates == {Shot[s].plate : s \in {x \in Trace!Matching(a.plate) : Trace!LinkConfidence(a.plate, x) >= a.floor}}
        IN  trace_reqs' = [trace_reqs EXCEPT ![r] =
                [pc |-> IF plates = {} THEN "done" ELSE "hydrate", ask |-> a, plates |-> plates,
                 rows |-> {}, trace |-> <<>>, truncated |-> FALSE, route |-> NA,
                 due |-> {s \in Trace!Matching(a.plate) : Trace!LinkConfidence(a.plate, s) >= a.floor},
                 dropped |-> Trace!Cardinality({s \in Trace!Matching(a.plate) : Shot[s].plate \notin plates})]]
  BY DEF Trace!Search
<1> DEFINE due == {s \in Trace!Matching(a.plate) : Trace!LinkConfidence(a.plate, s) >= a.floor}
           plates == {Shot[s].plate : s \in due}
           lost == {s \in Trace!Matching(a.plate) : Shot[s].plate \notin plates}
           n == Cardinality(lost)
           q == [pc |-> IF plates = {} THEN "done" ELSE "hydrate", ask |-> a, plates |-> plates,
                 rows |-> {}, trace |-> <<>>, truncated |-> FALSE, route |-> NA, due |-> due, dropped |-> n]
<1>3. trace_reqs' = [trace_reqs EXCEPT ![r] = q]
  BY <1>2, TraceNumber
<1>4. trace_read \subseteq DOMAIN Shot
  BY DEF TraceInv
<1>5. Trace!Matching(a.plate) \subseteq trace_read
  BY DEF Trace!Matching
<1>6. n \in Nat
  <2>1. lost \subseteq DOMAIN Shot
    BY <1>4, <1>5
  <2> QED  BY <2>1, TraceFacts, FS_Subset, FS_CardinalityType
<1>7. due \subseteq trace_read /\ \A s \in due : Shot[s].plate \in plates
  BY <1>5
<1>8. plates = {} => due = {}
  OBVIOUS
<1> HIDE DEF due, plates, n, lost
<1>9. Fields(q)
  BY <1>4, <1>6, <1>7 DEF Fields
<1>10. Searched(q, trace_read)
  BY <1>7 DEF Searched
<1>11. q.pc \notin {"hydrate", "bridged", "links"} => TraceOK(q)
  BY <1>8 DEF TraceOK
<1>12. RoutedOK(q, trace_reqs', trace_routes')
  BY DEF RoutedOK
<1> HIDE DEF q
<1>13. ReqOK(q, trace_read, trace_reqs', trace_routes')
  BY <1>9, <1>10, <1>11, <1>12 DEF ReqOK
<1>14. /\ UNCHANGED <<trace_detected, trace_read>> /\ trace_links' = trace_links /\ trace_routes' = trace_routes
       /\ trace_reqs[r].pc # "done"
  BY <1>1 DEF Trace!Search, Trace!Idle
<1> QED  BY <1>3, <1>13, <1>14, RequestMoves DEF TraceInv

Became(o, step, rows, trace, truncated, route, dropped) ==
    [pc |-> step, ask |-> o.ask, plates |-> o.plates, rows |-> rows, trace |-> trace,
     truncated |-> truncated, route |-> route, due |-> o.due, dropped |-> dropped]

Answering(o, step, trace, truncated, dropped) ==
    [o EXCEPT !.pc = step, !.trace = trace, !.truncated = truncated, !.dropped = dropped]

LEMMA BecameIs ==
    ASSUME NEW o, Fields(o), NEW step, NEW rows, NEW route
    PROVE  /\ [o EXCEPT !.pc = step] = Became(o, step, o.rows, o.trace, o.truncated, o.route, o.dropped)
           /\ [o EXCEPT !.pc = step, !.rows = rows]
                = Became(o, step, rows, o.trace, o.truncated, o.route, o.dropped)
           /\ [o EXCEPT !.pc = step, !.route = route]
                = Became(o, step, o.rows, o.trace, o.truncated, route, o.dropped)
<1> DEFINE Req(a, b, c, d, e, f, g, h, k) ==
             [pc |-> a, ask |-> b, plates |-> c, rows |-> d, trace |-> e,
              truncated |-> f, route |-> g, due |-> h, dropped |-> k]
<1>1. PICK a, b, c, d, e, f, g, h, k : o = Req(a, b, c, d, e, f, g, h, k)
  BY DEF Fields
<1>2. /\ o.ask = b /\ o.plates = c /\ o.rows = d /\ o.trace = e /\ o.truncated = f
      /\ o.route = g /\ o.due = h /\ o.dropped = k
  BY <1>1
<1>3. PICK p : p = [o EXCEPT !.pc = step]
  OBVIOUS
<1>4. p = Req(step, b, c, d, e, f, g, h, k)
  BY <1>1, <1>3
<1>5. [p EXCEPT !.rows = rows] = Req(step, b, c, rows, e, f, g, h, k)
  BY <1>4
<1>6. [p EXCEPT !.route = route] = Req(step, b, c, d, e, f, route, h, k)
  BY <1>4
<1> HIDE DEF Req
<1>7. /\ [o EXCEPT !.pc = step, !.rows = rows] = [p EXCEPT !.rows = rows]
      /\ [o EXCEPT !.pc = step, !.route = route] = [p EXCEPT !.route = route]
  BY <1>3
<1> QED  BY <1>2, <1>3, <1>4, <1>5, <1>6, <1>7 DEF Became, Req

LEMMA AnsweringIs ==
    ASSUME NEW o, Fields(o), NEW step, NEW trace, NEW truncated, NEW dropped
    PROVE  Answering(o, step, trace, truncated, dropped)
             = Became(o, step, o.rows, trace, truncated, o.route, dropped)
<1> DEFINE Req(a, b, c, d, e, f, g, h, k) ==
             [pc |-> a, ask |-> b, plates |-> c, rows |-> d, trace |-> e,
              truncated |-> f, route |-> g, due |-> h, dropped |-> k]
<1>1. PICK a, b, c, d, e, f, g, h, k : o = Req(a, b, c, d, e, f, g, h, k)
  BY DEF Fields
<1>2. /\ o.ask = b /\ o.plates = c /\ o.rows = d /\ o.trace = e /\ o.truncated = f
      /\ o.route = g /\ o.due = h /\ o.dropped = k
  BY <1>1
<1>3. PICK p : p = [o EXCEPT !.pc = step]
  OBVIOUS
<1>4. p = Req(step, b, c, d, e, f, g, h, k)
  BY <1>1, <1>3
<1>5. PICK t : t = [p EXCEPT !.trace = trace]
  OBVIOUS
<1>6. t = Req(step, b, c, d, trace, f, g, h, k)
  BY <1>4, <1>5
<1>7. PICK u : u = [t EXCEPT !.truncated = truncated]
  OBVIOUS
<1>8. u = Req(step, b, c, d, trace, truncated, g, h, k)
  BY <1>6, <1>7
<1>9. [u EXCEPT !.dropped = dropped] = Req(step, b, c, d, trace, truncated, g, h, dropped)
  BY <1>8
<1> HIDE DEF Req
<1>10. Answering(o, step, trace, truncated, dropped) = [u EXCEPT !.dropped = dropped]
  BY <1>3, <1>5, <1>7 DEF Answering
<1> QED  BY <1>2, <1>9, <1>10 DEF Became, Req

(* A request takes a step of its own: nothing else moves. *)
LEMMA OnlyRequest ==
    ASSUME TraceInv, NEW r \in Requests, trace_reqs[r].pc # "done", NEW q,
           trace_reqs' = [trace_reqs EXCEPT ![r] = q],
           UNCHANGED <<trace_detected, trace_read, trace_links, trace_routes>>,
           ReqOK(q, trace_read, trace_reqs', trace_routes)
    PROVE  TraceInv'
BY RequestMoves DEF TraceInv

LEMMA HydrateStep == ASSUME TraceInv, NEW r \in Requests, Trace!Hydrate(r) PROVE TraceInv'
<1> DEFINE o == trace_reqs[r]
           S == {s \in trace_read : Shot[s].plate \in o.plates}
           rows == Trace!FirstOf(S)
           next == IF o.ask.reid THEN "bridged" ELSE "links"
           q == Became(o, next, rows, o.trace, o.truncated, o.route, o.dropped)
<1>1. o.pc = "hydrate"
  BY DEF Trace!Hydrate
<1>2. Fields(o) /\ Searched(o, trace_read) /\ RoutedOK(o, trace_reqs, trace_routes)
  BY <1>1, Standing DEF ReqOK
<1>3. trace_reqs' = [trace_reqs EXCEPT ![r] = q]
  <2>1. trace_reqs' = [trace_reqs EXCEPT ![r].pc = next, ![r].rows = rows]
    BY DEF Trace!Hydrate
  <2>2. [o EXCEPT !.pc = next, !.rows = rows] = q
    BY <1>2, BecameIs
  <2>3. DOMAIN trace_reqs = Requests
    BY DEF TraceInv
  <2> HIDE DEF rows, next, q
  <2> QED  BY <2>1, <2>2, <2>3
<1>4. S \subseteq DOMAIN Shot /\ S \subseteq trace_read
  BY DEF TraceInv
<1>5. rows \subseteq S /\ (rows = S \/ Cardinality(rows) >= Limit)
  <2> HIDE DEF S
  <2> QED  BY <1>4, FirstOfIs
<1>6. o.due \subseteq trace_read /\ o.due \subseteq S
  BY <1>1, <1>2 DEF Searched
<1>7. next \in {"bridged", "links"} /\ o.route = NA
  BY <1>1, <1>2 DEF RoutedOK
<1> HIDE DEF S, rows, next
<1>8. Fields(q)
  BY <1>2, <1>4, <1>5, <1>7 DEF Fields, Became
<1>9. Searched(q, trace_read)
  BY <1>5, <1>6, <1>7 DEF Searched, Became
<1>10. RoutedOK(q, trace_reqs', trace_routes)
  BY <1>7 DEF RoutedOK, Became
<1>11. q.pc \in {"bridged", "links"}
  BY <1>7 DEF Became
<1> HIDE DEF q
<1>12. ReqOK(q, trace_read, trace_reqs', trace_routes)
  BY <1>8, <1>9, <1>10, <1>11 DEF ReqOK
<1>13. UNCHANGED <<trace_detected, trace_read, trace_links, trace_routes>>
  BY DEF Trace!Hydrate
<1> QED  BY <1>1, <1>3, <1>12, <1>13, OnlyRequest

LEMMA HydrateReidStep == ASSUME TraceInv, NEW r \in Requests, Trace!HydrateReid(r) PROVE TraceInv'
<1> DEFINE o == trace_reqs[r]
           rows == o.rows \union Trace!Bridged(r)
           q == Became(o, "links", rows, o.trace, o.truncated, o.route, o.dropped)
<1>1. o.pc = "bridged"
  BY DEF Trace!HydrateReid
<1>2. Fields(o) /\ Searched(o, trace_read) /\ RoutedOK(o, trace_reqs, trace_routes)
  BY <1>1, Standing DEF ReqOK
<1>3. trace_reqs' = [trace_reqs EXCEPT ![r] = q]
  <2>1. trace_reqs' = [trace_reqs EXCEPT ![r].pc = "links", ![r].rows = rows]
    BY DEF Trace!HydrateReid
  <2>2. [o EXCEPT !.pc = "links", !.rows = rows] = q
    <3> HIDE DEF rows
    <3> QED  BY <1>2, BecameIs
  <2>3. DOMAIN trace_reqs = Requests
    BY DEF TraceInv
  <2> HIDE DEF rows, q
  <2> QED  BY <2>1, <2>2, <2>3
<1>4. Trace!Bridged(r) \subseteq DOMAIN Shot
  <2> DEFINE T == {l.sighting : l \in {x \in trace_links : x.plate = o.ask.plate}}
  <2>1. T \subseteq DOMAIN Shot
    BY DEF TraceInv, LinksOK
  <2>2. Trace!Bridged(r) = Trace!FirstOf(T) \ o.rows
    BY DEF Trace!Bridged
  <2> HIDE DEF T
  <2> QED  BY <2>1, <2>2, FirstOfIs
<1>5. rows \subseteq DOMAIN Shot /\ o.rows \subseteq rows
  BY <1>2, <1>4 DEF Fields
<1>6. Cardinality(o.rows) <= Cardinality(rows) /\ Cardinality(o.rows) \in Nat /\ Cardinality(rows) \in Nat
  BY <1>5, TraceFacts, FS_Subset, FS_CardinalityType
<1>7. o.due \subseteq trace_read /\ (o.due \subseteq rows \/ Cardinality(rows) >= Limit)
  BY <1>1, <1>2, <1>5, <1>6, TraceFacts DEF Searched
<1>8. o.route = NA
  BY <1>1, <1>2 DEF RoutedOK
<1> HIDE DEF rows
<1>9. Fields(q)
  BY <1>2, <1>5 DEF Fields, Became
<1>10. Searched(q, trace_read)
  BY <1>7 DEF Searched, Became
<1>11. RoutedOK(q, trace_reqs', trace_routes)
  BY <1>8 DEF RoutedOK, Became
<1>12. q.pc = "links"
  BY DEF Became
<1> HIDE DEF q
<1>13. ReqOK(q, trace_read, trace_reqs', trace_routes)
  BY <1>9, <1>10, <1>11, <1>12 DEF ReqOK
<1>14. UNCHANGED <<trace_detected, trace_read, trace_links, trace_routes>>
  BY DEF Trace!HydrateReid
<1> QED  BY <1>1, <1>3, <1>13, <1>14, OnlyRequest

LEMMA LoadLinksStep == ASSUME TraceInv, NEW r \in Requests, Trace!LoadLinks(r) PROVE TraceInv'
<1> DEFINE o == trace_reqs[r]
           admissible == {s \in o.rows : s \in trace_read \/ Trace!Recorded(r, s) # {}}
           K == {s \in admissible : Trace!Claim(r, s).confidence >= o.ask.floor}
           kept == Trace!InOrder(K)
           trace == [i \in DOMAIN kept |-> Trace!Claim(r, kept[i])]
           next == CASE o.ask.kind = "bridge" -> "candidates"
                     [] o.ask.kind = "route" /\ Len(trace) >= 2 -> IF o.ask.refresh THEN "drive" ELSE "cache"
                     [] OTHER -> "done"
<1>0. PICK truncated : truncated = Trace!Truncated(o.rows)
  OBVIOUS
<1> DEFINE dropped == o.dropped + Trace!Cardinality(admissible) - Len(trace)
           q == Became(o, next, o.rows, trace, truncated, o.route, dropped)
           n == Cardinality(K)
<1>1. o.pc = "links"
  BY DEF Trace!LoadLinks
<1>2. Fields(o) /\ Searched(o, trace_read) /\ RoutedOK(o, trace_reqs, trace_routes)
  BY <1>1, Standing DEF ReqOK
<1>3. trace_reqs' = [trace_reqs EXCEPT ![r] = q]
  <2>1. trace_reqs' = [trace_reqs EXCEPT ![r].pc = next, ![r].trace = trace, ![r].truncated = truncated,
                                         ![r].dropped = dropped]
    BY <1>0 DEF Trace!LoadLinks
  <2>2. Answering(o, next, trace, truncated, dropped) = q
    <3>1. Fields(o)
      BY <1>2
    <3> HIDE DEF q, o, next, trace, dropped
    <3>2. Answering(o, next, trace, truncated, dropped)
            = Became(o, next, o.rows, trace, truncated, o.route, dropped)
      BY <3>1, AnsweringIs, Zenon
    <3> QED  BY <3>2 DEF q
  <2>3. DOMAIN trace_reqs = Requests
    BY DEF TraceInv
  <2> HIDE DEF next, trace, dropped, q
  <2> QED  BY <2>1, <2>2, <2>3 DEF Answering
<1>4. o.rows \subseteq DOMAIN Shot /\ admissible \subseteq o.rows /\ K \subseteq admissible
  BY <1>2 DEF Fields
<1>5. K \subseteq DOMAIN Shot
  BY <1>4
<1>6. /\ kept \in [1..n -> K] /\ n \in Nat
      /\ \A s \in K : \E i \in 1..n : kept[i] = s
      /\ \A i \in 1..(n - 1) : Trace!Before(kept[i], kept[i + 1])
  <2> HIDE DEF K
  <2> QED  BY <1>5, InOrderIs
<1> HIDE DEF kept
<1>7. DOMAIN kept = 1..n
  BY <1>6
<1>8. trace \in [1..n -> {Trace!Claim(r, s) : s \in K}] /\ trace = [i \in 1..n |-> Trace!Claim(r, kept[i])]
  <2> HIDE DEF K, n
  <2> QED  BY <1>6, <1>7
<1>9. Len(trace) = n /\ DOMAIN trace = 1..n
  <2> HIDE DEF trace, n
  <2> QED  BY <1>6, <1>8, SequenceOf
<1>10. \A i \in 1..n : trace[i].id = kept[i]
  BY <1>8 DEF Trace!Claim
<1>11. IsFiniteSet(admissible) /\ Cardinality(admissible) \in Nat
         /\ n <= Cardinality(admissible) /\ (K # admissible => n < Cardinality(admissible))
  <2>1. IsFiniteSet(admissible)
    BY <1>4, TraceFacts, FS_Subset
  <2> HIDE DEF admissible, K
  <2> QED  BY <2>1, <1>4, FS_Subset, FS_CardinalityType
<1>12. dropped = o.dropped + Cardinality(admissible) - n
  BY <1>9, TraceNumber
<1>13. o.dropped \in Nat
  BY <1>2 DEF Fields
<1> HIDE DEF dropped, n
<1>14. dropped \in Nat /\ (K # admissible => dropped > 0)
  BY <1>6, <1>11, <1>12, <1>13
<1>15. o.due \subseteq trace_read /\ (o.due \subseteq o.rows \/ truncated)
  BY <1>0, <1>1, <1>2, TraceNumber DEF Searched, Trace!Truncated
<1>16. o.due \subseteq K \/ truncated \/ dropped > 0
  <2>1. o.due \subseteq o.rows => o.due \subseteq admissible
    BY <1>15
  <2> QED  BY <2>1, <1>14, <1>15
<1>17. next \in {"cache", "drive", "candidates", "done"}
         /\ (next \in {"cache", "drive"} => Len(trace) >= 2)
  <2> HIDE DEF trace
  <2> QED  OBVIOUS
<1>18. o.route = NA
  BY <1>1, <1>2 DEF RoutedOK
<1> HIDE DEF admissible, K, trace, next
<1>19. Fields(q)
  BY <1>2, <1>14, <1>17 DEF Fields, Became
<1>20. Searched(q, trace_read)
  BY <1>17 DEF Searched, Became
<1>21. TraceOK(q)
  <2>1. q.trace = trace /\ q.due = o.due /\ q.truncated = truncated /\ q.dropped = dropped
    BY DEF Became
  <2>2. \A i \in 1..n : trace[i].id \in DOMAIN Shot
    BY <1>5, <1>6, <1>10
  <2>3. \A i \in 1..(n - 1) : Trace!Before(trace[i].id, trace[i + 1].id)
    <3> TAKE i \in 1..(n - 1)
    <3>1. i \in 1..n /\ i + 1 \in 1..n
      BY <1>6
    <3> QED  BY <3>1, <1>6, <1>10
  <2>4. (\A s \in o.due : \E i \in 1..n : trace[i].id = s) \/ truncated \/ dropped > 0
    BY <1>6, <1>10, <1>16
  <2> HIDE DEF q
  <2> QED  BY <2>1, <2>2, <2>3, <2>4, <1>6, <1>9 DEF TraceOK
<1>22. RoutedOK(q, trace_reqs', trace_routes)
  BY <1>17, <1>18 DEF RoutedOK, Became
<1> HIDE DEF q
<1>23. ReqOK(q, trace_read, trace_reqs', trace_routes)
  BY <1>19, <1>20, <1>21, <1>22 DEF ReqOK
<1>24. UNCHANGED <<trace_detected, trace_read, trace_links, trace_routes>>
  BY DEF Trace!LoadLinks
<1> QED  BY <1>1, <1>3, <1>23, <1>24, OnlyRequest

LEMMA ReadCacheStep == ASSUME TraceInv, NEW r \in Requests, Trace!ReadCache(r) PROVE TraceInv'
<1> DEFINE o == trace_reqs[r]
           row == trace_routes[Trace!Key(r)]
           next == IF Trace!Hits(r) THEN "segments" ELSE "drive"
           route == IF Trace!Hits(r) THEN [id |-> row.id, hit |-> TRUE] ELSE NA
           q == Became(o, next, o.rows, o.trace, o.truncated, route, o.dropped)
<1>1. o.pc = "cache"
  BY DEF Trace!ReadCache
<1>2. Fields(o) /\ TraceOK(o) /\ RoutedOK(o, trace_reqs, trace_routes)
  BY <1>1, Standing DEF ReqOK
<1>3. trace_reqs' = [trace_reqs EXCEPT ![r] = q]
  <2>1. trace_reqs' = [trace_reqs EXCEPT ![r].pc = next, ![r].route = route]
    BY DEF Trace!ReadCache
  <2>2. [o EXCEPT !.pc = next, !.route = route] = q
    <3> HIDE DEF next, route
    <3> QED  BY <1>2, BecameIs
  <2>3. DOMAIN trace_reqs = Requests
    BY DEF TraceInv
  <2> HIDE DEF next, route, q
  <2> QED  BY <2>1, <2>2, <2>3
<1>4. UNCHANGED <<trace_detected, trace_read, trace_links, trace_routes>>
  BY DEF Trace!ReadCache
<1>5. Len(o.trace) >= 2
  BY <1>1, <1>2 DEF RoutedOK
<1>6. IdsOf(q) = IdsOf(o) /\ QuestionOf(q) = QuestionOf(o) /\ QuestionOf(o) = Trace!Key(r)
        /\ Trace!Ids(r) = IdsOf(o)
  BY DEF IdsOf, QuestionOf, Trace!Key, Trace!Ids, Became
<1>7. Trace!Key(r) \in Trace!Keys
  BY <1>2, <1>6 DEF Fields, QuestionOf, Trace!Keys
<1>8. Trace!Hits(r) => Promised(q, trace_reqs', trace_routes)
  <2> SUFFICES ASSUME Trace!Hits(r) PROVE Promised(q, trace_reqs', trace_routes)
    OBVIOUS
  <2>1. row # NA /\ row.fingerprint = IdsOf(o)
    BY <1>6 DEF Trace!Hits
  <2>2. RowOK(row, trace_reqs)
    BY <1>7, <2>1 DEF TraceInv
  <2>3. /\ RowOK(row, trace_reqs')
        /\ \A x \in Requests : trace_reqs[x].pc = "done" => trace_reqs'[x] = trace_reqs[x]
    <3>1. trace_reqs = [x \in Requests |-> trace_reqs[x]]
      BY DEF TraceInv
    <3> HIDE DEF q, row
    <3> QED  BY <1>1, <1>3, <2>2, <3>1, DoneStays
  <2>4. row.id \in Requests /\ trace_reqs'[row.id].pc = "done" /\ IdsOf(trace_reqs'[row.id]) = IdsOf(q)
    BY <2>1, <2>2, <2>3, <1>6 DEF RowOK
  <2>5. q.route.id = row.id
    BY DEF Became
  <2>6. RowOK(trace_routes[QuestionOf(q)], trace_reqs')
    BY <2>3, <1>6
  <2> HIDE DEF q, row
  <2> QED  BY <2>4, <2>5, <2>6 DEF Promised
<1>9. q.pc = "segments" => Trace!Hits(r)
  BY DEF Became
<1>10. q.pc = "drive" => q.route = NA
  BY DEF Became
<1>11. q.pc \in {"segments", "drive"} /\ q.trace = o.trace
  BY DEF Became
<1>12. Fields(q)
  BY <1>2 DEF Fields, Became
<1>13. Searched(q, trace_read)
  BY <1>11 DEF Searched
<1>14. TraceOK(q)
  BY <1>2 DEF TraceOK, Became
<1> HIDE DEF q
<1>15. RoutedOK(q, trace_reqs', trace_routes)
  BY <1>5, <1>8, <1>9, <1>10, <1>11 DEF RoutedOK
<1>16. ReqOK(q, trace_read, trace_reqs', trace_routes)
  BY <1>12, <1>13, <1>14, <1>15 DEF ReqOK
<1> QED  BY <1>1, <1>3, <1>4, <1>16, OnlyRequest

LEMMA ReadSegmentsStep == ASSUME TraceInv, NEW r \in Requests, Trace!ReadSegments(r) PROVE TraceInv'
<1> DEFINE o == trace_reqs[r]
           row == trace_routes[Trace!Key(r)]
           segments == IF row.id = o.route.id THEN row.segments ELSE <<>>
           route == [hit |-> TRUE, segments |-> segments]
           q == Became(o, "done", o.rows, o.trace, o.truncated, route, o.dropped)
<1>1. o.pc = "segments"
  BY DEF Trace!ReadSegments
<1>2. Fields(o) /\ TraceOK(o) /\ RoutedOK(o, trace_reqs, trace_routes)
  BY <1>1, Standing DEF ReqOK
<1>3. trace_reqs' = [trace_reqs EXCEPT ![r] = q]
  <2>1. trace_reqs' = [trace_reqs EXCEPT ![r].pc = "done", ![r].route = route]
    BY DEF Trace!ReadSegments
  <2>2. [o EXCEPT !.pc = "done", !.route = route] = q
    <3> HIDE DEF route
    <3> QED  BY <1>2, BecameIs
  <2>3. DOMAIN trace_reqs = Requests
    BY DEF TraceInv
  <2> HIDE DEF route, q
  <2> QED  BY <2>1, <2>2, <2>3
<1>4. UNCHANGED <<trace_detected, trace_read, trace_links, trace_routes>>
  BY DEF Trace!ReadSegments
<1>5. IdsOf(q) = IdsOf(o) /\ QuestionOf(o) = Trace!Key(r)
  BY DEF IdsOf, QuestionOf, Trace!Key, Became
<1>6. Promised(o, trace_reqs, trace_routes)
  BY <1>1, <1>2 DEF RoutedOK
<1>7. segments = <<>> \/ Joins(segments, IdsOf(q))
  <2>1. CASE row.id = o.route.id
    <3>1. RowOK(row, trace_reqs) /\ IdsOf(trace_reqs[o.route.id]) = IdsOf(o)
      BY <1>5, <1>6 DEF Promised
    <3>2. row.fingerprint = IdsOf(q) /\ Joins(row.segments, row.fingerprint)
      BY <3>1, <2>1, <1>5 DEF RowOK
    <3> QED  BY <3>2, <2>1
  <2>2. CASE row.id # o.route.id
    BY <2>2
  <2> QED  BY <2>1, <2>2
<1> HIDE DEF segments
<1>8. Stored(q)
  BY <1>7 DEF Stored, Became
<1>9. q.pc = "done"
  BY DEF Became
<1>10. Fields(q)
  BY <1>2 DEF Fields, Became
<1>11. Searched(q, trace_read)
  BY <1>9 DEF Searched
<1>12. TraceOK(q)
  BY <1>2 DEF TraceOK, Became
<1> HIDE DEF q
<1>13. RoutedOK(q, trace_reqs', trace_routes)
  BY <1>8, <1>9 DEF RoutedOK
<1>14. ReqOK(q, trace_read, trace_reqs', trace_routes)
  BY <1>10, <1>11, <1>12, <1>13 DEF ReqOK
<1> QED  BY <1>1, <1>3, <1>4, <1>14, OnlyRequest

LEMMA RouteAllStep == ASSUME TraceInv, NEW r \in Requests, Trace!RouteAll(r) PROVE TraceInv'
<1> DEFINE o == trace_reqs[r]
           ids == Trace!Ids(r)
           hops == 1..(Len(ids) - 1)
<1>1. o.pc = "drive"
  BY DEF Trace!RouteAll
<1>2. Fields(o) /\ TraceOK(o) /\ RoutedOK(o, trace_reqs, trace_routes)
  BY <1>1, Standing DEF ReqOK
<1>3. PICK answered \in SUBSET {i \in hops : Trace!Routable(ids[i], ids[i + 1])} :
        trace_reqs' = [trace_reqs EXCEPT ![r].pc = "write",
          ![r].route = [hit |-> FALSE,
                        segments |-> [i \in hops |-> Trace!Segment(ids[i], ids[i + 1], i \in answered)]]]
  BY DEF Trace!RouteAll
<1> DEFINE segments == [i \in hops |-> Trace!Segment(ids[i], ids[i + 1], i \in answered)]
           route == [hit |-> FALSE, segments |-> segments]
           q == Became(o, "write", o.rows, o.trace, o.truncated, route, o.dropped)
<1>4. trace_reqs' = [trace_reqs EXCEPT ![r] = q]
  <2>1. [o EXCEPT !.pc = "write", !.route = route] = q
    <3> HIDE DEF route
    <3> QED  BY <1>2, BecameIs
  <2>2. trace_reqs' = [trace_reqs EXCEPT ![r].pc = "write", ![r].route = route]
    BY <1>3
  <2>3. DOMAIN trace_reqs = Requests
    BY DEF TraceInv
  <2> HIDE DEF route, q
  <2> QED  BY <2>1, <2>2, <2>3
<1>5. UNCHANGED <<trace_detected, trace_read, trace_links, trace_routes>>
  BY DEF Trace!RouteAll
<1>6. Len(o.trace) >= 2 /\ Len(o.trace) \in Nat
  BY <1>1, <1>2 DEF RoutedOK, TraceOK
<1>7. ids = IdsOf(o) /\ IdsOf(q) = IdsOf(o)
  BY DEF IdsOf, Trace!Ids, Became
<1>8. Len(ids) = Len(o.trace) /\ DOMAIN ids = 1..Len(o.trace)
  BY <1>2, <1>7, IdsAre
<1> HIDE DEF ids
<1>9. /\ Len(segments) = Len(ids) - 1 /\ DOMAIN segments = hops
      /\ \A i \in hops : segments[i] = Trace!Segment(ids[i], ids[i + 1], i \in answered)
  <2>1. segments \in [1..(Len(ids) - 1) -> {segments[i] : i \in hops}]
    OBVIOUS
  <2>2. Len(ids) - 1 \in Nat
    BY <1>6, <1>8
  <2> HIDE DEF segments
  <2>3. Len(segments) = Len(ids) - 1
    BY <2>1, <2>2, SequenceOf
  <2> QED  BY <2>3 DEF segments
<1> HIDE DEF segments
<1>10. Joins(segments, ids)
  <2>1. ASSUME NEW i \in hops PROVE segments[i].from = ids[i] /\ segments[i].to = ids[i + 1]
    <3>1. segments[i] = Trace!Segment(ids[i], ids[i + 1], i \in answered)
      BY <1>9
    <3> QED  BY <3>1 DEF Trace!Segment
  <2>2. Len(ids) \in Nat /\ DOMAIN ids = 1..Len(ids)
    BY <1>6, <1>8
  <2> QED  BY <1>9, <2>1, <2>2 DEF Joins
<1>11. \A i \in hops : \E b \in BOOLEAN : segments[i] = Trace!Segment(ids[i], ids[i + 1], b)
  <2> TAKE i \in hops
  <2>1. segments[i] = Trace!Segment(ids[i], ids[i + 1], i \in answered)
    BY <1>9
  <2>2. CASE i \in answered
    <3>1. segments[i] = Trace!Segment(ids[i], ids[i + 1], TRUE)
      BY <2>1, <2>2 DEF Trace!Segment, Trace!Kind
    <3> QED  BY <3>1
  <2>3. CASE i \notin answered
    <3>1. segments[i] = Trace!Segment(ids[i], ids[i + 1], FALSE)
      BY <2>1, <2>3 DEF Trace!Segment, Trace!Kind
    <3> QED  BY <3>1
  <2> QED  BY <2>2, <2>3
<1>12. q.pc = "write" /\ q.trace = o.trace /\ q.route.hit = FALSE /\ q.route.segments = segments
  BY DEF Became
<1>13. Fields(q)
  BY <1>2 DEF Fields, Became
<1>14. Searched(q, trace_read)
  BY <1>12 DEF Searched
<1>15. TraceOK(q)
  BY <1>2 DEF TraceOK, Became
<1> HIDE DEF q
<1>16. Fresh(q)
  BY <1>7, <1>8, <1>10, <1>11, <1>12 DEF Fresh
<1>17. RoutedOK(q, trace_reqs', trace_routes)
  BY <1>6, <1>12, <1>16 DEF RoutedOK
<1>18. ReqOK(q, trace_read, trace_reqs', trace_routes)
  BY <1>13, <1>14, <1>15, <1>17 DEF ReqOK
<1> QED  BY <1>1, <1>4, <1>5, <1>18, OnlyRequest

LEMMA WriteCacheStep == ASSUME TraceInv, NEW r \in Requests, Trace!WriteCache(r) PROVE TraceInv'
<1> DEFINE o == trace_reqs[r]
           key == Trace!Key(r)
           segments == o.route.segments
           kept == [i \in DOMAIN segments |-> Trace!AsStored(segments[i])]
           row == [id |-> r, fingerprint |-> Trace!Ids(r), segments |-> kept]
           q == Became(o, "done", o.rows, o.trace, o.truncated, o.route, o.dropped)
<1>1. o.pc = "write"
  BY DEF Trace!WriteCache
<1>2. Fields(o) /\ TraceOK(o) /\ RoutedOK(o, trace_reqs, trace_routes)
  BY <1>1, Standing DEF ReqOK
<1>3. trace_reqs' = [trace_reqs EXCEPT ![r] = q]
  <2>1. trace_reqs' = [trace_reqs EXCEPT ![r].pc = "done"]
    BY DEF Trace!WriteCache
  <2>2. [o EXCEPT !.pc = "done"] = q
    BY <1>2, BecameIs
  <2> HIDE DEF q
  <2> QED  BY <2>1, <2>2
<1>4. UNCHANGED <<trace_detected, trace_read, trace_links>>
        /\ trace_routes' \in {trace_routes, [trace_routes EXCEPT ![key] = row]}
  BY DEF Trace!WriteCache
<1>5. IdsOf(q) = IdsOf(o) /\ Trace!Ids(r) = IdsOf(o)
  BY DEF IdsOf, Trace!Ids, Became
<1>6. Fresh(o)
  BY <1>1, <1>2 DEF RoutedOK
<1>7. q.pc = "done" /\ q.trace = o.trace /\ q.route = o.route
  BY DEF Became
<1>8. Fresh(q)
  BY <1>5, <1>6, <1>7 DEF Fresh
<1>9. Fields(q)
  BY <1>2 DEF Fields, Became
<1>10. TraceOK(q)
  BY <1>2 DEF TraceOK, Became
<1> HIDE DEF q
<1>11. trace_reqs'[r] = q
  BY <1>3 DEF TraceInv
<1>12. RowOK(row, trace_reqs')
  <2>1. Joins(segments, IdsOf(o))
    BY <1>6 DEF Fresh
  <2>2. Len(IdsOf(o)) = Len(o.trace) /\ Len(o.trace) >= 2 /\ Len(o.trace) \in Nat
    BY <1>1, <1>2, IdsAre DEF RoutedOK, TraceOK
  <2> DEFINE n == Len(IdsOf(o)) - 1
  <2>3. n \in Nat /\ DOMAIN segments = 1..n
    BY <2>1, <2>2 DEF Joins
  <2>4. kept \in [1..n -> {kept[i] : i \in 1..n}]
    BY <2>3
  <2>5. Len(kept) = n /\ DOMAIN kept = 1..n
    <3> HIDE DEF kept, n
    <3> QED  BY <2>3, <2>4, SequenceOf
  <2>6. ASSUME NEW i \in 1..n PROVE kept[i].from = IdsOf(o)[i] /\ kept[i].to = IdsOf(o)[i + 1]
    <3>1. PICK b \in BOOLEAN : segments[i] = Trace!Segment(IdsOf(o)[i], IdsOf(o)[i + 1], b)
      BY <1>6, <2>2 DEF Fresh
    <3>2. PICK g : g = segments[i]
      OBVIOUS
    <3>3. kept[i] = Trace!AsStored(g)
      BY <2>3, <3>2
    <3>4. g.from = IdsOf(o)[i] /\ g.to = IdsOf(o)[i + 1]
      BY <3>1, <3>2 DEF Trace!Segment
    <3>5. Trace!AsStored(g).from = g.from /\ Trace!AsStored(g).to = g.to
      <4>1. PICK a, c, k, e, w : g = [from |-> a, to |-> c, kind |-> k, elapsed |-> e, way |-> w]
        BY <3>1, <3>2 DEF Trace!Segment
      <4> QED  BY <4>1 DEF Trace!AsStored
    <3> QED  BY <3>3, <3>4, <3>5
  <2>7. Joins(kept, IdsOf(o))
    <3> HIDE DEF kept
    <3> QED  BY <2>1, <2>5, <2>6 DEF Joins
  <2>8. row.id = r /\ row.fingerprint = IdsOf(q) /\ row.segments = kept
    BY <1>5
  <2> HIDE DEF kept, row
  <2> QED  BY <1>5, <1>7, <1>11, <2>7, <2>8 DEF RowOK
<1> HIDE DEF row
<1>13. trace_routes = [k \in Trace!Keys |-> trace_routes[k]]
  BY DEF TraceInv
<1>14. trace_routes' = [k \in Trace!Keys |-> trace_routes'[k]]
         /\ \A k \in Trace!Keys : trace_routes'[k] = trace_routes[k] \/ RowOK(trace_routes'[k], trace_reqs')
  <2>1. CASE trace_routes' = trace_routes
    BY <2>1, <1>13
  <2>2. CASE trace_routes' = [trace_routes EXCEPT ![key] = row]
    BY <2>2, <1>12, <1>13
  <2> QED  BY <2>1, <2>2, <1>4
<1>15. RoutedOK(q, trace_reqs', trace_routes')
  BY <1>7, <1>8 DEF RoutedOK
<1>16. Searched(q, trace_read)
  BY <1>7 DEF Searched
<1>17. ReqOK(q, trace_read, trace_reqs', trace_routes')
  BY <1>9, <1>10, <1>15, <1>16 DEF ReqOK
<1>18. LinksOK(trace_links')
  BY <1>4 DEF TraceInv
<1> QED  BY <1>1, <1>3, <1>4, <1>14, <1>17, <1>18, RequestMoves

(* Once the trace is built, a request that only moves on keeps its facts.  *)
LEMMA MovesOn ==
    ASSUME NEW o, Fields(o), TraceOK(o), o.route = NA, NEW step \in {"persist", "done"},
           NEW rows, rows \subseteq DOMAIN Shot, NEW got, NEW all, NEW kept
    PROVE  ReqOK(Became(o, step, rows, o.trace, o.truncated, o.route, o.dropped), got, all, kept)
<1> DEFINE q == Became(o, step, rows, o.trace, o.truncated, o.route, o.dropped)
<1>1. Fields(q)
  BY DEF Fields, Became
<1>2. TraceOK(q)
  BY DEF TraceOK, Became
<1>3. Searched(q, got)
  BY DEF Searched, Became
<1>4. RoutedOK(q, all, kept)
  BY DEF RoutedOK, Became
<1> HIDE DEF q
<1> QED  BY <1>1, <1>2, <1>3, <1>4 DEF ReqOK, q

LEMMA CandidatesStep == ASSUME TraceInv, NEW r \in Requests, Trace!Candidates(r) PROVE TraceInv'
<1> DEFINE o == trace_reqs[r]
           matched == {s \in Trace!Unclaimed(r) : \E a \in Trace!Anchors(r) : Trace!Reachable(a, s) /\ <<a, s>> \in Alike}
           next == IF matched = {} THEN "done" ELSE "persist"
           q == Became(o, next, matched, o.trace, o.truncated, o.route, o.dropped)
<1>1. o.pc = "candidates"
  BY DEF Trace!Candidates
<1>2. Fields(o) /\ TraceOK(o) /\ o.route = NA
  BY <1>1, Standing DEF ReqOK, RoutedOK
<1>3. matched \subseteq DOMAIN Shot
  BY DEF Trace!Unclaimed, TraceInv
<1>4. trace_reqs' = [trace_reqs EXCEPT ![r] = q]
  <2>1. trace_reqs' = [trace_reqs EXCEPT ![r].pc = next, ![r].rows = matched]
    BY DEF Trace!Candidates
  <2>2. [o EXCEPT !.pc = next, !.rows = matched] = q
    <3> HIDE DEF next, matched
    <3> QED  BY <1>2, BecameIs
  <2>3. DOMAIN trace_reqs = Requests
    BY DEF TraceInv
  <2> HIDE DEF next, matched, q
  <2> QED  BY <2>1, <2>2, <2>3
<1>5. UNCHANGED <<trace_detected, trace_read, trace_links, trace_routes>>
  BY DEF Trace!Candidates
<1>6. next \in {"persist", "done"}
  OBVIOUS
<1> HIDE DEF next, matched
<1>7. ReqOK(q, trace_read, trace_reqs', trace_routes)
  BY <1>2, <1>3, <1>6, MovesOn
<1> HIDE DEF q
<1> QED  BY <1>1, <1>4, <1>5, <1>7, OnlyRequest

LEMMA PersistStep == ASSUME TraceInv, NEW r \in Requests, Trace!Persist(r) PROVE TraceInv'
<1> DEFINE o == trace_reqs[r]
           q == Became(o, "done", o.rows, o.trace, o.truncated, o.route, o.dropped)
<1>1. o.pc = "persist"
  BY DEF Trace!Persist
<1>2. Fields(o) /\ TraceOK(o) /\ o.route = NA
  BY <1>1, Standing DEF ReqOK, RoutedOK
<1>3. trace_reqs' = [trace_reqs EXCEPT ![r] = q]
  <2>1. trace_reqs' = [trace_reqs EXCEPT ![r].pc = "done"]
    BY DEF Trace!Persist
  <2>2. [o EXCEPT !.pc = "done"] = q
    BY <1>2, BecameIs
  <2> HIDE DEF q
  <2> QED  BY <2>1, <2>2
<1>4. UNCHANGED <<trace_detected, trace_read, trace_routes>>
  BY DEF Trace!Persist
<1>5. LinksOK(trace_links')
  <2>1. trace_links' = trace_links \union
          {[plate |-> o.ask.plate, sighting |-> s, confidence |-> Policy.bridged] :
             s \in {x \in o.rows : \A l \in trace_links : l.plate = o.ask.plate => l.sighting # x}}
    BY DEF Trace!Persist
  <2>2. o.rows \subseteq DOMAIN Shot /\ o.ask.plate \in DOMAIN Strength
    BY <1>2, TraceFacts DEF Fields
  <2>3. LinksOK(trace_links)
    BY DEF TraceInv
  <2> HIDE DEF o
  <2> QED  BY <2>1, <2>2, <2>3 DEF LinksOK
<1>6. o.rows \subseteq DOMAIN Shot
  BY <1>2 DEF Fields
<1>7. ReqOK(q, trace_read, trace_reqs', trace_routes')
  BY <1>2, <1>6, MovesOn
<1> HIDE DEF q
<1>8. trace_routes' = [k \in Trace!Keys |-> trace_routes'[k]]
  BY <1>4 DEF TraceInv
<1> QED  BY <1>1, <1>3, <1>4, <1>5, <1>7, <1>8, RequestMoves

(* What is ingested meanwhile only adds to what a request has counted on.  *)
LEMMA IngestStep ==
    ASSUME TraceInv, UNCHANGED <<trace_links, trace_routes, trace_reqs>>,
           trace_detected \subseteq trace_detected', trace_read \subseteq trace_read',
           trace_read' \subseteq trace_detected', trace_detected' \subseteq DOMAIN Shot
    PROVE  TraceInv'
<1>1. ASSUME NEW r \in Requests
      PROVE  trace_reqs'[r] = Trace!Idle \/ ReqOK(trace_reqs'[r], trace_read', trace_reqs', trace_routes')
  <2>1. CASE trace_reqs[r] = Trace!Idle
    BY <2>1
  <2>2. CASE ReqOK(trace_reqs[r], trace_read, trace_reqs, trace_routes)
    <3> DEFINE o == trace_reqs[r]
    <3>1. /\ Fields(o) /\ Searched(o, trace_read) /\ RoutedOK(o, trace_reqs, trace_routes)
          /\ o.pc \notin {"hydrate", "bridged", "links"} => TraceOK(o)
      BY <2>2 DEF ReqOK
    <3>2. Searched(o, trace_read')
      BY <3>1 DEF Searched
    <3>3. ReqOK(o, trace_read', trace_reqs, trace_routes)
      BY <3>1, <3>2 DEF ReqOK
    <3> QED  BY <3>3
  <2> QED  BY <2>1, <2>2 DEF TraceInv
<1> QED  BY <1>1 DEF TraceInv

LEMMA TraceStep == TraceInv /\ Trace!Next => TraceInv'
<1> SUFFICES ASSUME TraceInv, Trace!Next PROVE TraceInv'
  OBVIOUS
<1>1. trace_read \subseteq trace_detected /\ trace_detected \subseteq DOMAIN Shot
  BY DEF TraceInv
<1>2. ASSUME NEW s \in Trace!Sighting, Trace!Detect(s) PROVE TraceInv'
  <2>1. trace_detected' = trace_detected \union {s} /\ trace_read' = trace_read /\ s \in DOMAIN Shot
          /\ UNCHANGED <<trace_links, trace_routes, trace_reqs>>
    BY <1>2, TraceFacts DEF Trace!Detect
  <2> QED  BY <1>1, <2>1, IngestStep
<1>3. ASSUME NEW s \in Trace!Sighting, Trace!ReadPlate(s) PROVE TraceInv'
  <2>1. trace_detected' = trace_detected /\ trace_read' = trace_read \union {s} /\ s \in trace_detected
          /\ UNCHANGED <<trace_links, trace_routes, trace_reqs>>
    BY <1>3 DEF Trace!ReadPlate
  <2> QED  BY <1>1, <2>1, IngestStep
<1> QED  BY <1>2, <1>3, SearchStep, HydrateStep, HydrateReidStep, LoadLinksStep, ReadCacheStep, ReadSegmentsStep,
            RouteAllStep, WriteCacheStep, CandidatesStep, PersistStep DEF Trace!Next

LEMMA TraceSame == TraceInv /\ UNCHANGED traceVars => TraceInv'
<1> SUFFICES ASSUME TraceInv, UNCHANGED traceVars PROVE TraceInv'
  OBVIOUS
<1>1. UNCHANGED <<trace_detected, trace_read, trace_links, trace_routes, trace_reqs>>
  BY DEF traceVars
<1> QED  BY <1>1 DEF TraceInv

LEMMA TraceInit == Trace!Init => TraceInv
BY TraceFacts DEF Trace!Init, TraceInv, LinksOK

(* The alert on a fresh route: each repeat is a passage no drive explains. *)
LEMMA AlertsRest ==
    ASSUME NEW r \in Requests, Fresh(trace_reqs[r]), TraceOK(trace_reqs[r]),
           NEW i \in DOMAIN trace_reqs[r].route.segments,
           Trace!Found(r, trace_reqs[r].route.segments[i]).alert # NA
    PROVE  LET g == trace_reqs[r].route.segments[i]
               road == Drive[<<Shot[g.from].camera, Shot[g.to].camera>>]
               ids == Trace!Ids(r)
               passages == {j \in 1..Len(ids) - 1 :
                              /\ Shot[ids[j]].camera = Shot[g.from].camera
                              /\ Shot[ids[j + 1]].camera = Shot[g.to].camera
                              /\ LET t == Shot[ids[j + 1]].ts - Shot[ids[j]].ts
                                 IN  t * Policy.tolerance < road.time * 100 \/ road.metres * 36 > Policy.maxKmh * t}
           IN  Cardinality(passages) >= Policy.repeats
<1> PICK q : q = trace_reqs[r]
  OBVIOUS
<1> PICK segments : segments = q.route.segments
  OBVIOUS
<1> PICK g : g = segments[i]
  OBVIOUS
<1> PICK ids : ids = Trace!Ids(r)
  OBVIOUS
<1> PICK n : n = Len(ids) - 1
  OBVIOUS
<1> DEFINE road == Drive[<<Shot[g.from].camera, Shot[g.to].camera>>]
           Fast(t) == t * Policy.tolerance < road.time * 100 \/ road.metres * 36 > Policy.maxKmh * t
           passages == {j \in 1..n :
                          /\ Shot[ids[j]].camera = Shot[g.from].camera
                          /\ Shot[ids[j + 1]].camera = Shot[g.to].camera
                          /\ Fast(Shot[ids[j + 1]].ts - Shot[ids[j]].ts)}
           again == {j \in DOMAIN segments : Trace!Impossible(segments[j]) /\ Trace!SamePattern(segments[j], g)}
<1>1. ids = IdsOf(q) /\ Len(ids) = Len(q.trace) /\ Len(q.trace) \in Nat
  <2>1. ids = IdsOf(q)
    BY DEF IdsOf, Trace!Ids
  <2> QED  BY <2>1, IdsAre DEF TraceOK
<1>2. DOMAIN segments = 1..n /\ \A j \in 1..n : \E b \in BOOLEAN : segments[j] = Trace!Segment(ids[j], ids[j + 1], b)
  BY <1>1 DEF Fresh, Joins
<1>3. Trace!Repeats(segments, g) >= Policy.repeats
  <2> DEFINE w == Trace!Confidence(r, g.from) * Trace!Confidence(r, g.to)
  <2>1. Trace!Found(r, g) = Trace!Finding(segments, g, w)
    BY DEF Trace!Found
  <2> HIDE DEF w
  <2>2. Trace!Finding(segments, g, w).alert # NA
    BY <2>1
  <2>3. Trace!Explanation(g.from, g.to, Trace!Repeats(segments, g)) = "likely_cloned"
    BY <2>2 DEF Trace!Finding
  <2> QED  BY <2>3 DEF Trace!Explanation
<1>4. Trace!Repeats(segments, g) = Cardinality(again)
  BY TraceNumber DEF Trace!Repeats
<1>5. ASSUME NEW j \in again PROVE j \in passages
  <2>1. j \in 1..n /\ Trace!Impossible(segments[j]) /\ Trace!SamePattern(segments[j], g)
    BY <1>2
  <2>2. PICK b \in BOOLEAN : segments[j] = Trace!Segment(ids[j], ids[j + 1], b)
    BY <1>2, <2>1
  <2>3. PICK h : h = segments[j]
    OBVIOUS
  <2>4. h.from = ids[j] /\ h.to = ids[j + 1] /\ h.elapsed = Shot[ids[j + 1]].ts - Shot[ids[j]].ts
          /\ (h.kind = "inferred_path" => h.way = Drive[<<Shot[ids[j]].camera, Shot[ids[j + 1]].camera>>])
    BY <2>2, <2>3 DEF Trace!Segment
  <2>5. h.kind = "inferred_path" /\ (Trace!TooFast(h) \/ Trace!BeatsTheGraph(h))
    <3>1. Trace!Feasibility(h) = "impossible"
      BY <2>1, <2>3 DEF Trace!Impossible
    <3> QED  BY <3>1 DEF Trace!Feasibility, Trace!OnRoad
  <2>6. Shot[ids[j]].camera = Shot[g.from].camera /\ Shot[ids[j + 1]].camera = Shot[g.to].camera
    BY <2>1, <2>3, <2>4 DEF Trace!SamePattern
  <2>7. h.way = road
    BY <2>4, <2>5, <2>6
  <2> HIDE DEF road
  <2>8. Fast(h.elapsed)
    BY <2>5, <2>7 DEF Trace!TooFast, Trace!BeatsTheGraph
  <2> HIDE DEF Fast
  <2> QED  BY <2>1, <2>4, <2>6, <2>8
<1>6. n \in Int
  BY <1>1
<1>7. IsFiniteSet(1..n) /\ passages \subseteq 1..n
  <2>1. passages \subseteq 1..n
    OBVIOUS
  <2> HIDE DEF passages, again
  <2> QED  BY <1>6, <2>1, FS_Interval
<1> HIDE DEF passages, again
<1>8. Cardinality(again) <= Cardinality(passages) /\ Cardinality(passages) \in Nat /\ Cardinality(again) \in Nat
  BY <1>5, <1>7, FS_Subset, FS_CardinalityType
<1>9. Policy.repeats \in Nat
  BY TraceFacts
<1>10. Cardinality(passages) >= Policy.repeats
  BY <1>3, <1>4, <1>8, <1>9
<1> QED  BY <1>10 DEF passages

LEMMA TraceShows == TraceInv => Trace!AnswerHoldsUp
<1> SUFFICES ASSUME TraceInv PROVE Trace!AnswerHoldsUp
  OBVIOUS
<1>1. ASSUME NEW r \in Trace!Traced PROVE TraceOK(trace_reqs[r]) /\ r \in Requests
  BY Standing DEF ReqOK, Trace!Traced
<1>2. ASSUME NEW r \in Trace!Routed
      PROVE  /\ r \in Requests /\ TraceOK(trace_reqs[r]) /\ trace_reqs[r].route # NA
             /\ Fresh(trace_reqs[r]) \/ Stored(trace_reqs[r])
  <2>1. r \in Requests /\ trace_reqs[r].pc = "done" /\ trace_reqs[r].route # NA
    BY <1>2 DEF Trace!Routed
  <2>2. ReqOK(trace_reqs[r], trace_read, trace_reqs, trace_routes)
    BY <2>1, Standing
  <2> QED  BY <2>1, <2>2 DEF ReqOK, RoutedOK
<1>3. Trace!TypeOK
  <2>1. ASSUME NEW k \in Trace!Keys PROVE trace_routes[k] = NA \/ trace_routes[k].id \in Requests
    BY DEF TraceInv, RowOK
  <2>2. ASSUME NEW r \in Requests
        PROVE  trace_reqs[r].pc \in {"idle", "hydrate", "bridged", "links", "cache", "segments", "drive", "write",
                                     "candidates", "persist", "done"}
    <3>1. CASE trace_reqs[r].pc = "idle"
      BY <3>1
    <3>2. CASE trace_reqs[r].pc # "idle"
      BY <3>2, Standing DEF ReqOK, Fields
    <3> QED  BY <3>1, <3>2
  <2> QED  BY <2>1, <2>2, TraceFacts DEF Trace!TypeOK, TraceInv, LinksOK
<1>4. Trace!TraceIsOrdered
  BY <1>1 DEF Trace!TraceIsOrdered, TraceOK
<1>5. Trace!NothingIsHidden
  <2> SUFFICES ASSUME NEW r \in Trace!Traced
               PROVE  \/ trace_reqs[r].due \subseteq Trace!ToSet(Trace!Ids(r))
                      \/ trace_reqs[r].truncated \/ trace_reqs[r].dropped > 0
    BY DEF Trace!NothingIsHidden
  <2> PICK q : q = trace_reqs[r]
    OBVIOUS
  <2>1. TraceOK(q)
    BY <1>1
  <2>2. Trace!Ids(r) = IdsOf(q)
    BY DEF IdsOf, Trace!Ids
  <2>3. ASSUME NEW s, NEW i \in 1..Len(q.trace), q.trace[i].id = s PROVE s \in Trace!ToSet(IdsOf(q))
    BY <2>1, <2>3, IdsAre DEF Trace!ToSet
  <2> QED  BY <2>1, <2>2, <2>3 DEF TraceOK
<1>6. Trace!RouteFitsTrace
  <2> SUFFICES ASSUME NEW r \in Trace!Routed, trace_reqs[r].route.segments # <<>>
               PROVE  LET g == trace_reqs[r].route.segments
                      IN  /\ Len(g) = Len(trace_reqs[r].trace) - 1
                          /\ \A i \in DOMAIN g : <<g[i].from, g[i].to>> = <<Trace!Ids(r)[i], Trace!Ids(r)[i + 1]>>
    BY DEF Trace!RouteFitsTrace
  <2> PICK q : q = trace_reqs[r]
    OBVIOUS
  <2>1. Joins(q.route.segments, IdsOf(q)) /\ TraceOK(q)
    BY <1>2 DEF Fresh, Stored
  <2>2. Trace!Ids(r) = IdsOf(q)
    BY DEF IdsOf, Trace!Ids
  <2> QED  BY <2>1, <2>2, IdsAre DEF Joins
<1>7. Trace!AlertsRestOnRepeats
  <2> SUFFICES ASSUME NEW r \in Trace!Routed, ~trace_reqs[r].route.hit,
                      NEW i \in DOMAIN trace_reqs[r].route.segments,
                      Trace!Found(r, trace_reqs[r].route.segments[i]).alert # NA
               PROVE  LET g == trace_reqs[r].route.segments[i]
                          road == Drive[<<Shot[g.from].camera, Shot[g.to].camera>>]
                          ids == Trace!Ids(r)
                          passages == {j \in 1..Len(ids) - 1 :
                                         /\ Shot[ids[j]].camera = Shot[g.from].camera
                                         /\ Shot[ids[j + 1]].camera = Shot[g.to].camera
                                         /\ LET t == Shot[ids[j + 1]].ts - Shot[ids[j]].ts
                                            IN  t * Policy.tolerance < road.time * 100 \/ road.metres * 36 > Policy.maxKmh * t}
                      IN  Cardinality(passages) >= Policy.repeats
    BY TraceNumber, Zenon DEF Trace!AlertsRestOnRepeats
  <2>1. r \in Requests /\ Fresh(trace_reqs[r]) /\ TraceOK(trace_reqs[r])
    BY <1>2 DEF Stored
  <2> QED  BY <2>1, AlertsRest, Zenon
<1> QED  BY <1>3, <1>4, <1>5, <1>6, <1>7 DEF Trace!AnswerHoldsUp

(* For any sightings, any questions and any number of requests at once: a  *)
(* trace is in order and hides nothing that was in when it began, a cached *)
(* route joins the very sightings it is served with, and an alert rests on *)
(* repeated passages.                                                      *)
THEOREM TracesHoldUp == RecordsSpec => []AnswerHoldsUp
<1>1. RecordsInit => TraceInv
  BY TraceInit DEF RecordsInit
<1>2. TraceInv /\ [RecordsNext]_recordsVars => TraceInv'
  BY TraceStep, TraceSame DEF RecordsNext, recordsVars
<1>3. TraceInv => AnswerHoldsUp
  BY TraceShows DEF AnswerHoldsUp
<1> QED  BY <1>1, <1>2, <1>3, PTL DEF RecordsSpec

-----------------------------------------------------------------------------
(* Preservation requests and the posture of the estate.                    *)
Cameras == DOMAIN Department
Stand == [days : Keep!Period, place : Keep!Where, deleted : BOOLEAN]
Pending == [step : {"audit", "insert"}, camera : Cameras, start : Nat, at : Nat, days : Keep!Period]
Note == [camera : Cameras, start : Nat, at : Nat, days : Keep!Period, expires : Int \union {NA}]
Request ==
    [id : Nat, camera : Cameras, start : Nat, at : Nat, days : Keep!Period,
     expires : Int \union {NA}, entry : Nat]

Audited(rs, es) ==
    /\ rs \subseteq Request /\ IsFiniteSet(rs) /\ es \in Seq(Note)
    /\ Cardinality(rs) = Len(es)
    /\ \A r \in rs : r.entry \in 1..Len(es)
    /\ \A i \in 1..Len(es) : \E r \in rs : r.entry = i /\ Keep!Snapshot(r) = es[i]

(* A column of the summary by declared period, and one by department.      *)
Buckets ==
    [d \in {keep_camera[c].days : c \in Keep!Live} |->
        Cardinality({c \in Keep!Live : keep_camera[c].days = d})]
ByDepartment ==
    [u \in {Department[c] : c \in Keep!Live} |-> Keep!Posture({c \in Keep!Live : Department[c] = u})]

(* What the statements made so far found of the cameras nobody changed.    *)
Answered(a) ==
    /\ a.step \in {"idle", "half", "whole", "buckets", "totals", "summary"}
    /\ a.step \in {"half", "whole"} =>
          /\ a = [step |-> a.step, covering |-> a.covering, unassessable |-> a.unassessable]
          /\ \A c \in keep_still : (c \in a.covering) = (keep_camera[c].place = "near")
    /\ a.step = "whole" =>
          \A c \in keep_still : (c \in a.unassessable) = (keep_camera[c].place = "nowhere")
    /\ a.step \in {"buckets", "totals", "summary"} => Keep!Live \subseteq a.live
    /\ a.step \in {"buckets", "totals", "summary"} /\ keep_still = a.live => a.buckets = Buckets
    /\ a.step \in {"totals", "summary"} /\ keep_still = a.live => a.total = Keep!Posture(Keep!Live)
    /\ a.step = "summary" /\ keep_still = a.live => a.department = ByDepartment

KeepInv ==
    /\ keep_clock \in 0..Hours /\ keep_edits \in 0..MaxChanges
    /\ keep_camera \in [Cameras -> Stand]
    /\ keep_tx \in [Officer -> {Keep!Idle} \union Pending]
    /\ Audited(keep_requests, keep_entries)
    /\ keep_still \subseteq Keep!Live
    /\ Answered(keep_answer)

LEMMA KeepFacts ==
    /\ Days \subseteq Nat /\ NA \notin Days /\ DayHours \in Nat \ {0} /\ SoonHours \in Nat
    /\ IsFiniteSet(Cameras) /\ {Hours, MaxChanges, MaxNotices} \subseteq Nat
<1>1. \A S : Keep!IsFiniteSet(S) = IsFiniteSet(S)
  BY DEF Keep!IsFiniteSet, IsFiniteSet
<1> QED  BY <1>1, KeepConstants DEF Keep!PeriodAssumption, Keep!BoundsAssumption, Cameras

LEMMA KeepNumber == \A S : Keep!Cardinality(S) = Cardinality(S)
  BY DEF Keep!Cardinality, Cardinality

LEMMA KeepSum == \A f, S : Keep!SumFunctionOnSet(f, S) = SumFunctionOnSet(f, S)
  BY DEF Keep!SumFunctionOnSet, SumFunctionOnSet, Keep!FoldFunctionOnSet, FoldFunctionOnSet,
         Keep!MapThenFoldSet, MapThenFoldSet

Over(T, key, D) == {c \in T : key[c] \in D}

(* What is counted by the value of a function is counted once.             *)
LEMMA FibresAddUp ==
    ASSUME NEW T, IsFiniteSet(T), NEW D, IsFiniteSet(D), NEW key, NEW f,
           \A d \in D : f[d] = Cardinality(Over(T, key, {d}))
    PROVE  SumFunctionOnSet(f, D) = Cardinality(Over(T, key, D))
<1> DEFINE Fibre(d) == Over(T, key, {d})
           Part(E) == Over(T, key, E)
           B == {E \in SUBSET D : SumFunctionOnSet(f, E) # Cardinality(Part(E))}
<1>1. \A d \in D : IsFiniteSet(Fibre(d)) /\ Cardinality(Fibre(d)) \in Nat /\ f[d] \in Int
                   /\ f[d] = Cardinality(Fibre(d))
  <2> SUFFICES ASSUME NEW d \in D
               PROVE  IsFiniteSet(Fibre(d)) /\ Cardinality(Fibre(d)) \in Nat /\ f[d] \in Int
                      /\ f[d] = Cardinality(Fibre(d))
    OBVIOUS
  <2>1. Fibre(d) \subseteq T
    BY DEF Over
  <2>2. IsFiniteSet(Fibre(d))
    BY <2>1, FS_Subset
  <2>3. Cardinality(Fibre(d)) \in Nat
    BY <2>2, FS_CardinalityType
  <2> QED  BY <2>2, <2>3
<1>2. \A E \in SUBSET D : IsFiniteSet(E) /\ IsFiniteSet(Part(E)) /\ Cardinality(Part(E)) \in Nat
  <2> SUFFICES ASSUME NEW E \in SUBSET D
               PROVE  IsFiniteSet(E) /\ IsFiniteSet(Part(E)) /\ Cardinality(Part(E)) \in Nat
    OBVIOUS
  <2>1. IsFiniteSet(E) /\ IsFiniteSet(Part(E))
    BY FS_Subset DEF Over
  <2> QED  BY <2>1, FS_CardinalityType
<1>3. SUFFICES ASSUME B # {} PROVE FALSE
  <2>1. D \notin B => SumFunctionOnSet(f, D) = Cardinality(Part(D))
    OBVIOUS
  <2> QED  BY <2>1
<1>4. PICK E \in B : \A F \in B : F \subseteq E => F = E
  <2>1. B \subseteq SUBSET D
    OBVIOUS
  <2> HIDE DEF B
  <2> QED  BY <1>3, <2>1, MinimalSubset
<1>5. E \in SUBSET D /\ SumFunctionOnSet(f, E) # Cardinality(Part(E))
  BY <1>4
<1>6. E # {}
  <2>1. SumFunctionOnSet(f, {}) = 0
    BY SumEmpty
  <2>2. Part({}) = {}
    BY DEF Over
  <2>3. Cardinality(Part({})) = 0
    BY <2>2, FS_EmptySet
  <2> HIDE DEF Part
  <2> QED  BY <1>5, <2>1, <2>3
<1>7. PICK d \in E : TRUE
  BY <1>6
<1> DEFINE F == E \ {d}
<1>8. F \in SUBSET D /\ d \notin F
  BY <1>5
<1>9. SumFunctionOnSet(f, F) = Cardinality(Part(F))
  <2>1. F # E
    BY <1>7
  <2> QED  BY <1>4, <1>8, <2>1
<1>10. SumFunctionOnSet(f, E) = f[d] + SumFunctionOnSet(f, F)
  <2>1. \A y \in E : f[y] \in Int
    BY <1>1, <1>5
  <2> HIDE DEF Fibre, Part, B
  <2> QED  BY <1>2, <1>5, <1>7, <2>1, SumRemove
<1>11. Part(E) = Fibre(d) \union Part(F) /\ Fibre(d) \cap Part(F) = {}
  BY <1>7 DEF Over
<1>12. d \in D
  BY <1>5, <1>7
<1> HIDE DEF Fibre, Part, B, F
<1>13. Cardinality(Part(E)) = Cardinality(Fibre(d)) + Cardinality(Part(F))
  <2>1. IsFiniteSet(Fibre(d)) /\ IsFiniteSet(Part(F)) /\ Cardinality(Fibre(d)) \in Nat
        /\ Cardinality(Part(F)) \in Nat
    BY <1>1, <1>2, <1>8, <1>12
  <2>2. Cardinality(Fibre(d) \union Part(F))
          = Cardinality(Fibre(d)) + Cardinality(Part(F)) - Cardinality(Fibre(d) \cap Part(F))
    BY <2>1, FS_Union
  <2>3. Cardinality(Fibre(d) \cap Part(F)) = 0
    BY <1>11, FS_EmptySet
  <2> QED  BY <1>11, <2>1, <2>2, <2>3
<1> QED  BY <1>1, <1>5, <1>9, <1>10, <1>12, <1>13

(* A part of the live cameras in the counts of a summary.                  *)
LEMMA LiveIsFinite ==
    ASSUME KeepInv
    PROVE  Keep!Live \subseteq Cameras /\ IsFiniteSet(Keep!Live)
<1>1. Keep!Live \subseteq Cameras
  BY DEF Keep!Live, Cameras
<1> QED  BY <1>1, KeepFacts, FS_Subset

LEMMA ShortestIs ==
    ASSUME KeepInv, NEW cs \in SUBSET Keep!Live
    PROVE  /\ Keep!Declared(cs) = {} => Keep!Shortest(cs) = NA
           /\ Keep!Declared(cs) # {} =>
                 /\ Keep!Shortest(cs) \in {keep_camera[c].days : c \in Keep!Declared(cs)}
                 /\ Keep!Shortest(cs) = Keep!Min({keep_camera[c].days : c \in Keep!Declared(cs)})
           /\ Keep!Shortest(cs) = NA <=> Keep!Declared(cs) = {}
           /\ IsFiniteSet(Keep!Declared(cs))
           /\ \A c \in Keep!Declared(cs) : keep_camera[c].days \in Nat /\ keep_camera[c].days # NA
<1> DEFINE D == Keep!Declared(cs)
           S == {keep_camera[c].days : c \in D}
<1>1. D \subseteq cs /\ D \subseteq Cameras /\ \A c \in D : keep_camera[c].days # NA
  BY LiveIsFinite DEF Keep!Declared
<1>2. \A c \in D : keep_camera[c].days \in Days
  <2>1. \A c \in Cameras : keep_camera[c].days \in Keep!Period
    BY DEF KeepInv, Stand
  <2> QED  BY <1>1, <2>1 DEF Keep!Period
<1>3. IsFiniteSet(D)
  BY <1>1, KeepFacts, FS_Subset
<1>4. S \subseteq Nat /\ NA \notin S
  BY <1>2, KeepFacts
<1>5. IsFiniteSet(S)
  <2>1. [c \in D |-> keep_camera[c].days] \in Surjection(D, S)
    BY DEF Surjection
  <2> HIDE DEF D, S
  <2> QED  BY <1>3, <2>1, FS_Surjection
<1>6. ASSUME D # {} PROVE Keep!Min(S) \in S
  <2>1. S # {}
    BY <1>6
  <2> HIDE DEF S
  <2>2. \E x \in S : \A y \in S : x <= y
    BY <1>4, <1>5, <2>1, LeastElement
  <2> QED  BY <2>2 DEF Keep!Min
<1>7. Keep!Shortest(cs) = IF D = {} THEN NA ELSE Keep!Min(S)
  BY DEF Keep!Shortest
<1>8. \A c \in D : keep_camera[c].days \in Nat
  BY <1>2, KeepFacts
<1> HIDE DEF D, S
<1>9. Keep!Shortest(cs) = NA <=> D = {}
  BY <1>4, <1>6, <1>7
<1> QED  BY <1>1, <1>3, <1>6, <1>7, <1>8, <1>9 DEF D, S

LEMMA SummaryAddsUp ==
    ASSUME KeepInv
    PROVE  Keep!SummaryAgrees
<1> SUFFICES ASSUME keep_answer.step = "summary", keep_still = keep_answer.live
             PROVE  Keep!SummaryAgrees
  BY DEF Keep!SummaryAgrees
<1> DEFINE L == Keep!Live
           b == keep_answer.buckets
           u == keep_answer.department
           t == keep_answer.total
           dated == DOMAIN b \ {NA}
           all == Keep!Declared(L)
           days == [c \in Cameras |-> keep_camera[c].days]
           part(d) == {c \in L : Department[c] = d}
<1>1. b = Buckets /\ t = Keep!Posture(L) /\ u = ByDepartment
  BY DEF KeepInv, Answered
<1>2. L \subseteq Cameras /\ IsFiniteSet(L)
  BY LiveIsFinite
<1>3. DOMAIN b = {keep_camera[c].days : c \in L} /\ \A d \in DOMAIN b : b[d] = Cardinality({c \in L : days[c] = d})
  <2>1. \A d : {c \in L : days[c] = d} = {c \in L : keep_camera[c].days = d}
    BY <1>2
  <2> QED  BY <1>1, <2>1, KeepNumber DEF Buckets
<1>4. DOMAIN u = {Department[c] : c \in L} /\ \A d \in DOMAIN u : u[d] = Keep!Posture(part(d))
  BY <1>1 DEF ByDepartment
<1>5. IsFiniteSet(DOMAIN b) /\ IsFiniteSet(DOMAIN u) /\ IsFiniteSet(dated)
  <2>1. IsFiniteSet({keep_camera[c].days : c \in L}) /\ IsFiniteSet({Department[c] : c \in L})
    <3> HIDE DEF L
    <3>1. /\ [c \in L |-> keep_camera[c].days] \in Surjection(L, {keep_camera[c].days : c \in L})
          /\ [c \in L |-> Department[c]] \in Surjection(L, {Department[c] : c \in L})
      BY DEF Surjection
    <3> QED  BY <1>2, <3>1, FS_Surjection
  <2>2. dated \subseteq DOMAIN b
    OBVIOUS
  <2> HIDE DEF dated, b, u
  <2>3. IsFiniteSet(DOMAIN b) /\ IsFiniteSet(DOMAIN u)
    BY <1>3, <1>4, <2>1
  <2> QED  BY <2>2, <2>3, FS_Subset
<1>6. all \subseteq L /\ IsFiniteSet(all) /\ all = {c \in L : days[c] \in dated}
  <2>1. all = {c \in L : keep_camera[c].days # NA}
    BY DEF Keep!Declared
  <2>2. \A c \in L : days[c] = keep_camera[c].days /\ days[c] \in DOMAIN b
    BY <1>2, <1>3
  <2> HIDE DEF L
  <2> QED  BY <1>2, <2>1, <2>2, FS_Subset
<1>7. /\ t.cameras = Cardinality(L) /\ t.declared = Cardinality(all)
      /\ t.shortest = Keep!Shortest(L)
  BY <1>1, KeepNumber DEF Keep!Posture
<1>8. \A d \in DOMAIN u :
        /\ u[d].cameras = Cardinality({c \in L : Department[c] = d})
        /\ u[d].declared = Cardinality({c \in all : Department[c] = d})
        /\ u[d].shortest = Keep!Shortest(part(d))
        /\ Keep!Declared(part(d)) = {c \in all : Department[c] = d}
  <2> SUFFICES ASSUME NEW d \in DOMAIN u
               PROVE  /\ u[d].cameras = Cardinality({c \in L : Department[c] = d})
                      /\ u[d].declared = Cardinality({c \in all : Department[c] = d})
                      /\ u[d].shortest = Keep!Shortest(part(d))
                      /\ Keep!Declared(part(d)) = {c \in all : Department[c] = d}
    OBVIOUS
  <2>1. Keep!Declared(part(d)) = {c \in all : Department[c] = d}
    BY DEF Keep!Declared
  <2>2. u[d] = Keep!Posture(part(d))
    BY <1>4
  <2> HIDE DEF u, all, L
  <2> QED  BY <2>1, <2>2, KeepNumber DEF Keep!Posture
<1>9. SumFunctionOnSet(b, DOMAIN b) = Cardinality(L)
  <2>1. Over(L, days, DOMAIN b) = L
    BY <1>2, <1>3 DEF Over
  <2>2. \A d \in DOMAIN b : b[d] = Cardinality(Over(L, days, {d}))
    BY <1>3 DEF Over
  <2> DEFINE D == DOMAIN b
  <2>3. IsFiniteSet(L) /\ IsFiniteSet(D)
    BY <1>2, <1>5
  <2> HIDE DEF b, days, L, D
  <2>4. SumFunctionOnSet(b, D) = Cardinality(Over(L, days, D))
    BY <2>2, <2>3, FibresAddUp DEF D
  <2> QED  BY <2>1, <2>4 DEF D
<1>10. SumFunctionOnSet(b, dated) = Cardinality(all)
  <2>1. \A d \in dated : b[d] = Cardinality(Over(L, days, {d}))
    BY <1>3 DEF Over
  <2>2. Over(L, days, dated) = all
    BY <1>6 DEF Over
  <2> HIDE DEF b, days, L, dated, all
  <2> QED  BY <1>2, <1>5, <2>1, <2>2, FibresAddUp
<1>11. SumFunctionOnSet([d \in DOMAIN u |-> u[d].cameras], DOMAIN u) = Cardinality(L)
  <2> DEFINE f == [d \in DOMAIN u |-> u[d].cameras]
  <2>1. \A d \in DOMAIN u : f[d] = Cardinality(Over(L, Department, {d}))
    BY <1>8 DEF Over
  <2>2. Over(L, Department, DOMAIN u) = L
    BY <1>4 DEF Over
  <2> HIDE DEF f, u, L
  <2>3. SumFunctionOnSet(f, DOMAIN u) = Cardinality(Over(L, Department, DOMAIN u))
    BY <1>2, <1>5, <2>1, FibresAddUp
  <2> QED  BY <2>2, <2>3 DEF f
<1>12. SumFunctionOnSet([d \in DOMAIN u |-> u[d].declared], DOMAIN u) = Cardinality(all)
  <2> DEFINE f == [d \in DOMAIN u |-> u[d].declared]
  <2>1. \A d \in DOMAIN u : f[d] = Cardinality(Over(all, Department, {d}))
    BY <1>8 DEF Over
  <2>2. Over(all, Department, DOMAIN u) = all
    BY <1>4, <1>6 DEF Over
  <2> DEFINE D == DOMAIN u
  <2>3. IsFiniteSet(all) /\ IsFiniteSet(D)
    BY <1>5, <1>6
  <2> HIDE DEF f, u, L, all, D
  <2>4. SumFunctionOnSet(f, D) = Cardinality(Over(all, Department, D))
    BY <2>1, <2>3, FibresAddUp DEF D
  <2> QED  BY <2>2, <2>4 DEF f, D
<1>13. dated = {keep_camera[c].days : c \in all}
  BY <1>3, <1>6 DEF Keep!Declared
<1>14. t.shortest = IF dated = {} THEN NA ELSE Keep!Min(dated)
  <2>1. dated = {} <=> all = {}
    BY <1>13
  <2>2. L \in SUBSET L
    OBVIOUS
  <2> HIDE DEF dated, all, t
  <2> QED  BY <1>7, <1>13, <2>1, <2>2, ShortestIs DEF all
<1>15. \A d \in DOMAIN u : (u[d].shortest = NA <=> u[d].declared = 0) /\ u[d].shortest \in dated \union {NA}
  <2> SUFFICES ASSUME NEW d \in DOMAIN u
               PROVE  (u[d].shortest = NA <=> u[d].declared = 0) /\ u[d].shortest \in dated \union {NA}
    OBVIOUS
  <2>1. part(d) \in SUBSET Keep!Live
    OBVIOUS
  <2>2. Keep!Declared(part(d)) \subseteq all
    BY <1>8
  <2>3. Cardinality(Keep!Declared(part(d))) = u[d].declared /\ u[d].shortest = Keep!Shortest(part(d))
    BY <1>8
  <2> DEFINE P == part(d)
  <2> HIDE DEF P, dated, all, u
  <2>4. /\ Keep!Shortest(P) = NA <=> Keep!Declared(P) = {}
        /\ IsFiniteSet(Keep!Declared(P))
        /\ Keep!Declared(P) # {} => Keep!Shortest(P) \in {keep_camera[c].days : c \in Keep!Declared(P)}
    BY <2>1, ShortestIs DEF P
  <2>5. Cardinality(Keep!Declared(P)) = 0 <=> Keep!Declared(P) = {}
    BY <2>4, FS_EmptySet
  <2>6. Keep!Shortest(P) \in dated \union {NA}
    BY <1>13, <2>2, <2>4 DEF P
  <2> QED  BY <2>3, <2>4, <2>5, <2>6 DEF P
<1> HIDE DEF b, u, t, L, all
<1>16. SumFunctionOnSet(b, DOMAIN b) = t.cameras /\ SumFunctionOnSet(b, dated) = t.declared
  BY <1>7, <1>9, <1>10
<1>17. /\ Keep!SumFunction(b) = t.cameras /\ Keep!SumFunctionOnSet(b, dated) = t.declared
  BY <1>16, KeepSum DEF Keep!SumFunction
<1>18. /\ Keep!SumFunction([d \in DOMAIN u |-> u[d].cameras]) = t.cameras
       /\ Keep!SumFunction([d \in DOMAIN u |-> u[d].declared]) = t.declared
  <2>1. DOMAIN [d \in DOMAIN u |-> u[d].cameras] = DOMAIN u /\ DOMAIN [d \in DOMAIN u |-> u[d].declared] = DOMAIN u
    OBVIOUS
  <2> QED  BY <1>7, <1>11, <1>12, <2>1, KeepSum DEF Keep!SumFunction
<1> QED  BY <1>14, <1>15, <1>17, <1>18 DEF Keep!SummaryAgrees, b, u, t

-----------------------------------------------------------------------------
(* Time alone makes nothing less urgent.                                   *)
LEMMA StateSinks ==
    ASSUME NEW start \in Nat, NEW days \in Keep!Period, NEW i \in Nat, NEW j \in Nat, i <= j
    PROVE  Keep!Rank[Keep!State(start, days, j)] <= Keep!Rank[Keep!State(start, days, i)]
<1>1. CASE days = NA
  BY <1>1 DEF Keep!State, Keep!Rank
<1>2. CASE days # NA
  <2>1. days \in Nat /\ DayHours \in Nat /\ SoonHours \in Nat
    BY <1>2, KeepFacts DEF Keep!Period
  <2> DEFINE p == days * DayHours
  <2>2. p \in Int
    BY <2>1
  <2>3. \A k \in Nat : Keep!Remaining(start, days, k) = start + p - k
    BY <1>2, <2>1, <2>2 DEF Keep!Remaining, Keep!Expiry
  <2> HIDE DEF p
  <2>4. \A k \in Nat : Keep!State(start, days, k) =
            IF start + p - k <= 0 THEN "expired"
            ELSE IF start + p - k <= SoonHours THEN "expiring_soon" ELSE "available"
    BY <1>2, <2>3 DEF Keep!State
  <2> QED  BY <2>1, <2>2, <2>4 DEF Keep!Rank
<1> QED  BY <1>1, <1>2

(* A registry change takes its camera out of every answer under way.       *)
LEMMA ChangeKeeps ==
    ASSUME KeepInv, NEW c \in Cameras, NEW row \in Stand, ~keep_camera[c].deleted, Keep!Change(c, row)
    PROVE  KeepInv' /\ keep_clock' = keep_clock
<1>1. /\ keep_camera' = [keep_camera EXCEPT ![c] = row]
      /\ keep_still' = keep_still \ {c} /\ keep_edits < MaxChanges /\ keep_edits' = keep_edits + 1
      /\ UNCHANGED <<keep_clock, keep_requests, keep_entries, keep_tx, keep_answer>>
  BY DEF Keep!Change
<1>2. keep_camera' \in [Cameras -> Stand] /\ \A x \in Cameras : x # c => keep_camera'[x] = keep_camera[x]
  BY <1>1 DEF KeepInv
<1>3. c \in Keep!Live /\ Keep!Live \subseteq Cameras /\ Keep!Live' \subseteq Cameras /\ Keep!Live' \subseteq Keep!Live
  BY <1>2 DEF Keep!Live, Cameras
<1>4. keep_still' \subseteq Keep!Live'
  <2>1. keep_still \subseteq Keep!Live
    BY DEF KeepInv
  <2> QED  BY <1>1, <1>2, <2>1 DEF Keep!Live, Cameras
<1>5. Answered(keep_answer)'
  <2>1. Answered(keep_answer) /\ keep_still \subseteq Cameras
    BY <1>3 DEF KeepInv
  <2>2. keep_answer' = keep_answer
    BY <1>1
  <2>3. keep_answer.step \in {"buckets", "totals", "summary"} => Keep!Live' \subseteq keep_answer.live /\ keep_still' # keep_answer.live
    BY <1>1, <1>3, <2>1 DEF Answered
  <2>4. \A x \in keep_still' : x \in keep_still /\ keep_camera'[x] = keep_camera[x]
    BY <1>1, <1>2, <2>1
  <2>5. /\ keep_answer.step \in {"idle", "half", "whole", "buckets", "totals", "summary"}
        /\ keep_answer.step \in {"half", "whole"} =>
              keep_answer = [step |-> keep_answer.step, covering |-> keep_answer.covering,
                             unassessable |-> keep_answer.unassessable]
        /\ keep_answer.step \in {"half", "whole"} =>
              \A x \in keep_still' : (x \in keep_answer.covering) = (keep_camera'[x].place = "near")
        /\ keep_answer.step = "whole" =>
              \A x \in keep_still' : (x \in keep_answer.unassessable) = (keep_camera'[x].place = "nowhere")
    BY <2>1, <2>4 DEF Answered
  <2> QED  BY <2>2, <2>3, <2>5 DEF Answered
<1>6. /\ keep_clock' \in 0..Hours /\ keep_edits' \in 0..MaxChanges
      /\ keep_tx' \in [Officer -> {Keep!Idle} \union Pending] /\ keep_clock' = keep_clock
  BY <1>1, KeepFacts DEF KeepInv
<1>7. Audited(keep_requests, keep_entries)'
  BY <1>1 DEF KeepInv, Audited, Keep!Snapshot, Keep!Expiry
<1> QED  BY <1>2, <1>4, <1>5, <1>6, <1>7 DEF KeepInv

(* The rest of the steps leave the registry alone.                         *)
LEMMA RegistryStays ==
    ASSUME keep_camera' = keep_camera
    PROVE  /\ Keep!Live' = Keep!Live /\ Buckets' = Buckets /\ ByDepartment' = ByDepartment
           /\ Keep!Posture(Keep!Live)' = Keep!Posture(Keep!Live)
<1>1. Keep!Live' = Keep!Live
  BY DEF Keep!Live
<1>2. Buckets' = Buckets
  BY <1>1 DEF Buckets
<1>3. \A cs : Keep!Posture(cs)' = Keep!Posture(cs)
  BY DEF Keep!Posture, Keep!Declared, Keep!Shortest
<1>4. ByDepartment' = ByDepartment
  BY <1>1, <1>3 DEF ByDepartment
<1> QED  BY <1>1, <1>2, <1>3, <1>4

LEMMA AnswerStays ==
    ASSUME KeepInv, keep_camera' = keep_camera, keep_still' = keep_still, keep_answer' = keep_answer
    PROVE  /\ keep_camera' \in [Cameras -> Stand] /\ keep_still' \subseteq Keep!Live'
           /\ Answered(keep_answer)'
<1>1. Answered(keep_answer) /\ keep_camera \in [Cameras -> Stand] /\ keep_still \subseteq Keep!Live
  BY DEF KeepInv
<1>2. Answered(keep_answer)'
  BY <1>1, RegistryStays DEF Answered
<1> QED  BY <1>1, <1>2, RegistryStays

(* A committed request: its row and its entry, together.                   *)
LEMMA CommitKeeps ==
    ASSUME KeepInv, NEW o \in Officer, Keep!Commit(o)
    PROVE  KeepInv' /\ keep_clock' = keep_clock
<1> DEFINE t == keep_tx[o]
           n == Len(keep_entries) + 1
           e == Keep!Snapshot(t)
           row == [id |-> n, camera |-> t.camera, start |-> t.start, at |-> t.at, days |-> t.days,
                   expires |-> Keep!Expiry(t.start, t.days), entry |-> n]
<1>1. /\ t.step = "insert" /\ keep_entries' = Append(keep_entries, e)
      /\ keep_tx' = [keep_tx EXCEPT ![o] = Keep!Idle]
      /\ UNCHANGED <<keep_clock, keep_camera, keep_edits, keep_answer, keep_still>>
  BY DEF Keep!Commit
<1>2. t \in Pending
  BY <1>1 DEF KeepInv, Keep!Idle
<1>3. /\ keep_entries \in Seq(Note) /\ Len(keep_entries) \in Nat
      /\ keep_requests \subseteq Request /\ IsFiniteSet(keep_requests)
      /\ Cardinality(keep_requests) = Len(keep_entries)
      /\ \A r \in keep_requests : r.entry \in 1..Len(keep_entries)
      /\ \A i \in 1..Len(keep_entries) : \E r \in keep_requests : r.entry = i /\ Keep!Snapshot(r) = keep_entries[i]
  BY LenProperties DEF KeepInv, Audited
<1>4. Keep!Expiry(t.start, t.days) \in Int \union {NA}
  <2>1. t.start \in Nat /\ t.days \in Keep!Period
    BY <1>2 DEF Pending
  <2>2. t.days # NA => t.days \in Nat /\ DayHours \in Nat
    BY <2>1, KeepFacts DEF Keep!Period
  <2>3. t.days # NA => t.days * DayHours \in Int
    BY <2>2
  <2> QED  BY <2>1, <2>3 DEF Keep!Expiry
<1>5. e \in Note
  BY <1>2, <1>4 DEF Keep!Snapshot, Note, Pending
<1>6. /\ keep_entries' \in Seq(Note) /\ Len(keep_entries') = n /\ n \in Nat
      /\ keep_entries'[n] = e /\ \A i \in 1..Len(keep_entries) : keep_entries'[i] = keep_entries[i]
  <2> HIDE DEF e
  <2>1. keep_entries' = Append(keep_entries, e)
    BY <1>1
  <2> QED  BY <1>3, <1>5, <2>1, AppendProperties
<1>7. keep_requests' = keep_requests \union {row}
  <2>1. keep_requests' = keep_requests \union
          {[id |-> Len(keep_entries'), camera |-> t.camera, start |-> t.start, at |-> t.at, days |-> t.days,
            expires |-> Keep!Expiry(t.start, t.days), entry |-> Len(keep_entries')]}
    BY DEF Keep!Commit
  <2> QED  BY <1>6, <2>1
<1>8. row \in Request /\ Keep!Snapshot(row) = e /\ row.entry = n
  BY <1>2, <1>4, <1>6 DEF Request, Keep!Snapshot, Pending
<1> HIDE DEF row, e
<1>9. row \notin keep_requests
  BY <1>3, <1>6, <1>8
<1>10. Audited(keep_requests, keep_entries)'
  <2>1. keep_requests' \subseteq Request /\ IsFiniteSet(keep_requests') /\ Cardinality(keep_requests') = n
    <3>1. IsFiniteSet(keep_requests \union {row}) /\ Cardinality(keep_requests \union {row}) = Cardinality(keep_requests) + 1
      BY <1>3, <1>9, FS_AddElement
    <3> QED  BY <1>3, <1>7, <1>8, <3>1
  <2>2. \A r \in keep_requests' : r.entry \in 1..n
    BY <1>3, <1>7, <1>8
  <2>3. \A i \in 1..n : \E r \in keep_requests' : r.entry = i /\ Keep!Snapshot(r) = keep_entries'[i]
    BY <1>3, <1>6, <1>7, <1>8
  <2> QED  BY <1>6, <2>1, <2>2, <2>3 DEF Audited, Keep!Snapshot, Keep!Expiry
<1>11. keep_tx' \in [Officer -> {Keep!Idle} \union Pending]
  BY <1>1 DEF KeepInv
<1> QED  BY <1>1, <1>10, <1>11, AnswerStays DEF KeepInv

LEMMA OfficerKeeps ==
    ASSUME KeepInv, NEW o \in Officer,
           \/ \E c \in Cameras, start \in 0..Hours : Keep!ReadCamera(o, c, start)
           \/ Keep!WriteEntry(o) \/ Keep!Rollback(o)
    PROVE  KeepInv' /\ keep_clock' = keep_clock
<1>1. UNCHANGED <<keep_clock, keep_camera, keep_edits, keep_requests, keep_entries, keep_answer, keep_still>>
  BY DEF Keep!ReadCamera, Keep!WriteEntry, Keep!Rollback
<1>2. keep_tx' \in [Officer -> {Keep!Idle} \union Pending]
  <2>1. keep_tx \in [Officer -> {Keep!Idle} \union Pending] /\ keep_clock \in Nat
        /\ keep_camera \in [Cameras -> Stand] /\ Hours \in Nat
    BY KeepFacts DEF KeepInv
  <2>2. ASSUME NEW c \in Cameras, NEW start \in 0..Hours, Keep!ReadCamera(o, c, start)
        PROVE  keep_tx' \in [Officer -> {Keep!Idle} \union Pending]
    <3>1. [step |-> "audit", camera |-> c, start |-> start, at |-> keep_clock, days |-> keep_camera[c].days] \in Pending
      BY <2>1 DEF Pending, Stand
    <3> QED  BY <2>1, <2>2, <3>1 DEF Keep!ReadCamera
  <2>3. ASSUME Keep!WriteEntry(o) PROVE keep_tx' \in [Officer -> {Keep!Idle} \union Pending]
    <3>1. keep_tx[o] \in Pending /\ keep_tx' = [keep_tx EXCEPT ![o].step = "insert"]
      BY <2>1, <2>3 DEF Keep!WriteEntry, Keep!Idle
    <3>2. [keep_tx[o] EXCEPT !.step = "insert"] \in Pending
      BY <3>1 DEF Pending
    <3> QED  BY <2>1, <3>1, <3>2
  <2>4. ASSUME Keep!Rollback(o) PROVE keep_tx' \in [Officer -> {Keep!Idle} \union Pending]
    BY <2>1, <2>4 DEF Keep!Rollback
  <2> QED  BY <2>2, <2>3, <2>4
<1>3. Audited(keep_requests, keep_entries)'
  BY <1>1 DEF KeepInv, Audited, Keep!Snapshot, Keep!Expiry
<1> QED  BY <1>1, <1>2, <1>3, AnswerStays DEF KeepInv

(* Each statement of an answer finds what is so when it runs.              *)
LEMMA AskKeeps ==
    ASSUME KeepInv,
           \/ Keep!AskCovering \/ Keep!AskUnassessable
           \/ Keep!AskBuckets \/ Keep!AskTotals \/ Keep!AskDepartments
    PROVE  KeepInv' /\ keep_clock' = keep_clock
<1>1. UNCHANGED <<keep_clock, keep_camera, keep_edits, keep_requests, keep_entries, keep_tx>>
  BY DEF Keep!AskCovering, Keep!AskUnassessable, Keep!AskBuckets, Keep!AskTotals, Keep!AskDepartments
<1>2. Audited(keep_requests, keep_entries)'
  BY <1>1 DEF KeepInv, Audited, Keep!Snapshot, Keep!Expiry
<1>3. keep_still \subseteq Keep!Live /\ Answered(keep_answer)
  BY DEF KeepInv
<1>4. /\ Keep!Live' = Keep!Live /\ Buckets' = Buckets /\ ByDepartment' = ByDepartment
      /\ Keep!Posture(Keep!Live)' = Keep!Posture(Keep!Live)
  BY <1>1, RegistryStays
<1>5. keep_still' \subseteq Keep!Live /\ Answered(keep_answer)'
  <2>1. ASSUME Keep!AskCovering PROVE keep_still' \subseteq Keep!Live /\ Answered(keep_answer)'
    <3>1. /\ keep_answer' = [step |-> "half", covering |-> Keep!Covering, unassessable |-> {}]
          /\ keep_still' = Keep!Live
      BY <2>1 DEF Keep!AskCovering
    <3>2. /\ keep_answer'.step = "half" /\ keep_answer'.covering = Keep!Covering
          /\ keep_answer' = [step |-> keep_answer'.step, covering |-> keep_answer'.covering,
                             unassessable |-> keep_answer'.unassessable]
      BY <3>1
    <3>3. \A c \in keep_still' : (c \in keep_answer'.covering) = (keep_camera'[c].place = "near")
      BY <1>1, <3>1, <3>2 DEF Keep!Covering
    <3> QED  BY <3>1, <3>2, <3>3 DEF Answered
  <2>2. ASSUME Keep!AskUnassessable PROVE keep_still' \subseteq Keep!Live /\ Answered(keep_answer)'
    <3>1. /\ keep_answer.step = "half" /\ keep_still' = keep_still
          /\ keep_answer = [step |-> "half", covering |-> keep_answer.covering,
                            unassessable |-> keep_answer.unassessable]
          /\ keep_answer' = [keep_answer EXCEPT !.step = "whole", !.unassessable = Keep!Unassessable]
      BY <1>3, <2>2 DEF Keep!AskUnassessable, Answered
    <3>2. PICK a : a = [keep_answer EXCEPT !.step = "whole"]
      OBVIOUS
    <3>3. a = [step |-> "whole", covering |-> keep_answer.covering, unassessable |-> keep_answer.unassessable]
      BY <3>1, <3>2
    <3>4. keep_answer' = [a EXCEPT !.unassessable = Keep!Unassessable]
      BY <3>1, <3>2
    <3>5. keep_answer' = [step |-> "whole", covering |-> keep_answer.covering, unassessable |-> Keep!Unassessable]
      BY <3>3, <3>4
    <3>6. /\ keep_answer'.step = "whole" /\ keep_answer'.covering = keep_answer.covering
          /\ keep_answer'.unassessable = Keep!Unassessable
          /\ keep_answer' = [step |-> keep_answer'.step, covering |-> keep_answer'.covering,
                             unassessable |-> keep_answer'.unassessable]
      BY <3>5
    <3>7. \A c \in keep_still' :
             /\ (c \in keep_answer'.covering) = (keep_camera'[c].place = "near")
             /\ (c \in keep_answer'.unassessable) = (keep_camera'[c].place = "nowhere")
      BY <1>1, <1>3, <3>1, <3>6 DEF Answered, Keep!Unassessable
    <3> QED  BY <1>3, <3>1, <3>6, <3>7 DEF Answered
  <2>3. ASSUME Keep!AskBuckets PROVE keep_still' \subseteq Keep!Live /\ Answered(keep_answer)'
    <3>1. keep_answer' = [step |-> "buckets", live |-> Keep!Live, buckets |-> Buckets] /\ keep_still' = Keep!Live
      BY <2>3, KeepNumber DEF Keep!AskBuckets, Buckets
    <3>2. keep_answer'.step = "buckets" /\ keep_answer'.live = Keep!Live /\ keep_answer'.buckets = Buckets
      BY <3>1
    <3> QED  BY <1>4, <3>1, <3>2 DEF Answered
  <2>4. ASSUME Keep!AskTotals PROVE keep_still' \subseteq Keep!Live /\ Answered(keep_answer)'
    <3>1. /\ keep_answer.step = "buckets" /\ keep_still' = keep_still
          /\ keep_answer'.step = "totals" /\ keep_answer'.live = keep_answer.live
          /\ keep_answer'.buckets = keep_answer.buckets /\ keep_answer'.total = Keep!Posture(Keep!Live)
      BY <2>4 DEF Keep!AskTotals
    <3> QED  BY <1>3, <1>4, <3>1 DEF Answered
  <2>5. ASSUME Keep!AskDepartments PROVE keep_still' \subseteq Keep!Live /\ Answered(keep_answer)'
    <3>1. /\ keep_answer.step = "totals" /\ keep_still' = keep_still
          /\ keep_answer'.step = "summary" /\ keep_answer'.live = keep_answer.live
          /\ keep_answer'.buckets = keep_answer.buckets /\ keep_answer'.total = keep_answer.total
          /\ keep_answer'.department = ByDepartment
      BY <2>5 DEF Keep!AskDepartments, ByDepartment
    <3> QED  BY <1>3, <1>4, <3>1 DEF Answered
  <2> QED  BY <2>1, <2>2, <2>3, <2>4, <2>5
<1> QED  BY <1>1, <1>2, <1>4, <1>5 DEF KeepInv

LEMMA KeepStart == ASSUME Keep!Init, keep_camera \in Unasked PROVE KeepInv
<1>1. keep_camera \in [Cameras -> Stand]
  BY DEF Unasked, Cameras, Stand, Keep!Period
<1>2. Audited(keep_requests, keep_entries)
  <2>1. Len(<<>>) = 0 /\ <<>> \in Seq(Note) /\ 1..0 = {}
    BY EmptySeq
  <2> QED  BY <2>1, FS_EmptySet DEF Keep!Init, Audited
<1>3. Answered(keep_answer)
  BY DEF Keep!Init, Answered, Keep!Idle
<1> QED  BY <1>1, <1>2, <1>3, KeepFacts DEF Keep!Init, KeepInv

LEMMA KeepStep ==
    ASSUME KeepInv, [Keep!Next]_keepVars
    PROVE  KeepInv' /\ keep_clock' >= keep_clock
<1>1. ASSUME UNCHANGED keepVars PROVE KeepInv' /\ keep_clock' >= keep_clock
  <2>1. Audited(keep_requests, keep_entries)'
    BY <1>1 DEF KeepInv, Audited, Keep!Snapshot, Keep!Expiry, keepVars
  <2>2. UNCHANGED <<keep_clock, keep_camera, keep_edits, keep_requests, keep_entries, keep_tx, keep_answer, keep_still>>
    BY <1>1 DEF keepVars
  <2> QED  BY <2>1, <2>2, AnswerStays, KeepFacts DEF KeepInv
<1>2. ASSUME Keep!Tick PROVE KeepInv' /\ keep_clock' >= keep_clock
  <2>1. /\ keep_clock < Hours /\ keep_clock' = keep_clock + 1
        /\ UNCHANGED <<keep_camera, keep_edits, keep_requests, keep_entries, keep_tx, keep_answer, keep_still>>
    BY <1>2 DEF Keep!Tick
  <2>2. Audited(keep_requests, keep_entries)'
    BY <2>1 DEF KeepInv, Audited, Keep!Snapshot, Keep!Expiry
  <2>3. keep_clock' \in 0..Hours /\ keep_clock' >= keep_clock
    BY <2>1, KeepFacts DEF KeepInv
  <2> QED  BY <2>1, <2>2, <2>3, AnswerStays DEF KeepInv
<1>3. ASSUME NEW c \in Cameras,
             \/ \E d \in Keep!Period : Keep!Declare(c, d)
             \/ \E p \in Keep!Where : Keep!Locate(c, p)
             \/ Keep!Delete(c)
      PROVE  KeepInv' /\ keep_clock' >= keep_clock
  <2>1. PICK row \in Stand : ~keep_camera[c].deleted /\ Keep!Change(c, row)
    <3>1. keep_camera[c] \in Stand
      BY DEF KeepInv
    <3>2. /\ \A d \in Keep!Period : [keep_camera[c] EXCEPT !.days = d] \in Stand
          /\ \A p \in Keep!Where : [keep_camera[c] EXCEPT !.place = p] \in Stand
          /\ [keep_camera[c] EXCEPT !.deleted = TRUE] \in Stand
      BY <3>1 DEF Stand
    <3> QED  BY <1>3, <3>2 DEF Keep!Declare, Keep!Locate, Keep!Delete
  <2> QED  BY <2>1, ChangeKeeps, KeepFacts DEF KeepInv
<1>4. ASSUME NEW o \in Officer,
             \/ \E c \in Cameras, start \in 0..Hours : Keep!ReadCamera(o, c, start)
             \/ Keep!WriteEntry(o) \/ Keep!Commit(o) \/ Keep!Rollback(o)
      PROVE  KeepInv' /\ keep_clock' >= keep_clock
  <2>1. keep_clock \in Nat
    BY KeepFacts DEF KeepInv
  <2> QED  BY <1>4, <2>1, OfficerKeeps, CommitKeeps
<1>5. ASSUME \/ Keep!AskCovering \/ Keep!AskUnassessable
             \/ Keep!AskBuckets \/ Keep!AskTotals \/ Keep!AskDepartments
      PROVE  KeepInv' /\ keep_clock' >= keep_clock
  <2>1. keep_clock \in Nat
    BY KeepFacts DEF KeepInv
  <2> QED  BY <1>5, <2>1, AskKeeps
<1>6. Cameras = DOMAIN Department
  BY DEF Cameras
<1> QED  BY <1>1, <1>2, <1>3, <1>4, <1>5, <1>6 DEF Keep!Next

LEMMA KeepHolds ==
    ASSUME KeepInv
    PROVE  /\ Keep!TypeOK /\ Keep!EveryRequestIsAudited /\ Keep!AnswerAccountsForCameras
           /\ Keep!SummaryAgrees
<1>1. Keep!EveryRequestIsAudited
  <2>1. DOMAIN keep_entries = 1..Len(keep_entries)
    BY LenProperties DEF KeepInv, Audited
  <2> QED  BY <2>1, KeepNumber DEF Keep!EveryRequestIsAudited, KeepInv, Audited
<1>2. Keep!AnswerAccountsForCameras
  BY DEF Keep!AnswerAccountsForCameras, KeepInv, Answered
<1>3. Keep!TypeOK
  <2>1. /\ \A r \in keep_requests : r.camera \in Cameras /\ r.entry \in DOMAIN keep_entries
        /\ \A o \in Officer : keep_tx[o].step \in {"idle", "audit", "insert"}
    <3>1. DOMAIN keep_entries = 1..Len(keep_entries)
      BY LenProperties DEF KeepInv, Audited
    <3> QED  BY <3>1 DEF KeepInv, Audited, Request, Pending, Keep!Idle
  <2>2. keep_still \subseteq Cameras
    BY LiveIsFinite DEF KeepInv
  <2>3. keep_answer.step \in {"idle", "half", "whole", "buckets", "totals", "summary"}
    BY DEF KeepInv, Answered
  <2> QED  BY <2>1, <2>2, <2>3 DEF Keep!TypeOK, KeepInv, Cameras, Stand
<1> QED  BY <1>1, <1>2, <1>3, SummaryAddsUp

(* The requests a step makes less urgent are those of a new declaration.   *)
Relieved ==
    \A r \in keep_requests :
        keep_camera[r.camera].days = keep_camera'[r.camera].days => Keep!Rank[Keep!Now(r)'] <= Keep!Rank[Keep!Now(r)]

LEMMA NoneRelieved ==
    ASSUME KeepInv, KeepInv', keep_clock' >= keep_clock
    PROVE  Relieved
<1> SUFFICES ASSUME NEW r \in keep_requests, keep_camera[r.camera].days = keep_camera'[r.camera].days
             PROVE  Keep!Rank[Keep!Now(r)'] <= Keep!Rank[Keep!Now(r)]
  BY DEF Relieved
<1>1. r.camera \in Cameras /\ r.start \in Nat /\ keep_clock \in Nat /\ keep_clock' \in Nat
  <2>1. r \in Request
    BY DEF KeepInv, Audited
  <2>2. keep_clock \in 0..Hours /\ keep_clock' \in 0..Hours /\ Hours \in Nat
    BY KeepFacts DEF KeepInv
  <2> QED  BY <2>1, <2>2 DEF Request
<1>2. keep_camera[r.camera].days \in Keep!Period
  BY <1>1 DEF KeepInv, Stand
<1>3. /\ Keep!Now(r) = Keep!State(r.start, keep_camera[r.camera].days, keep_clock)
      /\ Keep!Now(r)' = Keep!State(r.start, keep_camera[r.camera].days, keep_clock')
  BY DEF Keep!Now, Keep!State, Keep!Remaining, Keep!Expiry
<1> QED  BY <1>1, <1>2, <1>3, StateSinks

(* Every preservation request is on record as it was made, every answer    *)
(* accounts for the cameras that stood still, the three statements of a    *)
(* summary agree if no camera changed, and only a declaration makes a      *)
(* request less urgent.                                                    *)
THEOREM RequestsHold == RecordsSpec => NothingIsUnaccounted
<1>1. RecordsInit => KeepInv
  <2> SUFFICES ASSUME RecordsInit PROVE KeepInv
    OBVIOUS
  <2>1. keep_camera \in Unasked /\ Keep!Init
    <3>1. Unasked # {}
      <4>1. [c \in DOMAIN Department |-> [days |-> NA, place |-> "near", deleted |-> FALSE]] \in Unasked
        BY DEF Unasked, Keep!Where
      <4> QED  BY <4>1
    <3> QED  BY <3>1 DEF RecordsInit
  <2> QED  BY <2>1, KeepStart
<1>2. KeepInv /\ [RecordsNext]_recordsVars => KeepInv' /\ [Relieved]_(Keep!vars)
  <2> SUFFICES ASSUME KeepInv, [RecordsNext]_recordsVars PROVE KeepInv' /\ Relieved
    OBVIOUS
  <2>1. [Keep!Next]_keepVars
    BY DEF RecordsNext, recordsVars
  <2>2. KeepInv' /\ keep_clock' >= keep_clock
    BY <2>1, KeepStep
  <2> QED  BY <2>2, NoneRelieved
<1>3. KeepInv => Keep!TypeOK /\ Keep!EveryRequestIsAudited /\ Keep!AnswerAccountsForCameras /\ Keep!SummaryAgrees
  BY KeepHolds
<1>4. [Relieved]_(Keep!vars)
      <=> [\A r \in keep_requests :
             keep_camera[r.camera].days = keep_camera'[r.camera].days =>
                Keep!Rank[Keep!Now(r)'] <= Keep!Rank[Keep!Now(r)]]_(Keep!vars)
  BY DEF Relieved
<1> QED
  BY <1>1, <1>2, <1>3, <1>4, PTL
     DEF RecordsSpec, NothingIsUnaccounted, Keep!NothingIsUnaccounted, Keep!OnlyADeclarationRelieves
=============================================================================
