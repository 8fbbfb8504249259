---------------------------- MODULE RegistryScreen ----------------------------
(***************************************************************************)
(* The camera registry screen (web/registry) over the list, detail and     *)
(* edit routes of the registry API: filters and the viewport box, the      *)
(* paged load and its cap, the drawer, the edit dialog, and the URL a      *)
(* reload restores the screen from.  Server actions of one browser tab     *)
(* are answered in the order they were called.                             *)
(***************************************************************************)
EXTENDS Integers, Sequences, FiniteSets, SequencesExt, FiniteSetsExt

CONSTANTS
    Ids,            \* cameras by onboarding order, those to be onboarded included
    Estates,        \* what the registry may hold at first
    Cells,          \* parts of the map
    Limit,          \* page size the screen asks for
    MaxMapFeatures, \* cap on what the map holds
    MaxActs,        \* what the officer does
    MaxChanges,     \* what others do to the registry
    NA

VARIABLES
    cameras,        \* the registry: id -> [cell, name, deleted], for those onboarded
    filters,        \* [name, bbox]; NA where there is none
    shown, capped,  \* the rows the screen holds
    viewport, timer,\* cells on the map, and the moveend debounce
    selected, detail, detailLoading,
    editing,        \* the row the edit dialog was opened on
    queue,          \* server actions not answered yet
    failed,         \* the last load was answered with an error
    acts, changes

screen == <<shown, capped, failed>>
drawer == <<selected, detail, detailLoading>>
map == <<viewport, timer>>
vars == <<cameras, filters, screen, map, drawer, editing, queue, acts, changes>>

Names == {"a", "b"}
Stands == [cell : Cells \cup {NA}, name : Names, deleted : BOOLEAN]

RegistryAssumption ==
    /\ Ids \subseteq Nat \ {0} /\ Cells # {} /\ Limit \in Nat \ {0}
    /\ Estates # {} /\ \A f \in Estates : f \in Seq(Stands) /\ DOMAIN f \subseteq Ids
    /\ {MaxMapFeatures, MaxActs, MaxChanges} \subseteq Nat
Rows == [id : Ids, cell : Cells \cup {NA}, name : Names]
Boxes == (SUBSET Cells) \ {{}}
NoFilter == [name |-> NA, bbox |-> NA]

TypeOK ==
    /\ DOMAIN cameras \subseteq Ids
    /\ filters \in [name : Names \cup {NA}, bbox : Boxes \cup {NA}]
    /\ shown \in Seq(Rows) /\ capped \in BOOLEAN /\ failed \in BOOLEAN
    /\ viewport \in Boxes /\ timer \in BOOLEAN
    /\ selected \in Ids \cup {NA} /\ detail \in Rows \cup {NA} /\ detailLoading \in BOOLEAN
    /\ acts \in 0..MaxActs /\ changes \in 0..MaxChanges

-----------------------------------------------------------------------------
(* The API: buildFilters and the keyset page of GET /cameras.              *)
Listed(id) == ~cameras[id].deleted
RowOf(id) == [id |-> id, cell |-> cameras[id].cell, name |-> cameras[id].name]

(* A camera without coordinates intersects no box.                         *)
Matches(id, f) ==
    /\ Listed(id)
    /\ f.name # NA => cameras[id].name = f.name
    /\ f.bbox # NA => cameras[id].cell \in f.bbox

After(id, cursor) == cursor = NA \/ id > cursor

(* ORDER BY onboarding order.                                              *)
Ascending(S) == [i \in 1..Cardinality(S) |-> CHOOSE id \in S : Cardinality({x \in S : x < id}) = i - 1]

Page(f, cursor) ==
    LET rest == Ascending({id \in DOMAIN cameras : Matches(id, f) /\ After(id, cursor)})
        page == SubSeq(rest, 1, IF Len(rest) < Limit THEN Len(rest) ELSE Limit)
    IN  [rows |-> [i \in DOMAIN page |-> RowOf(page[i])],
         next |-> IF Len(rest) > Limit THEN Last(page) ELSE NA]

-----------------------------------------------------------------------------
(* The server actions.                                                     *)
Loading(f, got, cursor) == [kind |-> "load", filters |-> f, got |-> got, cursor |-> cursor]
Load(f) == Loading(f, <<>>, NA)
LoadDetail(id) == [kind |-> "detail", id |-> id, live |-> TRUE]
SaveOf(row) == [kind |-> "save", row |-> row]

Acting == acts < MaxActs /\ acts' = acts + 1 /\ UNCHANGED <<cameras, changes>>

(* Mutant of SetFilters: a load under way is not asked for again. *)
SetFiltersOnce(f) ==
    filters' = f /\ queue' = IF \E i \in DOMAIN queue : queue[i].kind = "load" THEN queue ELSE Append(queue, Load(f))

(* A filter is changed or all are reset: the effect loads.                 *)
SetFilters(f) == filters' = f /\ queue' = Append(queue, Load(f))

PatchFilters(n) ==
    /\ Acting /\ n # filters.name
    /\ SetFilters([filters EXCEPT !.name = n])
    /\ UNCHANGED <<screen, map, drawer, editing>>

Reset ==
    /\ Acting /\ filters # NoFilter /\ SetFilters(NoFilter)
    /\ UNCHANGED <<screen, map, drawer, editing>>

(* Closing the import or the add dialog loads what may have been added.    *)
DialogClosed ==
    /\ Acting /\ editing = NA
    /\ queue' = Append(queue, Load(filters))
    /\ UNCHANGED <<filters, screen, map, drawer, editing>>

Pan(v) ==
    /\ Acting /\ v # viewport
    /\ viewport' = v /\ timer' = TRUE
    /\ UNCHANGED <<filters, screen, drawer, editing, queue>>

(* The debounce fires: only a capped screen asks for what is in view.      *)
OnViewportChange ==
    /\ timer /\ timer' = FALSE
    /\ IF capped THEN SetFilters([filters EXCEPT !.bbox = viewport]) ELSE UNCHANGED <<filters, queue>>
    /\ UNCHANGED <<cameras, screen, viewport, drawer, editing, acts, changes>>

(* The clean-up of the drawer's effect.                                    *)
Forgotten(q) == [i \in DOMAIN q |-> IF q[i].kind = "detail" THEN [q[i] EXCEPT !.live = FALSE] ELSE q[i]]

Select(id) ==
    /\ Acting /\ selected # id
    /\ selected' = id
    /\ IF id = NA
       THEN detail' = NA /\ queue' = Forgotten(queue) /\ UNCHANGED detailLoading
       ELSE /\ \E i \in DOMAIN shown : shown[i].id = id
            /\ detailLoading' = TRUE /\ queue' = Append(Forgotten(queue), LoadDetail(id))
            /\ UNCHANGED detail
    /\ UNCHANGED <<filters, screen, map, editing>>

OpenEdit(row) ==
    /\ Acting /\ editing = NA /\ row \in ToSet(shown)
    /\ editing' = row
    /\ UNCHANGED <<filters, screen, map, drawer, queue>>

(* The form posts every field of the row it was opened on, one changed.    *)
Submit(cell) ==
    /\ Acting /\ editing # NA /\ cell # editing.cell
    /\ queue' = Append(queue, SaveOf([editing EXCEPT !.cell = cell]))
    /\ UNCHANGED <<filters, screen, map, drawer, editing>>

CloseEdit ==
    /\ Acting /\ editing # NA /\ editing' = NA
    /\ UNCHANGED <<filters, screen, map, drawer, queue>>

-----------------------------------------------------------------------------
Head1(kind) == queue # <<>> /\ Head(queue).kind = kind
Unasked == UNCHANGED <<filters, map, acts, changes>>

(* One page of loadCameras: the walk ends at the last page or at the cap.  *)
PageAnswered ==
    /\ Head1("load")
    /\ LET q == Head(queue)
           page == Page(q.filters, q.cursor)
           got == q.got \o page.rows
           cap == page.next # NA /\ Len(got) >= MaxMapFeatures
       IN  IF page.next = NA \/ cap
           THEN queue' = Tail(queue) /\ shown' = got /\ capped' = cap /\ failed' = FALSE
           ELSE /\ queue' = [queue EXCEPT ![1] = Loading(q.filters, got, page.next)]
                /\ UNCHANGED screen
    /\ UNCHANGED <<cameras, drawer, editing>> /\ Unasked

LoadFailed ==
    /\ Head1("load") /\ queue' = Tail(queue) /\ failed' = TRUE
    /\ UNCHANGED <<cameras, shown, capped, drawer, editing>> /\ Unasked

DetailAnswered(ok) ==
    /\ Head1("detail") /\ queue' = Tail(queue)
    /\ IF Head(queue).live
       THEN /\ detailLoading' = FALSE
            /\ detail' = IF ok /\ Listed(Head(queue).id) THEN RowOf(Head(queue).id) ELSE NA
       ELSE UNCHANGED <<detail, detailLoading>>
    /\ UNCHANGED <<cameras, screen, selected, editing>> /\ Unasked

(* updateCamera and onSaved; a camera deleted meanwhile answers 404 and    *)
(* the dialog stays open.                                                  *)
SaveAnswered ==
    /\ Head1("save") /\ queue' = Tail(queue)
    /\ LET row == Head(queue).row
       IN  IF Listed(row.id)
           THEN /\ cameras' = [cameras EXCEPT ![row.id].cell = row.cell, ![row.id].name = row.name]
                /\ shown' = [i \in DOMAIN shown |-> IF shown[i].id = row.id THEN row ELSE shown[i]]
                /\ editing' = NA
           ELSE UNCHANGED <<cameras, shown, editing>>
    /\ UNCHANGED <<capped, failed, drawer>> /\ Unasked

-----------------------------------------------------------------------------
(* Other officers and the catalogue sync.                                  *)
Changing == changes < MaxChanges /\ changes' = changes + 1
            /\ UNCHANGED <<filters, screen, map, drawer, editing, queue, acts>>

Onboard(cell, name) ==
    /\ Changing
    /\ \E id \in Ids :
         /\ DOMAIN cameras = 1..(id - 1)
         /\ cameras' = [x \in 1..id |-> IF x = id THEN [cell |-> cell, name |-> name, deleted |-> FALSE]
                                        ELSE cameras[x]]

Delete(id) ==
    /\ Changing /\ Listed(id)
    /\ cameras' = [cameras EXCEPT ![id].deleted = TRUE]

(* A reload: the server reads the URL and does the first load; the map is  *)
(* fitted to the box of the URL, or to the whole state.                    *)
Whole(f) ==
    LET all == Ascending({id \in DOMAIN cameras : Matches(id, f)})
        cut == Limit * ((MaxMapFeatures + Limit - 1) \div Limit)
    IN  [rows |-> [i \in 1..(IF Len(all) > cut THEN cut ELSE Len(all)) |-> RowOf(all[i])],
         capped |-> Len(all) > cut]

Reload ==
    /\ Acting
    /\ shown' = Whole(filters).rows /\ capped' = Whole(filters).capped /\ failed' = FALSE
    /\ viewport' = (IF filters.bbox = NA THEN Cells ELSE filters.bbox)
    /\ timer' = FALSE /\ editing' = NA /\ detail' = NA
    /\ IF selected = NA THEN detailLoading' = FALSE /\ queue' = <<>>
       ELSE detailLoading' = TRUE /\ queue' = <<LoadDetail(selected)>>
    /\ UNCHANGED <<filters, selected>>

Init ==
    /\ cameras \in Estates
    /\ filters = NoFilter
    /\ shown = Whole(NoFilter).rows /\ capped = Whole(NoFilter).capped /\ failed = FALSE
    /\ viewport = Cells /\ timer = FALSE
    /\ selected = NA /\ detail = NA /\ detailLoading = FALSE
    /\ editing = NA /\ queue = <<>> /\ acts = 0 /\ changes = 0

Next ==
    \/ \E n \in Names \cup {NA} : PatchFilters(n)
    \/ Reset \/ DialogClosed \/ OnViewportChange \/ CloseEdit \/ Reload
    \/ \E v \in Boxes : Pan(v)
    \/ \E id \in Ids \cup {NA} : Select(id)
    \/ \E row \in ToSet(shown) : OpenEdit(row)
    \/ \E c \in Cells : Submit(c)
    \/ PageAnswered \/ LoadFailed \/ SaveAnswered
    \/ \E ok \in BOOLEAN : DetailAnswered(ok)
    \/ \E c \in Cells \cup {NA}, n \in Names : Onboard(c, n)
    \/ \E id \in DOMAIN cameras : Delete(id)

Spec == Init /\ [][Next]_vars

-----------------------------------------------------------------------------
(* While cameras are onboarded, edited and removed between the pages of a  *)
(* load, no camera is on the screen, or in a load under way, twice.        *)
EachListedOnce ==
    /\ IsInjective([i \in DOMAIN shown |-> shown[i].id])
    /\ \A i \in DOMAIN queue :
        queue[i].kind = "load" => IsInjective([j \in DOMAIN queue[i].got |-> queue[i].got[j].id])

(* The drawer, once it has stopped loading, shows the camera selected,     *)
(* whatever was selected, closed and selected again meanwhile.             *)
DrawerShowsSelected ==
    detail # NA /\ ~detailLoading => detail.id = selected

(* With nothing to wait for, the rows are those of the filters on screen,  *)
(* however many changes and loads were made meanwhile.                     *)
RowsAnswerFilters ==
    queue = <<>> /\ ~failed /\ filters.name # NA =>
        \A i \in DOMAIN shown : shown[i].name = filters.name

(* A settled screen shows what is asked of it: rows of its filters, each   *)
(* camera once, and in the drawer the one selected.                        *)
ScreenIsCurrent == TypeOK /\ RowsAnswerFilters /\ EachListedOnce /\ DrawerShowsSelected
=============================================================================
