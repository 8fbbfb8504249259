------------------------------ MODULE PdfPages ------------------------------
(***************************************************************************)
(* The documents the system prints: the HLD rendered from its markdown,    *)
(* the trace report, the report of what the government feeds gave, and the *)
(* gap analysis.                                                           *)
(* Each is laid out by one loop that goes down a page and breaks it when   *)
(* little room is left, and all are serialised by renderPdf, which numbers *)
(* the objects of the file before it writes them.                          *)
(*                                                                         *)
(* Lengths are the points of the code.  A source line of markdown is its   *)
(* class, whether it is indented, and "tall", the lines it fills once it   *)
(* is wrapped to the column; what it says is left out, and so is where on  *)
(* a line a word stands.                                                   *)
(***************************************************************************)
EXTENDS Integers, Sequences, FiniteSets, SequencesExt

CONSTANTS
    Top,        \* where the body of a page begins: PAGE.height - MARGIN
    Bottom,     \* BOTTOM of the markdown renderer
    Margin,     \* the bottom margin of the two reports
    Docs,       \* the markdown documents
    Pictures,   \* what the caller supplies: [src -> {"good", "corrupt"}] for each src it has
    Results,    \* the traces to be printed: how low the first page gets, and the rows
    Feeds,      \* the reports: cameras without reads, and a crop or none per read
    GapTop,     \* where the body of a page of the gap analysis begins
    GapMargin,  \* its margin
    Gaps,       \* gap analyses: lines of the headline, rows of two tables, slack of the estimate
    NA          \* no file yet

None == "none"

PdfPagesAssumption ==
    /\ Top \in Nat /\ Bottom \in Nat /\ Margin \in Nat
    /\ Bottom + 100 <= Top /\ Margin + 100 <= Top
    /\ GapTop \in Nat /\ GapMargin \in Nat /\ GapMargin + 300 <= GapTop
    /\ Gaps \subseteq [delta : Nat, worst : Nat, districts : Nat, spare : {0, 1}]
    /\ \A d \in Docs : \A i \in DOMAIN d : d[i].tall \in 1..4

VARIABLES
    paper,      \* the document under way: its kind and what it is made from
    todo,       \* the blocks, or rows, still to be drawn
    pages,      \* what each page shows, in the order it was drawn
    y,          \* where the next thing goes on the last page
    images,     \* the images handed to renderPdf
    file        \* the serialised document, or NA

vars == <<paper, todo, pages, y, images, file>>

-----------------------------------------------------------------------------
(* parseBlocks: a block is its kind and its items, and an item is the      *)
(* source lines that were joined into it.                                  *)

Rows == {"row", "divider"}
Lists == {"ul", "ol"}

OnNewItem(b, i) == [b EXCEPT !.items = Append(@, <<i>>)]
OnLastItem(b, i) == [b EXCEPT !.items[Len(b.items)] = Append(@, i)]
WithLast(blocks, b) == [blocks EXCEPT ![Len(blocks)] = b]

(* A line that no open block takes starts one of its own.                  *)
Opening(acc, l, i) ==
    LET start(kind, open) ==
            [blocks |-> Append(acc.blocks, [kind |-> kind, items |-> <<<<i>>>>]), open |-> open]
    IN  CASE l.is = "blank" -> [acc EXCEPT !.open = None]
          [] l.is = "fence" ->
                 [blocks |-> Append(acc.blocks, [kind |-> "code", items |-> <<>>]), open |-> "code"]
          [] l.is \in Rows -> start("table", "table")
          [] l.is \in Lists \union {"quote"} -> start(l.is, l.is)
          [] l.is = "text" /\ acc.open = "p" ->
                 [acc EXCEPT !.blocks = WithLast(@, OnLastItem(Last(@), i))]
          [] l.is = "text" /\ acc.open # "p" -> start("p", "p")
          [] OTHER -> start(l.is, None)

Taken(acc, l, i) ==
    LET put(b) == [acc EXCEPT !.blocks = WithLast(@, b)]
        last == Last(acc.blocks)
    IN  CASE acc.open = "code" /\ l.is = "fence" -> [acc EXCEPT !.open = None]
          [] acc.open = "code" /\ l.is # "fence" -> put(OnNewItem(last, i))
          [] acc.open = "table" /\ l.is \in Rows -> put(OnNewItem(last, i))
          [] acc.open = "quote" /\ l.is = "quote" -> put(OnLastItem(last, i))
          [] acc.open \in Lists /\ l.is = acc.open -> put(OnNewItem(last, i))
          [] acc.open \in Lists /\ l.is # acc.open /\ l.indented -> put(OnLastItem(last, i))
          [] OTHER -> Opening(acc, l, i)

parseBlocks(doc) ==
    FoldLeftDomain(LAMBDA acc, i : Taken(acc, doc[i], i), [blocks |-> <<>>, open |-> None], doc).blocks

-----------------------------------------------------------------------------
(* The page under way.  A sheet is the pages and the place on the last.    *)

Sheet == [pages |-> pages, y |-> y]
TopOf == IF paper.is = "gap" THEN GapTop ELSE Top
NewPage(s) == [pages |-> Append(s.pages, <<>>), y |-> TopOf]
Need(s, space) == IF s.y - space < Bottom THEN NewPage(s) ELSE s
Down(s, n) == [s EXCEPT !.y = @ - n]
At(what, i, at) == [is |-> what, of |-> i, y |-> at, pic |-> None]
Picture(i, at, name) == [At("image", i, at) EXCEPT !.pic = name]
OnPage(s, mark) == [s EXCEPT !.pages[Len(s.pages)] = Append(@, mark)]
Mark(s, what, i) == OnPage(s, At(what, i, s.y))

(* wrapRuns: the source line each drawn line comes from.                   *)
Wrapped(item) ==
    FlattenSeq([k \in DOMAIN item |-> [j \in 1..paper.doc[item[k]].tall |-> item[k]]])

(* Lines of text, each kept off the foot of the page by itself.            *)
Flow(s, lines, space, leading) ==
    FoldLeft(LAMBDA t, i : Down(Mark(Need(t, space), "line", i), leading), s, lines)

Laid(s) == pages' = s.pages /\ y' = s.y /\ todo' = Tail(todo) /\ UNCHANGED <<paper, images, file>>

Drawing(kinds) == paper.is = "markdown" /\ todo # <<>> /\ Head(todo).kind \in kinds

(* Headings: the room they ask for, and the space before, within, after.   *)
Heading ==
    [h1 |-> [need |-> 46, before |-> 10, leading |-> 24, after |-> 8],
     h2 |-> [need |-> 150, before |-> 24, leading |-> 20, after |-> 10],
     section |-> [need |-> 150, before |-> 24, leading |-> 20, after |-> 10],
     h3 |-> [need |-> 34, before |-> 8, leading |-> 16, after |-> 4],
     h4 |-> [need |-> 28, before |-> 6, leading |-> 14, after |-> 3]]

(* A numbered section starts a page unless it is at the top of one; the    *)
(* lines of a heading stay together whatever room they need.               *)
DrawHeading ==
    /\ Drawing(DOMAIN Heading)
    /\ LET b == Head(todo)
           h == Heading[b.kind]
           s == IF b.kind = "section" /\ y < Top - 4 THEN NewPage(Sheet) ELSE Need(Sheet, h.need)
           t == FoldLeft(LAMBDA u, i : Down(Mark(u, "line", i), h.leading),
                         Down(s, h.before), Wrapped(b.items[1]))
       IN  Laid(Down(t, h.after))

DrawText ==
    /\ Drawing({"p"} \union Lists)
    /\ LET b == Head(todo)
           item(s, lines) == Down(Flow(s, Wrapped(lines), 14, 13), IF b.kind = "p" THEN 0 ELSE 2)
       IN  Laid(Down(FoldLeft(item, Sheet, b.items), IF b.kind = "p" THEN 6 ELSE 5))

DrawQuote ==
    /\ Drawing({"quote"})
    /\ LET lines == Wrapped(Head(todo).items[1])
       IN  Laid(Down(Flow(Need(Sheet, Len(lines) * 13 + 8), lines, 14, 13), 7))

(* A line of code is not wrapped.                                          *)
DrawCode ==
    /\ Drawing({"code"})
    /\ LET lines == FlattenSeq(Head(todo).items)
           s == Down(Need(Sheet, Len(lines) * 11 + 12), 4)
       IN  Laid(Down(Flow(s, lines, 11, 11), 10))

DrawRule ==
    /\ Drawing({"hr"})
    /\ Laid(Down(Mark(Need(Sheet, 16), "line", Head(todo).items[1][1]), 14))

-----------------------------------------------------------------------------
(* A table: its first row is the header, a divider under it is not shown,  *)
(* and a table that a page can hold is not begun where it does not fit.    *)

Height(row) == 11 * paper.doc[row[1]].tall + 6
Header(b) == b.items[1]
Body(b) ==
    IF Len(b.items) > 1 /\ paper.doc[b.items[2][1]].is = "divider"
    THEN SubSeq(b.items, 3, Len(b.items)) ELSE Tail(b.items)

RowAs(s, what, row) ==
    Down(FoldLeft(LAMBDA t, i : Mark(t, what, i), s, Wrapped(row)), Height(row))

Room(s, b) ==
    LET height == FoldLeft(LAMBDA n, r : n + Height(r), Height(Header(b)), Body(b))
    IN  IF height > s.y - Bottom /\ height <= Top - Bottom THEN NewPage(s) ELSE s

(* The header is drawn again over the first row of a new page.             *)
BodyRow(s, header, row) ==
    LET t == Need(s, Height(row) + 4)
    IN  RowAs(IF t.y > Top - 2 THEN RowAs(t, "again", header) ELSE t, "row", row)

DrawTable ==
    /\ Drawing({"table"})
    /\ LET b == Head(todo)
           s == RowAs(Need(Room(Sheet, b), Height(Header(b)) + 4), "head", Header(b))
       IN  Laid(Down(FoldLeft(LAMBDA t, r : BodyRow(t, Header(b), r), s, Body(b)), 8))

-----------------------------------------------------------------------------
(* An image is as wide as the column unless it would be too high; one the  *)
(* caller does not have is named, one that is no JPEG leaves nothing.      *)

MaxH == Top - Bottom - 30
Fitted(l) == IF l.high > MaxH THEN MaxH ELSE l.high

Embed(s, i) ==
    LET l == paper.doc[i]
        t == Down(IF s.y - Fitted(l) < Bottom THEN NewPage(s) ELSE s, Fitted(l))
        u == Down(OnPage(t, Picture(i, t.y, l.src)), 6)
    IN  Down(IF l.alt THEN Down(Mark(Need(u, 14), "caption", i), 14) ELSE u, 8)

DrawImage ==
    /\ Drawing({"image"})
    /\ LET i == Head(todo).items[1][1]
           src == paper.doc[i].src
       IN  \/ /\ src \notin DOMAIN Pictures
              /\ Laid(Down(Mark(Need(Sheet, 16), "line", i), 16))
           \/ /\ src \in DOMAIN Pictures /\ Pictures[src] = "corrupt"
              /\ Laid(Sheet)
           \/ /\ src \in DOMAIN Pictures /\ Pictures[src] = "good"
              /\ Laid(Embed(Sheet, i))

-----------------------------------------------------------------------------
(* The two reports: a table whose rows are drawn until the floor.          *)

Form ==
    [trace   |-> [floor |-> Margin + 40, head |-> 32, row |-> 14],
     missing |-> [floor |-> Margin + 40, head |-> 0, row |-> 13],
     read    |-> [floor |-> Margin + 50, head |-> 44, row |-> 46]]

(* A row, on a new page under the header of its table if there is no room. *)
Listed(s, form, what, i) ==
    LET fresh == NewPage(s)
        t == IF s.y >= form.floor THEN s
             ELSE IF form.head = 0 THEN fresh
             ELSE Down(Mark(fresh, "again", 0), form.head)
    IN  Down(Mark(t, what, i), form.row)

(* tracePdf: the summary takes the first page down to where it ends; with  *)
(* no sighting the reason stands there instead of a table.                 *)
DrawSighting ==
    /\ paper.is = "trace" /\ todo # <<>>
    /\ Laid(Listed(Sheet, Form.trace, "row", Head(todo)))

(* The cameras without reads are on a page of their own, and so are the    *)
(* reads, each with its crop if one was fetched.                           *)
DrawMissing ==
    /\ paper.is = "feed" /\ todo # <<>> /\ Head(todo).is = "missing"
    /\ Laid(Listed(Sheet, Form.missing, "line", Head(todo).of))

OpenReads ==
    /\ paper.is = "feed" /\ todo # <<>> /\ Head(todo).is = "open"
    /\ Laid(Down(Mark(Down(NewPage(Sheet), 20), "head", 0), Form.read.head))

DrawRead ==
    /\ paper.is = "feed" /\ todo # <<>> /\ Head(todo).is = "read"
    /\ LET r == Head(todo)
           shown == r.crop # None
           name == Len(images)
           s == Listed(Sheet, Form.read, "row", r.of)
       IN  /\ pages' = IF shown
                       THEN OnPage(s, Picture(r.of, s.y + Form.read.row, name)).pages
                       ELSE s.pages
           /\ images' = IF shown THEN Append(images, [name |-> name, good |-> r.crop = "good"])
                        ELSE images
           /\ y' = s.y
           /\ todo' = Tail(todo)
           /\ UNCHANGED <<paper, file>>

-----------------------------------------------------------------------------
(* gapAnalysisPdf: headings, paragraphs, tables and the plan of the estate *)
(* in a fixed order.  A paragraph asks for the room it is estimated to     *)
(* need, for it does not look at the foot of the page again.               *)

Text(n) == [is |-> "body", size |-> n]
Table(n) == [is |-> "table", size |-> n]
Title == [is |-> "heading", size |-> 1]
GapParts(g) ==
    <<[is |-> "title", size |-> 3], Title, Text(5), Text(4), Title, Text(g.delta), Table(3), Text(7),
      Title, Text(5), Table(3), Title, Text(4), Table(g.worst), Title, Table(g.districts), Text(3),
      [is |-> "plan", size |-> 7], Title, Text(2), Table(7)>>

GapPart(is) == paper.is = "gap" /\ todo # <<>> /\ paper.parts[Head(todo)].is = is
Ensure(s, n) == IF s.y - n > GapMargin + 24 THEN s ELSE NewPage(s)
Headed(s, k) == Down(Mark(Ensure(s, 30), "line", k), 16)
Lines(s, k, n, leading) ==
    FoldLeft(LAMBDA t, i : Down(Mark(t, "line", k), leading), s, [i \in 1..n |-> i])

GapHeading == GapPart("heading") /\ Laid(Headed(Sheet, Head(todo)))

GapBody ==
    /\ GapPart("body")
    /\ LET k == Head(todo)
           n == paper.parts[k].size
           s == Ensure(Sheet, (n + paper.gap.spare) * 11 + 6)
       IN  Laid(Down(Lines(s, k, n, 11), 6))

GapRow(s, k) ==
    LET t == IF s.y < GapMargin + 24 THEN Down(Mark(NewPage(s), "again", k), 14) ELSE s
    IN  Down(Mark(t, "row", k), 10)

GapTable ==
    /\ GapPart("table")
    /\ LET k == Head(todo)
           s == Down(Mark(Ensure(Sheet, 30), "head", k), 14)
       IN  Laid(Down(FoldLeft(LAMBDA t, i : GapRow(t, k), s, [i \in 1..paper.parts[k].size |-> i]), 6))

(* planView: a heading, a frame 220 high and five lines under it.          *)
GapPlan ==
    /\ GapPart("plan")
    /\ LET k == Head(todo)
           s == Down(Headed(Ensure(Sheet, 266), k), 220)
           t == Lines(Down(Mark(s, "frame", k), 9), k, 5, 9)
       IN  Laid([t EXCEPT !.y = s.y - 9 - 46])

-----------------------------------------------------------------------------
(* renderPdf: catalogue, page tree, four fonts, the images that are JPEGs, *)
(* a page and its content for each page, and the information record.       *)

Object(id, is, of, refs) == [id |-> id, is |-> is, of |-> of, refs |-> refs]
Ref(id, is, of) == [id |-> id, is |-> is, of |-> of]

Usable == SelectSeq(images, LAMBDA g : g.good)
(* As if an image that is no JPEG had an object too.                        *)
FirstPageObjOfAll == 7 + Len(images)

FirstPageObj == 7 + Len(Usable)

Used(page) == {page[k].pic : k \in {j \in DOMAIN page : page[j].is = "image"}}
DrawnOn(page) == {k \in DOMAIN Usable : Usable[k].name \in Used(page)}

PageObjects(i) ==
    LET id == FirstPageObj + (i - 1) * 2
    IN  <<Object(id, "page", i, {Ref(2, "pages", 0), Ref(id + 1, "content", i)}
                     \union {Ref(k + 2, "font", k) : k \in 1..4}
                     \union {Ref(6 + k, "image", Usable[k].name) : k \in DrawnOn(pages[i])}),
          Object(id + 1, "content", i, {})>>

renderPdf ==
    LET n == Len(pages)
    IN  <<Object(1, "catalog", 0, {Ref(2, "pages", 0)}),
          Object(2, "pages", 0, {Ref(FirstPageObj + (i - 1) * 2, "page", i) : i \in 1..n})>>
        \o [k \in 1..4 |-> Object(k + 2, "font", k, {})]
        \o [k \in DOMAIN Usable |-> Object(6 + k, "image", Usable[k].name, {})]
        \o FlattenSeq([i \in 1..n |-> PageObjects(i)])
        \o <<Object(FirstPageObj + n * 2, "info", 0, {})>>

(* The footers, drawn once the number of pages is known; the cover of a    *)
(* markdown document has none, and the report of the feeds has none.       *)
Footers ==
    [i \in DOMAIN pages |->
        CASE paper.is \in {"trace", "gap"} -> <<i, Len(pages)>>
          [] paper.is = "markdown" /\ i > 1 -> <<i - 1, Len(pages) - 1>>
          [] OTHER -> <<>>]

Finish ==
    /\ paper.is # None /\ todo = <<>> /\ file = NA
    /\ file' = [footers |-> Footers, objects |-> renderPdf]
    /\ UNCHANGED <<paper, todo, pages, y, images>>

-----------------------------------------------------------------------------
Init ==
    /\ paper = [is |-> None]
    /\ todo = <<>>
    /\ pages = <<>>
    /\ y = Top
    /\ images = <<>>
    /\ file = NA

(* renderMarkdownPdf: the cover, then the first page of the body.          *)
BeginMarkdown ==
    /\ paper.is = None
    /\ \E d \in Docs :
          /\ paper' = [is |-> "markdown", doc |-> d]
          /\ todo' = parseBlocks(d)
    /\ pages' = <<<<>>, <<>>>>
    /\ y' = Top
    /\ images' = SetToSeq({[name |-> s, good |-> Pictures[s] = "good"] : s \in DOMAIN Pictures})
    /\ UNCHANGED file

BeginTrace ==
    /\ paper.is = None
    /\ \E r \in Results :
          /\ paper' = [is |-> "trace", rows |-> r.rows]
          /\ todo' = [k \in 1..r.rows |-> k]
          /\ pages' = <<<<At(IF r.rows = 0 THEN "line" ELSE "head", 0, r.y)>>>>
          /\ y' = r.y - 16
    /\ UNCHANGED <<images, file>>

(* An empty window is refused before anything is drawn.                    *)
BeginFeed ==
    /\ paper.is = None
    /\ \E f \in Feeds :
          /\ f.reads # <<>>
          /\ paper' = [is |-> "feed", feed |-> f]
          /\ todo' = [k \in 1..f.missing |-> [is |-> "missing", of |-> k]]
                     \o <<[is |-> "open"]>>
                     \o [k \in DOMAIN f.reads |-> [is |-> "read", of |-> k, crop |-> f.reads[k]]]
    /\ pages' = <<<<>>, <<>>>>
    /\ y' = Top - 80
    /\ UNCHANGED <<images, file>>

BeginGap ==
    /\ paper.is = None
    /\ \E g \in Gaps :
          /\ paper' = [is |-> "gap", gap |-> g, parts |-> GapParts(g)]
          /\ todo' = [k \in 1..(Len(GapParts(g)) - 1) |-> k + 1]
    /\ pages' = <<<<At("line", 1, GapTop), At("line", 1, GapTop - 16), At("line", 1, GapTop - 42)>>>>
    /\ y' = GapTop - 58
    /\ UNCHANGED <<images, file>>

Next ==
    \/ BeginMarkdown \/ BeginTrace \/ BeginFeed \/ BeginGap
    \/ DrawHeading \/ DrawText \/ DrawQuote \/ DrawCode \/ DrawRule \/ DrawTable \/ DrawImage
    \/ GapHeading \/ GapBody \/ GapTable \/ GapPlan
    \/ DrawSighting \/ DrawMissing \/ OpenReads \/ DrawRead
    \/ Finish

Spec == Init /\ [][Next]_vars

-----------------------------------------------------------------------------
(* What a reader of the source expects to find, said without the parser:   *)
(* a line between fences is shown as it is, and outside them only blank    *)
(* lines, the fences, a divider under a header and an image that is no     *)
(* JPEG are not shown.                                                     *)

Fences(doc, i) == {j \in 1..(i - 1) : doc[j].is = "fence"}
Fenced(doc, i) == Cardinality(Fences(doc, i)) % 2 = 1
InTable(doc, i) == i \in DOMAIN doc /\ doc[i].is \in Rows /\ ~Fenced(doc, i)
HeadOf(doc, i) ==
    CHOOSE h \in 1..i : (\A j \in h..i : InTable(doc, j)) /\ ~InTable(doc, h - 1)

Marks(doc, i) ==
    LET l == doc[i]
    IN  CASE l.is = "fence" -> 0
          [] l.is # "fence" /\ Fenced(doc, i) -> 1
          [] l.is = "blank" /\ ~Fenced(doc, i) -> 0
          [] l.is = "divider" /\ ~Fenced(doc, i) ->
                 IF i > 1 /\ InTable(doc, i - 1) /\ HeadOf(doc, i) = i - 1 THEN 0 ELSE l.tall
          [] l.is = "image" /\ ~Fenced(doc, i) ->
                 IF l.src \notin DOMAIN Pictures THEN 1
                 ELSE IF Pictures[l.src] = "corrupt" THEN 0
                 ELSE IF l.alt THEN 2 ELSE 1
          [] OTHER -> l.tall

Wanted ==
    IF paper.is = "markdown"
    THEN FlattenSeq([i \in DOMAIN paper.doc |-> [k \in 1..Marks(paper.doc, i) |-> i]])
    ELSE IF paper.is = "trace" THEN [k \in 1..paper.rows |-> k]
    ELSE IF paper.is = "gap"
    THEN FlattenSeq([k \in DOMAIN paper.parts |->
            [j \in 1..(paper.parts[k].size + IF paper.parts[k].is = "table" THEN 1 ELSE 0) |-> k]])
    ELSE [k \in 1..paper.feed.missing |-> k] \o [k \in DOMAIN paper.feed.reads |-> k]

(* What is on the pages: the furniture of a report, and the pictures of    *)
(* its rows, are not content of their own.                                 *)
Content(page) ==
    SelectSeq(page, LAMBDA m : m.is # "again" /\ m.of # 0 /\ (paper.is = "feed" => m.is # "image"))
Reading == FlattenSeq([i \in DOMAIN pages |-> LET c == Content(pages[i]) IN [k \in DOMAIN c |-> c[k].of]])

(* Every source line is on the pages as often as it has lines, in order.   *)
NothingVanishes == Reading = Wanted

(* Nothing is drawn over the footer.                                       *)
InTheBody ==
    \A i \in DOMAIN pages : \A k \in DOMAIN pages[i] :
        /\ pages[i][k].y <= TopOf
        /\ pages[i][k].y >= CASE paper.is = "markdown" -> Bottom
                               [] paper.is = "gap" -> GapMargin
                               [] OTHER -> Margin

(* Each row of a table stands under its header on its own page.            *)
RowsAreHeaded ==
    \A i \in DOMAIN pages : \A k \in DOMAIN pages[i] :
        pages[i][k].is = "row" =>
            \E j \in 1..(k - 1) :
                /\ pages[i][j].is \in {"head", "again"}
                /\ paper.is = "gap" => pages[i][j].of = pages[i][k].of
                /\ paper.is = "markdown" => pages[i][j].of = HeadOf(paper.doc, pages[i][k].of)

(* Every reference of the file leads to the object it means, and a page    *)
(* declares every image drawn on it that is a JPEG.                        *)
ReferencesResolve ==
    LET o == file.objects
    IN  /\ \A k \in DOMAIN o : o[k].id = k
        /\ \A k \in DOMAIN o : \A r \in o[k].refs :
              r.id \in DOMAIN o /\ o[r.id].is = r.is /\ o[r.id].of = r.of
        /\ \A i \in DOMAIN pages : \A g \in {images[k] : k \in DOMAIN images} :
              g.good /\ g.name \in Used(pages[i]) =>
                  \E k \in DOMAIN o : o[k].is = "page" /\ o[k].of = i
                                      /\ \E r \in o[k].refs : r.is = "image" /\ r.of = g.name

(* A printed document is whole: what its source says is on its pages once  *)
(* and in order, within the body, rows under their headers, page numbers   *)
(* that count the pages, and a file whose references resolve               *)
(* (renderMarkdownPdf, tracePdf, buildPdf, gapAnalysisPdf, renderPdf).     *)
DocumentIsWhole ==
    file # NA =>
        /\ NothingVanishes
        /\ InTheBody
        /\ RowsAreHeaded
        /\ \A i \in DOMAIN pages : file.footers[i] # <<>> =>
              file.footers[i][2] = Cardinality({j \in DOMAIN pages : file.footers[j] # <<>>})
        /\ ReferencesResolve
=============================================================================
