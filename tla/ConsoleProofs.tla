---------------------------- MODULE ConsoleProofs ----------------------------
(***************************************************************************)
(* What officers are shown can be trusted, for every value of the          *)
(* constants: the audit trail of an alert is a path of permitted moves     *)
(* that ends at its status and a dismissal is final; an answer on screen   *)
(* is on record, its journeys moved, its emptiness has the right reason;   *)
(* so is a trace, on screen, on the map and in a file; every connection of *)
(* the video wall has a tile or a pane that is looked at; the boxes over a *)
(* frame are those of one run, and all of them; the alert queue stays calm *)
(* under live updates; the camera registry's screen shows the answer to    *)
(* the filters on it, and no row or drawer of another camera.              *)
(***************************************************************************)
EXTENDS MCConsole, SetLemmas, SequenceTheorems

(* The lifecycle starts inside its invariant.                              *)
LEMMA InitInv == Init => IInv
BY OfficerAssumption
DEF Init, IInv, TypeOK, LockInv, TrailExplainsStatus, Status

(* Steps that leave the committed row alone leave the trail's story alone. *)
LEMMA RowFrame ==
    ASSUME TrailExplainsStatus, UNCHANGED row
    PROVE  TrailExplainsStatus'
BY DEF TrailExplainsStatus, row, CanTransition

(* A permitted move appended to the trail continues the path. *)
LEMMA MoveContinuesTrail ==
    ASSUME TypeOK, TrailExplainsStatus, NEW o \in Officer,
           CanTransition(status, to[o]),
           status' = to[o],
           trail' = Append(trail, [from |-> status, to |-> to[o], by |-> o])
    PROVE  TrailExplainsStatus' /\ trail' \in Seq(Entry)
<1> DEFINE move == [from |-> status, to |-> to[o], by |-> o]
           n == Len(trail)
<1>1. move \in Entry /\ trail \in Seq(Entry) /\ n \in Nat
  BY DEF TypeOK, Entry
<1> HIDE DEF move
<1>2. trail' \in Seq(Entry) /\ Len(trail') = n + 1 /\ trail'[n + 1] = move
      /\ \A i \in 1..n : trail'[i] = trail[i]
  BY <1>1 DEF move
<1>3. move.from = status /\ move.to = to[o]
  BY DEF move
<1>4. ASSUME NEW i \in 1..(n + 1)
      PROVE  /\ CanTransition(trail'[i].from, trail'[i].to)
             /\ trail'[i].from = IF i = 1 THEN "new" ELSE trail'[i - 1].to
  <2>1. CASE i = n + 1
    <3>1. CanTransition(trail'[i].from, trail'[i].to)
      BY <2>1, <1>2, <1>3
    <3>2. CASE n = 0
      <4>1. trail = <<>>
        BY <3>2, <1>1
      <4> QED
        BY <4>1, <3>1, <3>2, <2>1, <1>2, <1>3 DEF TrailExplainsStatus
    <3>3. CASE n # 0
      <4>1. trail # <<>> /\ i # 1 /\ i - 1 = n /\ n \in 1..n
        BY <3>3, <2>1, <1>1
      <4> QED
        BY <4>1, <3>1, <2>1, <1>2, <1>3 DEF TrailExplainsStatus
    <3> QED
      BY <3>2, <3>3
  <2>2. CASE i # n + 1
    <3>1. i \in 1..n /\ (i # 1 => i - 1 \in 1..n)
      BY <2>2, <1>1
    <3> QED
      BY <3>1, <1>2 DEF TrailExplainsStatus
  <2> QED
    BY <2>1, <2>2
<1>5. trail' # <<>>
  BY <1>1, <1>2
<1>6. status' = trail'[Len(trail')].to
  BY <1>1, <1>2, <1>3
<1> QED
  BY <1>2, <1>4, <1>5, <1>6 DEF TrailExplainsStatus, CanTransition

(* One step per action. *)
LEMMA StepInv == IInv /\ [Next]_vars => IInv'
<1> SUFFICES ASSUME IInv, [Next]_vars PROVE IInv'
  OBVIOUS
<1> USE DEF IInv
<1>1. ASSUME NEW o \in Officer, NEW t \in Status, Request(o, t) PROVE IInv'
  <2>1. TypeOK' /\ LockInv'
    BY <1>1, OfficerAssumption DEF Request, TypeOK, LockInv, row, CanTransition
  <2> QED
    BY <2>1, <1>1, RowFrame DEF Request
<1>2. ASSUME NEW o \in Officer, Lock(o) PROVE IInv'
  <2>1. TypeOK' /\ LockInv'
    BY <1>2, OfficerAssumption DEF Lock, TypeOK, LockInv, row, CanTransition
  <2> QED
    BY <2>1, <1>2, RowFrame DEF Lock
<1>3. ASSUME NEW o \in Officer, Check(o) PROVE IInv'
  <2>1. TypeOK' /\ LockInv'
    BY <1>3 DEF Check, TypeOK, LockInv, row, CanTransition
  <2> QED
    BY <2>1, <1>3, RowFrame DEF Check
<1>4. ASSUME NEW o \in Officer, Rollback(o) PROVE IInv'
  <2>1. TypeOK' /\ LockInv'
    BY <1>4, OfficerAssumption DEF Rollback, TypeOK, LockInv, row, CanTransition
  <2> QED
    BY <2>1, <1>4, RowFrame DEF Rollback
<1>5. ASSUME NEW o \in Officer, Commit(o) PROVE IInv'
  <2>1. lock = o /\ current[o] = status /\ CanTransition(status, to[o])
    BY <1>5 DEF Commit, LockInv
  <2>2. TrailExplainsStatus' /\ trail' \in Seq(Entry)
    BY <1>5, <2>1, MoveContinuesTrail DEF Commit
  <2>3. TypeOK'
    <3>1. to[o] # "new"
      BY <2>1 DEF CanTransition, Permitted, TypeOK, Status
    <3> QED
      BY <1>5, <2>2, <3>1 DEF Commit, TypeOK
  <2>4. \A q \in Officer : q # o => pc[q] \notin {"check", "write"}
    BY <2>1, OfficerAssumption DEF LockInv
  <2>5. LockInv'
    BY <1>5, <2>4 DEF Commit, TypeOK, LockInv, CanTransition
  <2> QED
    BY <2>2, <2>3, <2>5
<1>6. CASE UNCHANGED vars
  <2>1. TypeOK' /\ LockInv'
    BY <1>6 DEF vars, row, TypeOK, LockInv, CanTransition
  <2> QED
    BY <2>1, <1>6, RowFrame DEF vars
<1> QED
  BY <1>1, <1>2, <1>3, <1>4, <1>5, <1>6 DEF Next, Step

(* The strengthened invariant holds of every behaviour. *)
THEOREM Invariance == Spec => []IInv
BY InitInv, StepInv, PTL DEF Spec

(* The columns and the transactions keep their types. *)
THEOREM TypeCorrect == Spec => []TypeOK
<1>1. IInv => TypeOK
  BY DEF IInv
<1> QED
  BY <1>1, Invariance, PTL

(* transitionAlert's audit entries form an unbroken path of permitted      *)
(* moves from new to the status the row has, for any number of officers.   *)
THEOREM TrailIsAPath == Spec => []TrailExplainsStatus
<1>1. IInv => TrailExplainsStatus
  BY DEF IInv
<1> QED
  BY <1>1, Invariance, PTL

(* No request, however it was interleaved with the dismissal, changes a    *)
(* dismissed alert.                                                        *)
THEOREM DismissedForGood == Spec => DismissalIsFinal
<1>1. IInv /\ [Next]_vars => [status = "dismissed" => UNCHANGED row]_vars
  <2> SUFFICES ASSUME IInv, Next, status = "dismissed" PROVE UNCHANGED row
    OBVIOUS
  <2>1. \A o \in Officer : ~Commit(o)
    BY DEF IInv, LockInv, Commit, CanTransition, Permitted, TypeOK
  <2> QED
    BY <2>1 DEF Next, Step, Lock, Check, Rollback, Request
<1> QED
  BY <1>1, Invariance, PTL DEF Spec, DismissalIsFinal

-----------------------------------------------------------------------------
(* A request to the query routes, an entry of the log, a registration.      *)
Asking == [kind : {"compile", "run"}, text : 0..MaxTexts, filter : Query!Filter \cup {NA}]
Logged ==
    [action : {"compile", "run"}, text : 0..MaxTexts, filter : Query!Filter \cup {NA},
     rows : SUBSET (1..Len(Row))]
Plates == DOMAIN Similar \cup {Row[i].plate : i \in 1..Len(Row)}

(* Every row of an answer to a journey has its other sighting.             *)
Moved(filter, rows) ==
    filter.step # NA =>
        \A i \in rows : \E j \in Query!Stored :
            /\ Row[j].plate = Row[i].plate
            /\ Row[i].ts # Row[j].ts
            /\ Row[i].ts <= Row[j].ts + filter.step.within
            /\ Row[j].ts <= Row[i].ts + filter.step.within

(* The page, the log and the requests, whatever the server has found out.  *)
PageInv ==
    /\ query_landed \in 0..Len(Row) /\ query_estate \subseteq Camera
    /\ query_text \in 0..MaxTexts /\ query_purpose \in BOOLEAN
    /\ query_compiled \in Filters \cup {NA} /\ query_draft \in Query!Filter \cup {NA}
    /\ query_compiled = NA <=> query_draft = NA
    /\ query_audit \in Seq(Logged)
    /\ query_asks \in Seq(Asking)
    /\ \A k \in 1..Len(query_asks) : query_asks[k].kind = "run" => query_asks[k].filter # NA

(* What the executor has found out holds of the request it is about, and   *)
(* still holds after cameras are onboarded and sightings land.             *)
FoundInv ==
    /\ query_found \in [refused : BOOLEAN, plates : SUBSET Plates, unknown : SUBSET Camera,
                        rows : SUBSET Query!Stored,
                        at : {"start", "plates", "names", "rows"}]
    /\ query_found.at # "start" =>
          /\ query_asks # <<>> /\ Query!Ask.kind = "run"
          /\ query_found.refused <=>
                Query!Ask.filter.plate # NA /\ Query!Ask.filter.plate.pattern \in Unreadable
    /\ query_found.at \in {"names", "rows"} =>
          Query!Named(Query!Ask.filter) \ query_estate \subseteq query_found.unknown
    /\ query_found.at = "rows" => Moved(Query!Ask.filter, query_found.rows)

(* The answer on screen. *)
ResultInv ==
    query_result # NA =>
        /\ query_result \in [filter : Query!Filter, rows : SUBSET Query!Stored,
                             reason : Query!Reasons \cup {NA}]
        /\ query_result.reason = NA <=> query_result.rows # {}
        /\ Query!ShownIsRecorded
        /\ Moved(query_result.filter, query_result.rows)
        /\ query_result.rows = {} =>
              /\ query_result.reason = "no_rows" =>
                    Query!Named(query_result.filter) \subseteq query_estate
              /\ query_result.filter.plate # NA /\ query_result.filter.plate.pattern \in Unreadable
                    => query_result.reason = "plate_not_searchable"

QueryInv == PageInv /\ FoundInv /\ ResultInv

(* The query console starts inside its invariant.                          *)
LEMMA QueryInit == Query!Init => QueryInv
<1> SUFFICES ASSUME Query!Init PROVE QueryInv
  OBVIOUS
<1>1. PageInv
  <2>1. Len(Row) \in Nat /\ MaxTexts \in Nat /\ Estate \subseteq Camera
    BY QueryConstants DEF Query!QueryAssumption
  <2>2. /\ query_asks = <<>> /\ query_asks \in Seq(Asking) /\ Len(query_asks) = 0
        /\ query_audit \in Seq(Logged)
    BY DEF Query!Init
  <2>3. query_purpose \in BOOLEAN
    BY DEF Query!Init
  <2>4. \A k \in 1..Len(query_asks) : query_asks[k].kind = "run" => query_asks[k].filter # NA
    BY <2>2
  <2>5. /\ query_landed \in 0..Len(Row) /\ query_estate \subseteq Camera
        /\ query_text \in 0..MaxTexts
    BY <2>1 DEF Query!Init
  <2>6. query_compiled = NA /\ query_draft = NA
    BY DEF Query!Init
  <2> QED  BY <2>2, <2>3, <2>4, <2>5, <2>6 DEF PageInv
<1>2. FoundInv
  BY DEF Query!Init, Query!Nothing, FoundInv
<1>3. ResultInv
  BY DEF Query!Init, ResultInv
<1> QED  BY <1>1, <1>2, <1>3 DEF QueryInv

(* A filter less a chip is a filter. *)
LEMMA ChipLeavesFilter ==
    ASSUME NEW f \in Query!Filter, NEW chip \in Query!Chip
    PROVE  Query!RemoveChip(f, chip) \in Query!Filter
<1>1. CASE chip = "plate"
  BY <1>1 DEF Query!RemoveChip, Query!Filter
<1>2. CASE chip = "colours"
  BY <1>2 DEF Query!RemoveChip, Query!Filter
<1>3. CASE chip = "cams"
  BY <1>3 DEF Query!RemoveChip, Query!Filter
<1>4. CASE chip = "step"
  BY <1>4 DEF Query!RemoveChip, Query!Filter
<1> QED  BY <1>1, <1>2, <1>3, <1>4 DEF Query!Chip
(* Sightings that land and cameras that are onboarded take nothing away:   *)
(* what has been found out for a request stays true of it.                 *)
LEMMA FoundFrame ==
    ASSUME FoundInv, query_found' = query_found, query_asks # <<>> => Query!Ask' = Query!Ask,
           query_asks # <<>> => query_asks' # <<>>,
           Query!Stored \subseteq Query!Stored', query_estate \subseteq query_estate'
    PROVE  FoundInv'
<1>1. query_found' \in [refused : BOOLEAN, plates : SUBSET Plates, unknown : SUBSET Camera,
                        rows : SUBSET Query!Stored',
                        at : {"start", "plates", "names", "rows"}]
  <2>1. query_found.rows \in SUBSET Query!Stored'
    BY DEF FoundInv
  <2> HIDE DEF Plates
  <2> QED  BY <2>1 DEF FoundInv
<1>2. CASE query_found.at = "start"
  BY <1>1, <1>2 DEF FoundInv
<1>3. CASE query_found.at # "start"
  <2>1. query_asks # <<>> /\ query_asks' # <<>> /\ Query!Ask' = Query!Ask
    BY <1>3 DEF FoundInv
  <2>2. query_found'.refused <=>
           Query!Ask'.filter.plate # NA /\ Query!Ask'.filter.plate.pattern \in Unreadable
    BY <1>3, <2>1 DEF FoundInv
  <2>3. query_found'.at \in {"names", "rows"} =>
           Query!Named(Query!Ask'.filter) \ query_estate' \subseteq query_found'.unknown
    BY <2>1 DEF FoundInv
  <2>4. query_found'.at = "rows" => Moved(Query!Ask.filter, query_found.rows)
    BY DEF FoundInv
  <2>5. query_found'.at = "rows" => Moved(Query!Ask.filter, query_found.rows)'
    BY <2>1, <2>4 DEF Moved
  <2> QED  BY <1>1, <1>3, <2>1, <2>2, <2>3, <2>5 DEF FoundInv
<1> QED  BY <1>2, <1>3

(* The log only grows, so an answer that stays on screen stays on record.  *)
LEMMA ResultFrame ==
    ASSUME ResultInv, query_result' = query_result,
           query_audit \in Seq(Logged),
           query_audit' = query_audit \/ \E x \in Logged : query_audit' = Append(query_audit, x),
           Query!Stored \subseteq Query!Stored', query_estate \subseteq query_estate'
    PROVE  ResultInv'
<1> SUFFICES ASSUME query_result # NA PROVE ResultInv'
  BY DEF ResultInv
<1>1. \A k \in DOMAIN query_audit : k \in DOMAIN query_audit' /\ query_audit'[k] = query_audit[k]
  OBVIOUS
<1>2. Query!ShownIsRecorded'
  BY <1>1 DEF ResultInv, Query!ShownIsRecorded
<1>3. Moved(query_result.filter, query_result.rows)'
  BY DEF ResultInv, Moved
<1>4. query_result' \in [filter : Query!Filter, rows : SUBSET Query!Stored',
                         reason : Query!Reasons \cup {NA}]
  <2>1. query_result.rows \in SUBSET Query!Stored'
    BY DEF ResultInv
  <2> QED  BY <2>1 DEF ResultInv
<1>5. query_result.reason = NA <=> query_result.rows # {}
  BY DEF ResultInv
<1>6. query_result.rows = {} =>
         /\ query_result.reason = "no_rows" =>
               Query!Named(query_result.filter) \subseteq query_estate'
         /\ query_result.filter.plate # NA /\ query_result.filter.plate.pattern \in Unreadable
               => query_result.reason = "plate_not_searchable"
  BY DEF ResultInv
<1> QED  BY <1>2, <1>3, <1>4, <1>5, <1>6 DEF ResultInv
(* Requests wait behind the one under way. *)
LEMMA AppendKeepsAsk ==
    ASSUME query_asks \in Seq(Asking), NEW x \in Asking, x.kind = "run" => x.filter # NA,
           \A k \in 1..Len(query_asks) : query_asks[k].kind = "run" => query_asks[k].filter # NA,
           query_asks' = Append(query_asks, x)
    PROVE  /\ query_asks' \in Seq(Asking) /\ query_asks' # <<>>
           /\ query_asks # <<>> => Query!Ask' = Query!Ask
           /\ \A k \in 1..Len(query_asks') : query_asks'[k].kind = "run" => query_asks'[k].filter # NA
<1> DEFINE n == Len(query_asks)
<1> HIDE DEF Asking
<1>1. /\ query_asks' \in Seq(Asking) /\ query_asks' # <<>>
      /\ n \in Nat /\ Len(query_asks') = n + 1 /\ query_asks'[n + 1] = x
      /\ \A k \in 1..n : query_asks'[k] = query_asks[k]
  OBVIOUS
<1>2. query_asks # <<>> => Query!Ask' = Query!Ask
  <2>1. query_asks # <<>> => 1 \in 1..n
    OBVIOUS
  <2> QED  BY <1>1, <2>1 DEF Query!Ask
<1>3. ASSUME NEW k \in 1..Len(query_asks'), query_asks'[k].kind = "run"
      PROVE  query_asks'[k].filter # NA
  <2>1. CASE k \in 1..n  BY <1>1, <1>3, <2>1
  <2>2. CASE k = n + 1  BY <1>1, <1>3, <2>2
  <2> QED  BY <1>1, <1>3, <2>1, <2>2
<1> QED  BY <1>1, <1>2, <1>3

(* A request that has been answered leaves the ones behind it.             *)
LEMMA AnsweredKeepsAsks ==
    ASSUME PageInv, query_asks # <<>>, Query!Answered
    PROVE  /\ query_asks' \in Seq(Asking) /\ FoundInv'
           /\ \A k \in 1..Len(query_asks') : query_asks'[k].kind = "run" => query_asks'[k].filter # NA
<1> DEFINE n == Len(query_asks)
<1>1. query_asks' = Tail(query_asks) /\ query_found' = Query!Nothing
  BY DEF Query!Answered
<1>2. query_asks \in Seq(Asking) /\ n \in Nat /\ n # 0
  BY DEF PageInv
<1> HIDE DEF Asking
<1>3. /\ query_asks' \in Seq(Asking) /\ Len(query_asks') = n - 1
      /\ \A k \in 1..(n - 1) : query_asks'[k] = query_asks[k + 1]
  BY <1>1, <1>2
<1>4. ASSUME NEW k \in 1..Len(query_asks'), query_asks'[k].kind = "run"
      PROVE  query_asks'[k].filter # NA
  <2>1. k + 1 \in 1..n /\ query_asks'[k] = query_asks[k + 1]
    BY <1>2, <1>3
  <2> QED  BY <1>4, <2>1 DEF PageInv
<1>5. FoundInv'
  BY <1>1 DEF Query!Nothing, FoundInv
<1> QED  BY <1>3, <1>4, <1>5

(* The estate and the officer. *)
LEMMA WorldStep ==
    ASSUME QueryInv, Query!Land \/ Query!Onboard
    PROVE  QueryInv'
<1>1. PageInv /\ FoundInv /\ ResultInv
  BY DEF QueryInv
<1>2. /\ UNCHANGED <<query_text, query_purpose, query_compiled, query_draft, query_outcome>>
      /\ UNCHANGED <<query_result, query_asks, query_found, query_audit, query_asked>>
  BY DEF Query!Land, Query!Onboard, Query!console
<1>3. query_landed' \in 0..Len(Row) /\ query_landed <= query_landed'
  BY <1>1, QueryConstants DEF Query!QueryAssumption, Query!Land, Query!Onboard, PageInv
<1>4. query_estate' \subseteq Camera /\ query_estate \subseteq query_estate'
  BY <1>1 DEF Query!Land, Query!Onboard, PageInv
<1>5. Query!Stored \subseteq Query!Stored'
  BY <1>1, <1>3 DEF Query!Stored, PageInv
<1>6. PageInv'
  BY <1>1, <1>2, <1>3, <1>4 DEF PageInv
<1>7. FoundInv'
  BY <1>1, <1>2, <1>4, <1>5, FoundFrame DEF Query!Ask
<1>8. ResultInv'
  BY <1>1, <1>2, <1>4, <1>5, ResultFrame DEF PageInv
<1> QED  BY <1>6, <1>7, <1>8 DEF QueryInv

(* Typing touches neither what was found nor what is shown.                *)
LEMMA TypeStep ==
    ASSUME QueryInv, Query!Type \/ Query!StatePurpose \/ UNCHANGED queryVars
    PROVE  QueryInv'
<1>1. PageInv /\ FoundInv /\ ResultInv
  BY DEF QueryInv
<1>2. /\ UNCHANGED <<query_landed, query_estate, query_compiled, query_draft, query_outcome>>
      /\ UNCHANGED <<query_result, query_asks, query_found, query_audit, query_asked>>
  BY DEF Query!Type, Query!StatePurpose, queryVars
<1>3. query_text' \in 0..MaxTexts
  BY <1>1, QueryConstants
     DEF Query!QueryAssumption, Query!Type, Query!StatePurpose, queryVars, PageInv
<1>4. query_purpose' \in BOOLEAN
  BY <1>1 DEF Query!Type, Query!StatePurpose, queryVars, PageInv
<1>5. PageInv'
  BY <1>1, <1>2, <1>3, <1>4 DEF PageInv
<1>6. Query!Stored' = Query!Stored
  BY <1>2 DEF Query!Stored
<1>7. FoundInv'
  BY <1>1, <1>2, <1>6, FoundFrame DEF Query!Ask
<1>8. ResultInv'
  BY <1>1, <1>2, <1>6, ResultFrame DEF PageInv
<1> QED  BY <1>5, <1>7, <1>8 DEF QueryInv

(* A button adds a well-formed request behind the ones waiting.            *)
LEMMA AskStep ==
    ASSUME QueryInv, Query!AskToCompile \/ Query!AskToRun
    PROVE  QueryInv'
<1>1. PageInv /\ FoundInv /\ ResultInv
  BY DEF QueryInv
<1>2. UNCHANGED <<query_landed, query_estate, query_text, query_purpose, query_compiled,
                  query_draft, query_outcome, query_found, query_audit>>
  BY DEF Query!AskToCompile, Query!AskToRun, Query!console
<1>3. PICK x \in Asking : /\ query_asks' = Append(query_asks, x)
                          /\ x.kind = "run" => x.filter # NA
  <2>1. CASE Query!AskToCompile
    <3>1. Query!CompileRequest \in Asking /\ Query!CompileRequest.kind = "compile"
      BY <1>1 DEF Query!CompileRequest, Asking, PageInv
    <3> QED  BY <2>1, <3>1 DEF Query!AskToCompile
  <2>2. CASE Query!AskToRun
    <3>1. Query!RunRequest \in Asking /\ Query!RunRequest.filter = query_draft
      BY <1>1 DEF Query!RunRequest, Asking, PageInv
    <3> QED  BY <2>2, <3>1 DEF Query!AskToRun, Query!CanRun
  <2> QED  BY <2>1, <2>2
<1>4. query_result' = NA \/ query_result' = query_result
  BY DEF Query!AskToCompile, Query!AskToRun, Query!console
<1>5. /\ query_asks' \in Seq(Asking) /\ query_asks' # <<>>
      /\ query_asks # <<>> => Query!Ask' = Query!Ask
      /\ \A k \in 1..Len(query_asks') : query_asks'[k].kind = "run" => query_asks'[k].filter # NA
  BY <1>1, <1>3, AppendKeepsAsk DEF PageInv
<1>6. PageInv'
  BY <1>1, <1>2, <1>5 DEF PageInv
<1>7. Query!Stored' = Query!Stored
  BY <1>2 DEF Query!Stored
<1>8. FoundInv'
  BY <1>1, <1>2, <1>5, <1>7, FoundFrame
<1>9. ResultInv'
  <2>1. CASE query_result' = NA
    BY <2>1 DEF ResultInv
  <2>2. CASE query_result' = query_result
    BY <1>1, <1>2, <1>7, <2>2, ResultFrame DEF PageInv
  <2> QED  BY <1>4, <2>1, <2>2
<1> QED  BY <1>6, <1>8, <1>9 DEF QueryInv

(* Dropping a chip edits the draft only.                                   *)
LEMMA DropStep ==
    ASSUME QueryInv, Query!Drop
    PROVE  QueryInv'
<1>1. PageInv /\ FoundInv
  BY DEF QueryInv
<1>2. /\ UNCHANGED <<query_landed, query_estate, query_text, query_purpose, query_compiled>>
      /\ UNCHANGED <<query_asks, query_found, query_audit>>
      /\ query_result' = NA /\ query_draft # NA
  BY DEF Query!Drop
<1>3. query_draft' \in Query!Filter
  BY <1>1, <1>2, ChipLeavesFilter DEF Query!Drop, PageInv
<1>4. query_draft' # NA
  BY <1>3, QueryConstants DEF Query!QueryAssumption
<1>5. PageInv'
  BY <1>1, <1>2, <1>3, <1>4 DEF PageInv
<1>6. Query!Stored' = Query!Stored
  BY <1>2 DEF Query!Stored
<1>7. FoundInv'
  BY <1>1, <1>2, <1>6, FoundFrame DEF Query!Ask
<1>8. ResultInv'
  BY <1>2 DEF ResultInv
<1> QED  BY <1>5, <1>7, <1>8 DEF QueryInv
-----------------------------------------------------------------------------
(* The server's side. *)
LEMMA CompileStep ==
    ASSUME QueryInv, Query!Compile
    PROVE  QueryInv'
<1>1. PageInv /\ ResultInv
  BY DEF QueryInv
<1>2. query_asks # <<>> /\ Query!Answered
      /\ UNCHANGED <<query_landed, query_estate, query_text, query_purpose, query_result>>
  BY DEF Query!Compile
<1>3. PICK f \in Filters \cup {NA} :
         /\ query_audit' = Append(query_audit, Query!Entry(f, {}))
         /\ query_compiled' = f /\ query_draft' = f
  <2>1. \A said : Query!Finalise(said).filter \in Filters \cup {NA}
    BY DEF Query!Finalise
  <2>2. \A answer \in Query!NoAnswer : answer.filter \in Filters \cup {NA}
    BY DEF Query!NoAnswer
  <2>3. PICK answer \in {Query!Finalise(said) : said \in Query!Said} \union Query!NoAnswer :
           /\ query_audit' = Append(query_audit, Query!Entry(answer.filter, {}))
           /\ query_compiled' = answer.filter /\ query_draft' = answer.filter
    BY DEF Query!Compile
  <2>4. answer.filter \in Filters \cup {NA}
    BY <2>1, <2>2
  <2> QED  BY <2>3, <2>4
<1>4. Filters \subseteq Query!Filter
  BY QueryConstants DEF Query!QueryAssumption
<1>5. Query!Ask \in Asking
  BY <1>1, <1>2 DEF PageInv, Query!Ask
<1>6. Query!Entry(f, {}) \in Logged
  BY <1>4, <1>5 DEF Query!Entry, Asking, Logged
<1>7. /\ query_asks' \in Seq(Asking) /\ FoundInv'
      /\ \A k \in 1..Len(query_asks') : query_asks'[k].kind = "run" => query_asks'[k].filter # NA
  BY <1>1, <1>2, AnsweredKeepsAsks
<1>8. PageInv'
  BY <1>1, <1>2, <1>3, <1>4, <1>6, <1>7 DEF PageInv
<1>9. ResultInv'
  <2>1. Query!Stored' = Query!Stored
    BY <1>2 DEF Query!Stored
  <2> QED  BY <1>1, <1>2, <1>3, <1>6, <2>1, ResultFrame DEF PageInv
<1> QED  BY <1>7, <1>8, <1>9 DEF QueryInv

(* A request that fails leaves the answer on screen and the log as they    *)
(* are.                                                                    *)
LEMMA FailStep ==
    ASSUME QueryInv, Query!Fail
    PROVE  QueryInv'
<1>1. PageInv /\ ResultInv
  BY DEF QueryInv
<1>2. /\ query_asks # <<>> /\ Query!Answered
      /\ UNCHANGED <<query_landed, query_estate, query_text, query_purpose, query_compiled,
                     query_draft, query_result, query_audit>>
  BY DEF Query!Fail, Query!console
<1>3. /\ query_asks' \in Seq(Asking) /\ FoundInv'
      /\ \A k \in 1..Len(query_asks') : query_asks'[k].kind = "run" => query_asks'[k].filter # NA
  BY <1>1, <1>2, AnsweredKeepsAsks
<1>4. PageInv'
  BY <1>1, <1>2, <1>3 DEF PageInv
<1>5. ResultInv'
  <2>1. Query!Stored' = Query!Stored
    BY <1>2 DEF Query!Stored
  <2> QED  BY <1>1, <1>2, <2>1, ResultFrame DEF PageInv
<1> QED  BY <1>3, <1>4, <1>5 DEF QueryInv

(* Steps that only find something out leave page and answer alone.         *)
LEMMA FindingLeavesPage ==
    ASSUME QueryInv,
           UNCHANGED <<query_landed, query_estate, Query!console, query_asks, query_audit>>
    PROVE  PageInv' /\ ResultInv' /\ Query!Stored' = Query!Stored /\ Query!Ask' = Query!Ask
<1>1. PageInv /\ ResultInv
  BY DEF QueryInv
<1>2. UNCHANGED <<query_text, query_purpose, query_compiled, query_draft, query_result>>
  BY DEF Query!console
<1>3. PageInv'
  BY <1>1, <1>2 DEF PageInv
<1>4. Query!Stored' = Query!Stored /\ Query!Ask' = Query!Ask
  BY DEF Query!Stored, Query!Ask
<1>5. ResultInv'
  BY <1>1, <1>2, <1>4, ResultFrame DEF PageInv
<1> QED  BY <1>3, <1>4, <1>5

(* The request under way is for a filter. *)
LEMMA RunHasFilter ==
    ASSUME PageInv, query_asks # <<>>, Query!Ask.kind = "run"
    PROVE  Query!Ask.filter \in Query!Filter
<1>1. 1 \in 1..Len(query_asks) /\ query_asks[1] \in Asking
  BY DEF PageInv
<1>2. query_asks[1].filter # NA
  BY <1>1 DEF PageInv, Query!Ask
<1> QED  BY <1>1, <1>2 DEF Asking, Query!Ask

(* The matcher finds registrations.                                        *)
LEMMA ResolvedArePlates ==
    ASSUME PageInv, NEW f \in Query!Filter, f.plate # NA
    PROVE  Query!Resolved(f) \subseteq Plates
<1>1. f.plate.pattern \in DOMAIN Similar
  BY DEF Query!Filter
<1>2. Query!Stored \subseteq 1..Len(Row)
  BY QueryConstants DEF Query!QueryAssumption, Query!Stored, PageInv
<1> QED  BY <1>1, <1>2 DEF Query!Resolved, Plates

(* The executor resolves the registration of a filter, or refuses it.      *)
LEMMA ResolveStep ==
    ASSUME QueryInv, Query!ResolvePlates
    PROVE  QueryInv'
<1> DEFINE plate == Query!Ask.filter.plate
           refused == plate # NA /\ plate.pattern \in Unreadable
           plates == IF plate = NA \/ refused THEN {} ELSE Query!Resolved(Query!Ask.filter)
<1>1. PageInv /\ FoundInv
  BY DEF QueryInv
<1>2. /\ query_asks # <<>> /\ Query!Ask.kind = "run"
      /\ UNCHANGED <<query_landed, query_estate, Query!console, query_asks, query_audit>>
      /\ query_found' = [query_found EXCEPT !.at = "plates", !.refused = refused,
         !.plates = plates]
  BY DEF Query!ResolvePlates
<1>3. PageInv' /\ ResultInv' /\ Query!Stored' = Query!Stored /\ Query!Ask' = Query!Ask
  BY <1>2, FindingLeavesPage
<1>4. Query!Ask.filter \in Query!Filter
  BY <1>1, <1>2, RunHasFilter
<1>5. plates \in SUBSET Plates
  BY <1>1, <1>4, ResolvedArePlates
<1>6. refused \in BOOLEAN
  OBVIOUS
<1>7. refused = (Query!Ask.filter.plate # NA /\ Query!Ask.filter.plate.pattern \in Unreadable)
  OBVIOUS
<1> HIDE DEF plates, refused, plate, Plates
<1>8. /\ query_found' \in [refused : BOOLEAN, plates : SUBSET Plates, unknown : SUBSET Camera,
                           rows : SUBSET Query!Stored,
                           at : {"start", "plates", "names", "rows"}]
      /\ query_found'.at = "plates" /\ query_found'.refused = refused
  BY <1>1, <1>2, <1>5, <1>6 DEF FoundInv
<1>9. FoundInv'
  <2>1. query_asks' # <<>> /\ Query!Ask'.kind = "run"
    BY <1>2, <1>3
  <2>2. query_found'.refused <=>
           Query!Ask'.filter.plate # NA /\ Query!Ask'.filter.plate.pattern \in Unreadable
    BY <1>3, <1>7, <1>8
  <2> QED  BY <1>3, <1>8, <2>1, <2>2 DEF FoundInv
<1> QED  BY <1>3, <1>9 DEF QueryInv

(* It looks for the camera names nobody onboarded.                         *)
LEMMA NamesStep ==
    ASSUME QueryInv, Query!UnknownNames
    PROVE  QueryInv'
<1> DEFINE names == Query!Named(Query!Ask.filter) \ query_estate
<1>1. PageInv /\ FoundInv
  BY DEF QueryInv
<1>2. /\ query_asks # <<>> /\ query_found.at = "plates"
      /\ UNCHANGED <<query_landed, query_estate, Query!console, query_asks, query_audit>>
      /\ query_found' = [query_found EXCEPT !.at = "names", !.unknown = names]
  BY DEF Query!UnknownNames
<1>3. PageInv' /\ ResultInv' /\ Query!Stored' = Query!Stored /\ Query!Ask' = Query!Ask
  BY <1>2, FindingLeavesPage
<1>4. Query!Ask.kind = "run"
  BY <1>1, <1>2 DEF FoundInv
<1>5. Query!Ask.filter \in Query!Filter
  BY <1>1, <1>2, <1>4, RunHasFilter
<1>6. names \in SUBSET Camera
  BY <1>5 DEF Query!Filter, Query!Named
<1> HIDE DEF names, Plates
<1>7. /\ query_found' \in [refused : BOOLEAN, plates : SUBSET Plates, unknown : SUBSET Camera,
                           rows : SUBSET Query!Stored,
                           at : {"start", "plates", "names", "rows"}]
      /\ query_found'.at = "names" /\ query_found'.unknown = names
      /\ query_found'.refused = query_found.refused
  BY <1>1, <1>2, <1>6 DEF FoundInv
<1>8. query_asks' # <<>> /\ Query!Ask'.kind = "run"
  BY <1>2, <1>3, <1>4
<1>9. query_found'.refused <=>
         Query!Ask'.filter.plate # NA /\ Query!Ask'.filter.plate.pattern \in Unreadable
  BY <1>1, <1>2, <1>3, <1>7 DEF FoundInv
<1>10. Query!Named(Query!Ask'.filter) \ query_estate' \subseteq query_found'.unknown
  BY <1>2, <1>3, <1>7 DEF names
<1>11. FoundInv'
  BY <1>3, <1>7, <1>8, <1>9, <1>10 DEF FoundInv
<1> QED  BY <1>3, <1>11 DEF QueryInv
(* A hit of a journey has its other sighting, at another moment.            *)
LEMMA HitsMove ==
    ASSUME PageInv, NEW f \in Query!Filter, NEW plates
    PROVE  /\ Query!Limited(f, Query!Hits(f, plates)) \subseteq Query!Stored
           /\ Moved(f, Query!Limited(f, Query!Hits(f, plates)))
<1> DEFINE first == {i \in Query!Stored : Query!Where(f, plates, i)}
           pairs == {p \in first \X Query!Stored : Query!Follows(f.step, p[1], p[2])}
           hits == Query!Hits(f, plates)
<1>1. Query!Limited(f, hits) \subseteq hits
  BY DEF Query!Limited
<1>2. CASE f.step = NA
  <2>1. hits = first
    BY <1>2 DEF Query!Hits
  <2> QED  BY <1>1, <1>2, <2>1 DEF Moved
<1>3. CASE f.step # NA
  <2>1. hits = {p[1] : p \in pairs} \union {p[2] : p \in pairs}
    BY <1>3 DEF Query!Hits
  <2>2. f.step.within \in Nat
    BY <1>3 DEF Query!Filter
  <2>3. \A i \in Query!Stored : Row[i].ts \in Nat
    BY QueryConstants DEF Query!QueryAssumption, Query!Stored, PageInv
  <2> HIDE DEF hits
  <2>4. ASSUME NEW i \in hits
        PROVE  /\ i \in Query!Stored
               /\ \E j \in Query!Stored :
                     /\ Row[j].plate = Row[i].plate
                     /\ Row[i].ts # Row[j].ts
                     /\ Row[i].ts <= Row[j].ts + f.step.within
                     /\ Row[j].ts <= Row[i].ts + f.step.within
    <3>1. PICK p \in pairs : i = p[1] \/ i = p[2]
      BY <2>1
    <3>2. p[1] \in Query!Stored /\ p[2] \in Query!Stored
      BY <3>1
    <3>3. /\ Row[p[2]].plate = Row[p[1]].plate
          /\ Row[p[1]].ts < Row[p[2]].ts /\ Row[p[2]].ts <= Row[p[1]].ts + f.step.within
      BY <3>1 DEF Query!Follows
    <3>4. Row[p[1]].ts \in Nat /\ Row[p[2]].ts \in Nat
      BY <2>3, <3>2
    <3>5. Row[p[1]].ts # Row[p[2]].ts /\ Row[p[1]].ts <= Row[p[2]].ts + f.step.within
      BY <2>2, <3>3, <3>4
    <3>6. CASE i = p[1]  BY <3>2, <3>3, <3>5, <3>6
    <3>7. CASE i = p[2]  BY <3>2, <3>3, <3>5, <3>7
    <3> QED  BY <3>1, <3>6, <3>7
  <2> QED  BY <1>1, <2>4 DEF Moved, hits
<1> QED  BY <1>2, <1>3

(* It reads the rows; those of a journey have moved.                       *)
LEMMA ReadStep ==
    ASSUME QueryInv, Query!ReadRows
    PROVE  QueryInv'
<1> DEFINE rows == Query!Limited(Query!Ask.filter, Query!Hits(Query!Ask.filter,
   query_found.plates))
<1>1. PageInv /\ FoundInv
  BY DEF QueryInv
<1>2. /\ query_asks # <<>> /\ query_found.at = "names"
      /\ UNCHANGED <<query_landed, query_estate, Query!console, query_asks, query_audit>>
      /\ query_found' = [query_found EXCEPT !.at = "rows", !.rows = rows]
  BY DEF Query!ReadRows
<1>3. PageInv' /\ ResultInv' /\ Query!Stored' = Query!Stored /\ Query!Ask' = Query!Ask
  BY <1>2, FindingLeavesPage
<1>4. Query!Ask.kind = "run"
  BY <1>1, <1>2 DEF FoundInv
<1>5. Query!Ask.filter \in Query!Filter
  BY <1>1, <1>2, <1>4, RunHasFilter
<1>6. rows \in SUBSET Query!Stored /\ Moved(Query!Ask.filter, rows)
  BY <1>1, <1>5, HitsMove
<1> HIDE DEF rows, Plates
<1>7. /\ query_found' \in [refused : BOOLEAN, plates : SUBSET Plates, unknown : SUBSET Camera,
                           rows : SUBSET Query!Stored,
                           at : {"start", "plates", "names", "rows"}]
      /\ query_found'.at = "rows" /\ query_found'.unknown = query_found.unknown
      /\ query_found'.refused = query_found.refused /\ query_found'.rows = rows
  BY <1>1, <1>2, <1>6 DEF FoundInv
<1>8. query_asks' # <<>> /\ Query!Ask'.kind = "run"
  BY <1>2, <1>3, <1>4
<1>9. query_found'.refused <=>
         Query!Ask'.filter.plate # NA /\ Query!Ask'.filter.plate.pattern \in Unreadable
  BY <1>1, <1>2, <1>3, <1>7 DEF FoundInv
<1>10. Query!Named(Query!Ask'.filter) \ query_estate' \subseteq query_found'.unknown
  BY <1>1, <1>2, <1>3, <1>7 DEF FoundInv
<1>11. Moved(Query!Ask.filter, query_found.rows)'
  BY <1>3, <1>6, <1>7 DEF Moved
<1>12. FoundInv'
  BY <1>3, <1>7, <1>8, <1>9, <1>10, <1>11 DEF FoundInv
<1> QED  BY <1>3, <1>12 DEF QueryInv

(* Why nothing was found, from what was found out. *)
LEMMA ReasonIsRight ==
    ASSUME NEW f \in Query!Filter, NEW found, found.refused \in BOOLEAN,
           found.refused <=> f.plate # NA /\ f.plate.pattern \in Unreadable
    PROVE  /\ Query!EmptyReason(f, found) \in Query!Reasons
           /\ Query!EmptyReason(f, found) = "no_rows" => found.unknown = {}
           /\ f.plate # NA /\ f.plate.pattern \in Unreadable
                 => Query!EmptyReason(f, found) = "plate_not_searchable"
<1>1. CASE found.refused
  BY <1>1 DEF Query!EmptyReason, Query!Reasons
<1>2. CASE ~ found.refused /\ f.plate # NA /\ found.plates = {}
  BY <1>2 DEF Query!EmptyReason, Query!Reasons
<1>3. CASE ~ found.refused /\ (f.plate # NA => found.plates # {}) /\ found.unknown # {}
  BY <1>3 DEF Query!EmptyReason, Query!Reasons
<1>4. CASE ~ found.refused /\ (f.plate # NA => found.plates # {}) /\ found.unknown = {}
  BY <1>4 DEF Query!EmptyReason, Query!Reasons
<1> QED  BY <1>1, <1>2, <1>3, <1>4

(* The entry is written before the answer is released, so what is shown    *)
(* is on record.                                                           *)
LEMMA ReleaseStep ==
    ASSUME QueryInv, Query!Release
    PROVE  QueryInv'
<1> DEFINE f == Query!Ask.filter
           logged == Query!Entry(f, query_found.rows)
           n == Len(query_audit)
<1>1. PageInv /\ FoundInv
  BY DEF QueryInv
<1>2. /\ query_asks # <<>> /\ query_found.at = "rows" /\ Query!Answered
      /\ query_audit' = Append(query_audit, logged)
      /\ query_result' = Query!Answer
      /\ UNCHANGED <<query_landed, query_estate, query_text, query_purpose, query_compiled,
                     query_draft>>
  BY DEF Query!Release
<1>3. Query!Ask.kind = "run"
  BY <1>1, <1>2 DEF FoundInv
<1>4. f \in Query!Filter
  BY <1>1, <1>2, <1>3, RunHasFilter
<1>5. Query!Stored \subseteq 1..Len(Row) /\ Query!Stored' = Query!Stored
  BY <1>1, <1>2, QueryConstants DEF Query!QueryAssumption, Query!Stored, PageInv
<1>6. query_found.rows \subseteq Query!Stored /\ query_found.refused \in BOOLEAN
  BY <1>1 DEF FoundInv
<1>7. logged \in Logged /\ logged.action = "run" /\ logged.filter = f
      /\ logged.rows = query_found.rows
  <2>1. Query!Ask.text \in 0..MaxTexts
    <3>1. query_asks[1] \in Asking
      BY <1>1, <1>2 DEF PageInv
    <3> QED  BY <3>1 DEF Query!Ask, Asking
  <2> QED  BY <1>3, <1>4, <1>5, <1>6, <2>1 DEF Query!Entry, Logged
<1>8. /\ query_asks' \in Seq(Asking) /\ FoundInv'
      /\ \A k \in 1..Len(query_asks') : query_asks'[k].kind = "run" => query_asks'[k].filter # NA
  BY <1>1, <1>2, AnsweredKeepsAsks
<1> HIDE DEF logged
<1>9. /\ query_audit' \in Seq(Logged)
      /\ n + 1 \in DOMAIN query_audit' /\ query_audit'[n + 1] = logged
  BY <1>1, <1>2, <1>7 DEF PageInv
<1>10. PageInv'
  BY <1>1, <1>2, <1>8, <1>9 DEF PageInv
<1>11. ResultInv'
  <2> DEFINE why == Query!EmptyReason(f, query_found)
  <2>1. /\ query_result'.filter = f /\ query_result'.rows = query_found.rows
        /\ query_result'.reason = IF query_found.rows # {} THEN NA ELSE why
        /\ query_result' = [filter |-> f, rows |-> query_found.rows,
                            reason |-> IF query_found.rows # {} THEN NA ELSE why]
    BY <1>2 DEF Query!Answer
  <2>2. /\ why \in Query!Reasons
        /\ why = "no_rows" => query_found.unknown = {}
        /\ f.plate # NA /\ f.plate.pattern \in Unreadable => why = "plate_not_searchable"
    BY <1>1, <1>2, <1>4, <1>6, ReasonIsRight DEF FoundInv
  <2>3. Query!Named(f) \ query_estate \subseteq query_found.unknown
    BY <1>1, <1>2 DEF FoundInv
  <2>4. NA \notin Query!Reasons
    BY QueryConstants DEF Query!QueryAssumption
  <2> HIDE DEF f, why
  <2>5. query_result' \in [filter : Query!Filter, rows : SUBSET Query!Stored',
                           reason : Query!Reasons \cup {NA}]
    BY <1>4, <1>5, <1>6, <2>1, <2>2
  <2>6. query_result'.reason = NA <=> query_result'.rows # {}
    BY <2>1, <2>2, <2>4
  <2>7. Query!ShownIsRecorded'
    BY <1>7, <1>9, <2>1 DEF Query!ShownIsRecorded
  <2>8. Moved(query_result.filter, query_result.rows)'
    <3>1. Moved(f, query_found.rows)
      BY <1>1, <1>2 DEF FoundInv, f
    <3> QED  BY <1>5, <2>1, <3>1 DEF Moved
  <2>9. query_result'.rows = {} =>
           /\ query_result'.reason = "no_rows" =>
                 Query!Named(query_result'.filter) \subseteq query_estate'
           /\ query_result'.filter.plate # NA /\ query_result'.filter.plate.pattern \in Unreadable
                 => query_result'.reason = "plate_not_searchable"
    BY <1>2, <2>1, <2>2, <2>3
  <2> QED  BY <2>5, <2>6, <2>7, <2>8, <2>9 DEF ResultInv
<1> QED  BY <1>8, <1>10, <1>11 DEF QueryInv

(* Whatever is typed, pressed and dropped while requests wait, whatever    *)
(* the language model answers, whichever sightings land and cameras are    *)
(* onboarded between two statements of the executor: an answer on screen   *)
(* is in the audit chain with its filter and its rows, its journeys are of *)
(* vehicles seen at two moments, and nothing found is explained rightly    *)
(* (routes/query.ts, query/execute.ts).                                    *)
THEOREM AnswersHold == ConsoleSpec => []AnswersAreDefensible
<1>1. ConsoleInit => QueryInv
  BY QueryInit DEF ConsoleInit
<1>2. QueryInv /\ [ConsoleNext]_consoleVars => QueryInv'
  <2> SUFFICES ASSUME QueryInv, [ConsoleNext]_consoleVars PROVE QueryInv'
    OBVIOUS
  <2>1. CASE UNCHANGED queryVars
    BY <2>1, TypeStep
  <2>2. CASE Query!Next
    BY <2>2, WorldStep, TypeStep, AskStep, DropStep, CompileStep, ResolveStep, NamesStep,
       ReadStep, ReleaseStep, FailStep DEF Query!Next
  <2> QED  BY <2>1, <2>2 DEF ConsoleNext, consoleVars
<1>3. QueryInv => AnswersAreDefensible
  <2> SUFFICES ASSUME QueryInv PROVE Query!AnswersAreDefensible
    BY DEF AnswersAreDefensible
  <2>1. PageInv /\ FoundInv /\ ResultInv
    BY DEF QueryInv
  <2>2. Query!TypeOK
    BY <2>1 DEF PageInv, FoundInv, ResultInv, Query!TypeOK
  <2>3. Query!ShownIsRecorded
    BY <2>1 DEF ResultInv, Query!ShownIsRecorded
  <2>4. Query!JourneysMove
    BY <2>1 DEF ResultInv, Moved, Query!JourneysMove
  <2>5. Query!EmptyIsExplained
    BY <2>1 DEF ResultInv, Query!Named, Query!EmptyIsExplained
  <2> QED  BY <2>2, <2>3, <2>4, <2>5 DEF Query!AnswersAreDefensible
<1> QED  BY <1>1, <1>2, <1>3, PTL DEF ConsoleSpec

-----------------------------------------------------------------------------
(* An answer, under way, on screen or in a file: its rows are sightings in *)
(* the order of time.                                                      *)
Result(t) ==
    /\ t \in Trace!Call /\ Len(t.rows) <= Len(Passings)
    /\ \A i, j \in 1..Len(t.rows) : i < j => t.rows[i] < t.rows[j]

(* One of the first n sightings is of the vehicle, and under the floor.    *)
UnderFloor(q, n) ==
    \E i \in 1..n : Passings[i].plate = q.plate /\ Passings[i].conf < q.floor

(* Its emptiness has a reason among the n sightings stored; the log has    *)
(* its entry.                                                              *)
Explained(t, n) ==
    /\ t.rows = <<>> <=> t.empty # NA
    /\ t.empty = "below_min_confidence" =>
         UnderFloor(t.query, n)
OnRecord(c, t, log) == Trace!Entry(c, t) \in log

(* A request has searched before it is logged and is logged before it is   *)
(* answered.                                                               *)
InOrder(c, x, n, log) ==
    x # NA =>
      /\ Result(x)
      /\ x.pc \in {"search", "hydrate"} => x.rows = <<>>
      /\ x.pc = "route" => Len(x.rows) >= 2
      /\ x.pc \in {"audit", "route", "answer"} => Explained(x, n)
      /\ x.pc \in {"route", "answer"} => OnRecord(c, x, log)

CallInv ==
    /\ trace_stored \in Early..Len(Passings)
    /\ trace_calls = [c \in Trace!Callers |-> trace_calls[c]]
    /\ \A c \in Trace!Callers : InOrder(c, trace_calls[c], trace_stored, trace_audit)

(* A map draws one answer or nothing: t, or the one it was mounted with.   *)
MapOf(m, t) ==
    /\ m = [loaded |-> m.loaded, mounted |-> m.mounted, drawn |-> m.drawn,
            rings |-> m.rings, halo |-> m.halo]
    /\ Result(m.mounted) /\ (m.drawn # NA => Result(m.drawn))
    /\ m.loaded => m.drawn \in {t, m.mounted}

(* What is on screen and what was downloaded. *)
ShownInv ==
    /\ trace_query \in Queries \union {NA} /\ trace_selected \in 1..Len(Passings) \union {NA}
    /\ trace_trace # NA =>
         /\ Result(trace_trace)
         /\ Explained(trace_trace, trace_stored) /\ OnRecord("screen", trace_trace, trace_audit)
         /\ trace_calls["screen"] = NA => trace_trace.query = trace_query

FileInv ==
    \A f \in trace_files :
      /\ Explained(f.of, trace_stored) /\ OnRecord(f.format, f.of, trace_audit)
      /\ Len(f.sheet) = Len(f.of.rows) + 1

MapInv ==
    /\ trace_map # NA => MapOf(trace_map, trace_trace)
    /\ trace_trace = NA => trace_map = NA

TraceInv == CallInv /\ ShownInv /\ FileInv /\ MapInv

(* The trace screen starts inside its invariant.                           *)
LEMMA TraceInit == Trace!Init => TraceInv
<1> SUFFICES ASSUME Trace!Init PROVE TraceInv
  OBVIOUS
<1>1. CallInv
  BY TraceConstants DEF Trace!TraceScreenAssumption, Trace!Init, CallInv, InOrder
<1> QED  BY <1>1, TraceConstants DEF Trace!TraceScreenAssumption, Trace!Init, TraceInv,
            ShownInv, FileInv, MapInv, MapOf

(* The cardinality the trace screen's module means is this one.            *)
LEMMA SameCardinality == \A S : Trace!Cardinality(S) = Cardinality(S)
  BY DEF Trace!Cardinality, Cardinality

(* Rows in the order of time: all of them, each once, ordered. *)
LEMMA OrderedRows ==
    ASSUME NEW n \in Nat, NEW S \in SUBSET (1..n)
    PROVE  /\ Trace!ByTime(S) \in Seq(S) /\ Len(Trace!ByTime(S)) <= n
           /\ \A i,
              j \in 1..Len(Trace!ByTime(S)) : i < j => Trace!ByTime(S)[i] < Trace!ByTime(S)[j]
           /\ (Trace!ByTime(S) = <<>>) <=> (S = {})
<1> DEFINE m == Cardinality(S)
           b == Trace!ByTime(S)
<1>1. IsFiniteSet(1..n) /\ Cardinality(1..n) = n
  <2>1. 1 \in Int /\ n \in Int /\ n = (n - 1) + 1
    OBVIOUS
  <2> QED  BY <2>1, FS_Interval
<1>2. IsFiniteSet(S) /\ m <= n
  BY <1>1, FS_Subset
<1>3. m \in Nat /\ ((m = 0) <=> (S = {}))
  BY <1>2, FS_CardinalityType, FS_EmptySet
<1>4. S \in SUBSET Nat
  OBVIOUS
<1>5. /\ \A i \in S : Rank(S, i) \in 0..(m - 1)
      /\ \A i, j \in S : i < j => Rank(S, i) < Rank(S, j)
      /\ \A k \in 0..(m - 1) : \E i \in S : Rank(S, i) = k
  BY <1>2, <1>4, Ranks
<1> DEFINE r(i) == Trace!Cardinality({j \in S : j < i})
<1>6. b = [k \in 1..m |-> CHOOSE i \in S : r(i) = k - 1]
  BY SameCardinality DEF Trace!ByTime
<1>11. \A i \in S : r(i) = Rank(S, i)
  BY SameCardinality DEF Rank
<1> HIDE DEF m, b, r
<1>7. ASSUME NEW k \in 1..m PROVE b[k] \in S /\ Rank(S, b[k]) = k - 1
  <2>1. k - 1 \in 0..(m - 1)
    BY <1>3
  <2>2. \E i \in S : r(i) = k - 1
    BY <1>5, <1>11, <2>1
  <2> QED  BY <1>6, <1>11, <2>2
<1>8. b \in Seq(S) /\ Len(b) = m
  BY <1>3, <1>6, <1>7
<1>9. ASSUME NEW i \in 1..m, NEW j \in 1..m, i < j PROVE b[i] < b[j]
  <2>1. b[i] \in S /\ b[j] \in S /\ Rank(S, b[i]) = i - 1 /\ Rank(S, b[j]) = j - 1
    BY <1>7
  <2>4. b[i] \in Nat /\ b[j] \in Nat
    BY <1>4, <2>1
  <2>5. ~ (j - 1 < i - 1) /\ i - 1 # j - 1
    BY <1>3, <1>9
  <2>2. CASE b[i] = b[j]  BY <2>1, <2>2, <2>5
  <2>3. CASE b[j] < b[i]
    <3>1. Rank(S, b[j]) < Rank(S, b[i])
      BY <1>5, <2>1, <2>3
    <3> QED  BY <2>1, <2>5, <3>1
  <2> QED  BY <2>2, <2>3, <2>4
<1>10. (b = <<>>) <=> (m = 0)
  BY <1>8
<1> QED  BY <1>2, <1>3, <1>8, <1>9, <1>10 DEF b

(* The columns of a file: a line per row and one for the cameras.          *)
LEMMA SheetLength ==
    ASSUME NEW c \in Trace!Formats, NEW t, Result(t)
    PROVE  Len(Trace!Sheet(c, t)) = Len(t.rows) + 1
<1> DEFINE line(i) == [seq |-> i, row |-> t.rows[i],
   tinted |-> Passings[t.rows[i]].link # "plate_exact"]
           lines == [i \in DOMAIN t.rows |-> line(i)]
           T == {line(i) : i \in DOMAIN t.rows} \union {t.coverage}
           n == Len(t.rows)
<1>1. n \in Nat /\ DOMAIN t.rows = 1..n
  BY DEF Result, Trace!Call
<1>2. \A i \in 1..n : line(i) \in T
  BY <1>1
<1>3. t.coverage \in T
  OBVIOUS
<1>4. lines = [i \in 1..n |-> line(i)]
  BY <1>1
<1> HIDE DEF line, T, n
<1>5. lines \in Seq(T) /\ Len(lines) = n
  BY <1>1, <1>2, <1>4
<1> HIDE DEF lines
<1>6. Len(Append(lines, t.coverage)) = n + 1 /\ <<t.coverage>> \in Seq(T)
      /\ Len(<<t.coverage>>) = 1
  BY <1>3, <1>5
<1>7. Len(<<t.coverage>> \o lines) = n + 1
  BY <1>1, <1>5, <1>6, ConcatProperties
<1> QED  BY <1>6, <1>7 DEF Trace!Sheet, lines, line, n

(* Sightings land and the log grows: what is explained and logged stays so. *)
LEMMA StaysInOrder ==
    ASSUME NEW c, NEW x, NEW n \in Nat, NEW m \in Nat, n <= m, NEW log, NEW longer,
           log \subseteq longer
    PROVE  /\ Explained(x, n) => Explained(x, m)
           /\ OnRecord(c, x, log) => OnRecord(c, x, longer)
           /\ InOrder(c, x, n, log) => InOrder(c, x, m, longer)
<1>1. Explained(x, n) => Explained(x, m)
  BY DEF Explained, UnderFloor
<1>2. OnRecord(c, x, log) => OnRecord(c, x, longer)
  BY DEF OnRecord
<1> QED  BY <1>1, <1>2 DEF InOrder

(* A request starts as an answer without rows.                             *)
LEMMA AskedIsResult ==
    ASSUME NEW q \in Queries
    PROVE  Trace!Asked(q) \in Trace!Call /\ Result(Trace!Asked(q))
<1>1. Trace!Asked(q) \in Trace!Call /\ Trace!Asked(q).rows = <<>>
  BY DEF Trace!Asked, Trace!Call
<1> QED  BY <1>1, TraceConstants DEF Trace!TraceScreenAssumption, Result

(* A step of one request. *)
LEMMA CallStep ==
    ASSUME CallInv, NEW c \in Trace!Callers, NEW x, Trace!Step(c, x),
           trace_stored' = trace_stored, trace_audit \subseteq trace_audit', InOrder(c, x,
              trace_stored, trace_audit')
    PROVE  /\ CallInv' /\ trace_calls'[c] = x
           /\ \A d \in Trace!Callers : d # c => trace_calls'[d] = trace_calls[d]
<1>1. /\ trace_calls' = [d \in Trace!Callers |-> trace_calls'[d]] /\ trace_calls'[c] = x
      /\ \A d \in Trace!Callers : d # c => trace_calls'[d] = trace_calls[d]
  BY DEF CallInv, Trace!Step
<1>2. trace_stored \in Nat
  BY TraceConstants DEF Trace!TraceScreenAssumption, CallInv
<1>3. ASSUME NEW d \in Trace!Callers PROVE InOrder(d, trace_calls'[d], trace_stored, trace_audit')
  <2>1. CASE d = c  BY <1>1, <2>1
  <2>2. CASE d # c
    <3>1. InOrder(d, trace_calls[d], trace_stored, trace_audit)
      BY DEF CallInv
    <3>2. InOrder(d, trace_calls[d], trace_stored, trace_audit')
      BY <1>2, <3>1, StaysInOrder
    <3> QED  BY <1>1, <2>2, <3>2
  <2> QED  BY <2>1, <2>2
<1> QED  BY <1>1, <1>3 DEF CallInv

(* What is on screen and in the files is left alone. *)
LEMMA ShownFrame ==
    ASSUME TraceInv, trace_stored' \in Nat, trace_stored <= trace_stored',
       trace_audit \subseteq trace_audit',
           UNCHANGED <<trace_query, trace_selected, trace_trace, trace_map, trace_files>>,
           trace_calls'["screen"] = NA => trace_trace = NA \/ trace_calls["screen"] = NA
    PROVE  ShownInv' /\ FileInv' /\ MapInv'
<1>1. trace_stored \in Nat
  BY TraceConstants DEF Trace!TraceScreenAssumption, TraceInv, CallInv
<1>2. ShownInv'
  <2>1. trace_trace # NA => Explained(trace_trace, trace_stored') /\ OnRecord("screen",
     trace_trace, trace_audit')
    BY <1>1, StaysInOrder DEF TraceInv, ShownInv
  <2> QED  BY <2>1 DEF TraceInv, ShownInv
<1>3. FileInv'
  <2>1. ASSUME NEW f \in trace_files
        PROVE  /\ Explained(f.of, trace_stored') /\ OnRecord(f.format, f.of, trace_audit')
               /\ Len(f.sheet) = Len(f.of.rows) + 1
    BY <1>1, StaysInOrder DEF TraceInv, FileInv
  <2> QED  BY <2>1 DEF FileInv
<1>4. MapInv'
  BY DEF TraceInv, MapInv
<1> QED  BY <1>2, <1>3, <1>4
(* A step of one request that leaves the screen and the files alone. *)
LEMMA RequestStep ==
    ASSUME TraceInv, NEW c \in Trace!Callers, NEW x \in Trace!Call, Trace!Step(c, x),
           UNCHANGED <<trace_stored, trace_query, trace_selected, trace_trace, trace_map,
                       trace_files>>,
           trace_audit \subseteq trace_audit', InOrder(c, x, trace_stored, trace_audit')
    PROVE  TraceInv'
<1>1. /\ CallInv' /\ trace_calls'[c] = x
      /\ \A d \in Trace!Callers : d # c => trace_calls'[d] = trace_calls[d]
  BY CallStep DEF TraceInv
<1>2. trace_stored \in Nat
  BY TraceConstants DEF Trace!TraceScreenAssumption, TraceInv, CallInv
<1>3. trace_calls'["screen"] = NA => trace_calls["screen"] = NA
  BY <1>1, TraceConstants DEF Trace!TraceScreenAssumption, Trace!Callers
<1>4. ShownInv' /\ FileInv' /\ MapInv'
  BY <1>2, <1>3, ShownFrame
<1> QED  BY <1>1, <1>4 DEF TraceInv

(* The matcher finds reads over the floor, or the reason that there are    *)
(* none.                                                                   *)
LEMMA SearchStep ==
    ASSUME TraceInv, NEW c \in Trace!Callers, Trace!Search(c)
    PROVE  TraceInv'
<1> DEFINE call == trace_calls[c]
           q == call.query
           clear == {i \in Trace!Reads(q) : Passings[i].conf >= q.floor}
           none == IF Trace!Reads(q) = {} THEN "no_matching_plate" ELSE "below_min_confidence"
           x == [call EXCEPT !.pc = IF clear = {} THEN "audit" ELSE "hydrate",
                             !.empty = IF clear = {} THEN none ELSE NA,
                             !.coverage = Trace!CameraCoverage]
<1>1. /\ call # NA /\ call.pc = "search" /\ Trace!Step(c, x)
      /\ UNCHANGED <<trace_stored, trace_query, trace_selected, trace_trace, trace_map,
                     trace_audit, trace_files>>
  BY DEF Trace!Search, Trace!At, Trace!Screen
<1>2. InOrder(c, call, trace_stored, trace_audit)
  BY DEF TraceInv, CallInv
<1>3. Result(call) /\ call.rows = <<>>
  BY <1>1, <1>2 DEF InOrder
<1>4. none = "below_min_confidence" /\ clear = {} =>
         UnderFloor(q, trace_stored)
  <2> SUFFICES ASSUME Trace!Reads(q) # {}, clear = {}
               PROVE  UnderFloor(q, trace_stored)
    OBVIOUS
  <2>1. PICK i \in Trace!Reads(q) : TRUE
    OBVIOUS
  <2>2. i \in 1..trace_stored /\ Passings[i].plate = q.plate
    BY <2>1 DEF Trace!Reads
  <2>3. Passings[i].conf \in Int /\ q.floor \in Int
    BY <1>3, <2>2, TraceConstants DEF Trace!TraceScreenAssumption, TraceInv, CallInv, Result,
       Trace!Call
  <2>4. ~ (Passings[i].conf >= q.floor)
    BY <2>1
  <2>5. Passings[i].conf < q.floor
    BY <2>3, <2>4
  <2> QED  BY <2>2, <2>5 DEF UnderFloor
<1>5. /\ none # NA /\ none \in Trace!Causes
      /\ Trace!CameraCoverage \in [analysed : SUBSET DOMAIN Placement,
                                  not : SUBSET DOMAIN Placement]
  BY TraceConstants DEF Trace!TraceScreenAssumption, Trace!Causes, Trace!CameraCoverage,
     Trace!Analysed
<1> HIDE DEF clear, none, q
<1>6. /\ x \in Trace!Call /\ x.rows = call.rows /\ x.query = call.query
      /\ x.pc = (IF clear = {} THEN "audit" ELSE "hydrate")
      /\ x.empty = (IF clear = {} THEN none ELSE NA)
  BY <1>3, <1>5 DEF Result, Trace!Call
<1> HIDE DEF x
<1>10. Result(x)
  BY <1>3, <1>6 DEF Result
<1>7. x.pc = "audit" => Explained(x, trace_stored)
  BY <1>3, <1>4, <1>5, <1>6 DEF Explained, q
<1>8. InOrder(c, x, trace_stored, trace_audit')
  BY <1>3, <1>6, <1>7, <1>10 DEF InOrder
<1> QED  BY <1>1, <1>6, <1>8, RequestStep

(* The rows of the window, in the order of time, or the reason that there  *)
(* are none.                                                               *)
LEMMA HydrateStep ==
    ASSUME TraceInv, NEW c \in Trace!Callers, Trace!Hydrate(c)
    PROVE  TraceInv'
<1> DEFINE call == trace_calls[c]
           q == call.query
           window == Trace!InWindow(q)
           rows == {i \in window : Passings[i].conf >= q.floor}
           dropped == Cardinality(window \ rows)
           why == IF dropped > 0 THEN "below_min_confidence" ELSE "no_sightings_in_window"
           x == [call EXCEPT !.pc = "audit", !.rows = Trace!ByTime(rows), !.dropped = dropped,
                             !.empty = IF rows = {} THEN why ELSE NA]
<1>1. /\ call # NA /\ call.pc = "hydrate" /\ Trace!Step(c, x)
      /\ UNCHANGED <<trace_stored, trace_query, trace_selected, trace_trace, trace_map,
                     trace_audit, trace_files>>
  BY SameCardinality DEF Trace!Hydrate, Trace!At, Trace!Screen
<1>2. Result(call)
  BY <1>1 DEF TraceInv, CallInv, InOrder
<1>3. trace_stored \in Nat /\ trace_stored <= Len(Passings) /\ Len(Passings) \in Nat
  BY TraceConstants DEF Trace!TraceScreenAssumption, TraceInv, CallInv
<1>4. window \in SUBSET (1..trace_stored) /\ rows \in SUBSET (1..trace_stored)
  BY DEF Trace!InWindow
<1>5. /\ Trace!ByTime(rows) \in Seq(rows) /\ Len(Trace!ByTime(rows)) <= Len(Passings)
      /\ \A i,
         j \in 1..Len(Trace!ByTime(rows)) : i < j => Trace!ByTime(rows)[i] < Trace!ByTime(rows)[j]
      /\ (Trace!ByTime(rows) = <<>>) <=> (rows = {})
  <2>1. rows \in SUBSET (1..Len(Passings))
    BY <1>3, <1>4
  <2> HIDE DEF rows
  <2> QED  BY <1>3, <2>1, OrderedRows
<1>6. IsFiniteSet(window \ rows) /\ dropped \in Nat
  <2>1. IsFiniteSet(1..trace_stored)
    <3>1. 1 \in Int /\ trace_stored \in Int
      BY <1>3
    <3> QED  BY <3>1, FS_Interval
  <2>2. window \ rows \subseteq 1..trace_stored
    BY <1>4
  <2>3. IsFiniteSet(window \ rows)
    BY <2>1, <2>2, FS_Subset
  <2> QED  BY <2>3, FS_CardinalityType
<1>7. dropped > 0 => UnderFloor(q, trace_stored)
  <2> SUFFICES ASSUME dropped > 0
               PROVE  UnderFloor(q, trace_stored)
    OBVIOUS
  <2>0. Cardinality({}) = 0
    BY FS_EmptySet
  <2>1. window \ rows # {}
    <3> HIDE DEF window, rows
    <3> QED  BY <2>0
  <2>2. PICK i \in window \ rows : TRUE
    BY <2>1
  <2>3. i \in 1..trace_stored /\ Passings[i].plate = q.plate /\ ~ (Passings[i].conf >= q.floor)
    BY <2>2 DEF Trace!InWindow
  <2>4. Passings[i].conf \in Int /\ q.floor \in Int
    BY <1>2, <1>3, <2>3, TraceConstants DEF Trace!TraceScreenAssumption, Result, Trace!Call
  <2>5. Passings[i].conf < q.floor
    BY <2>3, <2>4
  <2> QED  BY <2>3, <2>5 DEF UnderFloor
<1>8. why # NA /\ why \in Trace!Causes
  BY TraceConstants DEF Trace!TraceScreenAssumption, Trace!Causes
<1>9. Trace!ByTime(rows) \in Seq(1..Len(Passings))
  <2>1. rows \subseteq 1..Len(Passings)
    BY <1>3, <1>4
  <2> DEFINE b == Trace!ByTime(rows)
             T == 1..Len(Passings)
  <2>2. b \in Seq(rows)
    BY <1>5
  <2> HIDE DEF rows, b, T
  <2>3. Seq(rows) \subseteq Seq(T)
    BY <2>1, SeqMonotonic DEF T
  <2> QED  BY <2>2, <2>3 DEF b, T
<1> HIDE DEF rows, dropped, window, q
<1>10. /\ x \in Trace!Call /\ x.rows = Trace!ByTime(rows) /\ x.query = call.query
       /\ x.pc = "audit" /\ x.empty = (IF rows = {} THEN why ELSE NA)
  BY <1>2, <1>6, <1>8, <1>9 DEF Result, Trace!Call
<1> HIDE DEF x
<1>11. Result(x)
  BY <1>5, <1>10 DEF Result
<1>12. Explained(x, trace_stored)
  <2>1. (x.rows = <<>>) <=> (x.empty # NA)
    BY <1>5, <1>8, <1>10
  <2>2. x.empty = "below_min_confidence" => dropped > 0
    BY <1>8, <1>10, TraceConstants DEF Trace!TraceScreenAssumption, Trace!Causes
  <2> QED  BY <1>7, <1>10, <2>1, <2>2 DEF Explained, q
<1>13. InOrder(c, x, trace_stored, trace_audit')
  BY <1>10, <1>11, <1>12 DEF InOrder
<1> QED  BY <1>1, <1>10, <1>13, RequestStep

(* The entry is written with the rows that will be released.               *)
LEMMA AuditStep ==
    ASSUME TraceInv, NEW c \in Trace!Callers, Trace!WriteAudit(c)
    PROVE  TraceInv'
<1> DEFINE call == trace_calls[c]
           x == [call EXCEPT !.pc = Trace!Audited(c)]
<1>1. /\ call # NA /\ call.pc = "audit" /\ Trace!Step(c, x)
      /\ trace_audit' = trace_audit \union {Trace!Entry(c, call)}
      /\ UNCHANGED <<trace_stored, trace_query, trace_selected, trace_trace, trace_map,
                     trace_files>>
  BY DEF Trace!WriteAudit, Trace!At, Trace!Screen
<1>2. Result(call) /\ Explained(call, trace_stored)
  BY <1>1 DEF TraceInv, CallInv, InOrder
<1>3. Trace!Audited(c) \in {"route",
   "answer"} /\ (Trace!Audited(c) = "route" => Len(call.rows) >= 2)
  BY DEF Trace!Audited
<1>4. /\ x \in Trace!Call /\ x.rows = call.rows /\ x.query = call.query
      /\ x.pc = Trace!Audited(c) /\ x.empty = call.empty
  BY <1>2, <1>3 DEF Result, Trace!Call
<1> HIDE DEF x
<1>5. Result(x) /\ Explained(x, trace_stored)
  BY <1>2, <1>4 DEF Result, Explained
<1>6. Trace!Entry(c, x) = Trace!Entry(c, call)
  BY <1>4 DEF Trace!Entry
<1>7. OnRecord(c, x, trace_audit')
  BY <1>1, <1>6 DEF OnRecord
<1>8. InOrder(c, x, trace_stored, trace_audit')
  BY <1>3, <1>4, <1>5, <1>7 DEF InOrder
<1>9. trace_audit \subseteq trace_audit'
  BY <1>1
<1> QED  BY <1>1, <1>4, <1>8, <1>9, RequestStep

(* The route changes neither the rows nor what the entry says of them.     *)
LEMMA RouteStep ==
    ASSUME TraceInv, NEW c \in Trace!Callers, Trace!Reconstruct(c)
    PROVE  TraceInv'
<1> DEFINE call == trace_calls[c]
           rows == call.rows
           hops == 1..Len(rows) - 1
           segments(answered) == [i \in hops |-> Trace!Kind(rows[i], rows[i + 1], i \in answered)]
           x(answered) == [call EXCEPT !.pc = "answer", !.route = segments(answered)]
<1>1. PICK answered : Trace!Step(c, x(answered))
  BY DEF Trace!Reconstruct
<1>2. /\ call # NA /\ call.pc = "route"
      /\ UNCHANGED <<trace_stored, trace_query, trace_selected, trace_trace, trace_map,
                     trace_audit, trace_files>>
  BY DEF Trace!Reconstruct, Trace!At, Trace!Screen
<1>3. Result(call) /\ Explained(call, trace_stored) /\ OnRecord(c, call,
   trace_audit) /\ Len(rows) >= 2
  BY <1>2 DEF TraceInv, CallInv, InOrder
<1>4. segments(answered) \in Seq(Trace!Segments)
  <2>1. Len(rows) - 1 \in Nat
    BY <1>3 DEF Result, Trace!Call
  <2>2. \A i \in hops : Trace!Kind(rows[i], rows[i + 1], i \in answered) \in Trace!Segments
    BY DEF Trace!Kind, Trace!Segments
  <2> QED  BY <2>1, <2>2
<1> HIDE DEF segments
<1>5. /\ x(answered) \in Trace!Call /\ x(answered).rows = rows /\ x(answered).query = call.query
      /\ x(answered).pc = "answer" /\ x(answered).empty = call.empty
  BY <1>3, <1>4 DEF Result, Trace!Call
<1> HIDE DEF x
<1>6. Result(x(answered)) /\ Explained(x(answered), trace_stored)
  BY <1>3, <1>5 DEF Result, Explained
<1>7. OnRecord(c, x(answered), trace_audit)
  BY <1>3, <1>5 DEF OnRecord, Trace!Entry
<1>8. InOrder(c, x(answered), trace_stored, trace_audit')
  BY <1>2, <1>5, <1>6, <1>7 DEF InOrder
<1> QED  BY <1>1, <1>2, <1>5, <1>8, RequestStep

(* A download asks anew for the query of the address bar.                  *)
LEMMA ExportStep ==
    ASSUME TraceInv, NEW c \in Trace!Formats, Trace!Export(c)
    PROVE  TraceInv'
<1>1. /\ trace_query # NA /\ Trace!Step(c, Trace!Asked(trace_query)) /\ c \in Trace!Callers
      /\ UNCHANGED <<trace_stored, trace_query, trace_selected, trace_trace, trace_map,
                     trace_audit, trace_files>>
  BY DEF Trace!Export, Trace!Screen, Trace!Callers
<1>2. trace_query \in Queries
  BY <1>1 DEF TraceInv, ShownInv
<1>3. Trace!Asked(trace_query) \in Trace!Call /\ Result(Trace!Asked(trace_query))
  BY <1>2, AskedIsResult
<1>4. InOrder(c, Trace!Asked(trace_query), trace_stored, trace_audit')
  BY <1>3 DEF InOrder, Trace!Asked
<1> QED  BY <1>1, <1>3, <1>4, RequestStep

(* A sighting that lands takes nothing away from what was explained.       *)
LEMMA StoreStep ==
    ASSUME TraceInv, Trace!Store
    PROVE  TraceInv'
<1>1. /\ trace_stored \in Nat /\ trace_stored' \in Nat
      /\ trace_stored <= trace_stored' /\ trace_stored' \in Early..Len(Passings)
      /\ UNCHANGED <<trace_query, trace_selected, trace_trace, trace_map, trace_calls,
                     trace_audit, trace_files>>
  BY TraceConstants DEF Trace!TraceScreenAssumption, TraceInv, CallInv, Trace!Store, Trace!Screen
<1>2. CallInv'
  <2>1. \A c \in Trace!Callers : InOrder(c, trace_calls[c], trace_stored', trace_audit)
    BY <1>1, StaysInOrder DEF TraceInv, CallInv
  <2> QED  BY <1>1, <2>1 DEF TraceInv, CallInv
<1>3. ShownInv' /\ FileInv' /\ MapInv'
  BY <1>1, ShownFrame
<1> QED  BY <1>2, <1>3 DEF TraceInv

(* A map that has just been mounted draws nothing yet.                     *)
LEMMA Mounting ==
    ASSUME NEW t, Result(t) PROVE MapOf(Trace!Blank(t), t)
  BY DEF Trace!Blank, MapOf

(* A map that draws a new answer draws that one, or nothing before it has  *)
(* loaded.                                                                 *)
LEMMA Drawing ==
    ASSUME NEW m, NEW t, NEW u, MapOf(m, u), Result(t)
    PROVE  MapOf(Trace!Drawn(m, t), t)
<1>1. CASE m.loaded
  <2>1. Trace!Drawn(m, t) = [loaded |-> m.loaded, mounted |-> m.mounted, drawn |-> t,
                       rings |-> Trace!Rings(t), halo |-> m.halo]
    BY <1>1 DEF Trace!Drawn, MapOf
  <2> QED  BY <2>1 DEF MapOf
<1>2. CASE ~ m.loaded
  BY <1>2 DEF Trace!Drawn, MapOf
<1> QED  BY <1>1, <1>2

(* The halo of a selection changes nothing that is drawn.                  *)
LEMMA Haloing ==
    ASSUME NEW m, NEW t, MapOf(m, t), NEW seq
    PROVE  MapOf(Trace!Halo(m, seq), t)
<1>1. CASE m.loaded
  <2>1. Trace!Halo(m, seq) = [loaded |-> m.loaded, mounted |-> m.mounted, drawn |-> m.drawn,
                        rings |-> m.rings, halo |-> seq]
    BY <1>1 DEF Trace!Halo, MapOf
  <2> QED  BY <1>1, <2>1 DEF MapOf
<1>2. CASE ~ m.loaded
  BY <1>2 DEF Trace!Halo
<1> QED  BY <1>1, <1>2

(* A new answer, or none. *)
LEMMA Mapped ==
    ASSUME MapInv, NEW t, t # NA => Result(t)
    PROVE  Trace!Remap(t) # NA => MapOf(Trace!Remap(t), t)
<1> SUFFICES ASSUME Trace!Remap(t) # NA PROVE MapOf(Trace!Remap(t), t)
  OBVIOUS
<1>1. t # NA /\ Result(t)
  BY DEF Trace!Remap
<1>2. CASE trace_map = NA
  <2>1. Trace!Remap(t) = Trace!Blank(t)
    BY <1>1, <1>2 DEF Trace!Remap
  <2> QED  BY <1>1, <2>1, Mounting
<1>3. CASE trace_map # NA
  <2>1. Trace!Remap(t) = Trace!Halo(Trace!Drawn(trace_map, t), trace_selected)
    BY <1>1, <1>3 DEF Trace!Remap
  <2>2. MapOf(Trace!Drawn(trace_map, t), t)
    BY <1>1, <1>3, Drawing DEF MapInv
  <2> QED  BY <2>1, <2>2, Haloing
<1> QED  BY <1>2, <1>3

(* The same answer, with another selection. *)
LEMMA Reselected ==
    ASSUME MapInv, trace_trace # NA => Result(trace_trace), trace_trace = NA => trace_map = NA,
       NEW seq, Trace!Rerender(seq)
    PROVE  trace_map' # NA => MapOf(trace_map', trace_trace)
<1> SUFFICES ASSUME trace_map # NA PROVE MapOf(trace_map', trace_trace)
  BY DEF Trace!Rerender
<1> DEFINE m == IF trace_trace.route = NA THEN Trace!Drawn(trace_map, trace_trace) ELSE trace_map
<1>1. MapOf(Trace!Drawn(trace_map, trace_trace), trace_trace)
  BY Drawing DEF MapInv
<1>2. MapOf(m, trace_trace)
  BY <1>1 DEF MapInv
<1>3. trace_map' = Trace!Halo(m, seq)
  BY DEF Trace!Rerender
<1> HIDE DEF m
<1> QED  BY <1>2, <1>3, Haloing

(* Any selection of a number the table can have. *)
LEMMA SelectStep ==
    ASSUME TraceInv, trace_trace # NA, NEW seq \in 1..Len(Passings) \union {NA}, Trace!Select(seq)
    PROVE  TraceInv'
<1>1. /\ trace_selected' = seq /\ Trace!Rerender(seq)
      /\ UNCHANGED <<trace_stored, trace_query, trace_trace, trace_calls, trace_audit,
                     trace_files>>
  BY DEF Trace!Select
<1>2. CallInv'
  BY <1>1 DEF TraceInv, CallInv
<1>3. ShownInv' /\ FileInv'
  BY <1>1 DEF TraceInv, ShownInv, FileInv
<1>4. trace_map' # NA => MapOf(trace_map', trace_trace)
  BY <1>1, Reselected DEF TraceInv, ShownInv, MapInv
<1> QED  BY <1>1, <1>2, <1>3, <1>4 DEF TraceInv, MapInv

(* The numbers of the rows of an answer are numbers the table can have.    *)
LEMMA RowNumbers ==
    ASSUME NEW t, Result(t)
    PROVE  /\ Len(t.rows) \in Nat /\ DOMAIN t.rows = 1..Len(t.rows)
           /\ DOMAIN t.rows \subseteq 1..Len(Passings)
           /\ \A i \in 1..Len(t.rows) : t.rows[i] \in 1..Len(Passings)
<1>1. t.rows \in Seq(1..Len(Passings)) /\ Len(t.rows) <= Len(Passings) /\ Len(Passings) \in Nat
  BY TraceConstants DEF Trace!TraceScreenAssumption, Result, Trace!Call
<1> QED  BY <1>1

(* A step of the scrubber lands on a sighting of the answer. *)
LEMMA ScrubLands ==
    ASSUME NEW t, Result(t), t.rows # <<>>, NEW step \in 0..Steps
    PROVE  Trace!SeqAt(t, step) \in 1..Len(t.rows)
<1> DEFINE n == Len(t.rows)
           span == Trace!Ts(t, n) - Trace!Ts(t, 1)
           passed == {i \in 1..n : (Trace!Ts(t, i) - Trace!Ts(t, 1)) * Steps <= step * span}
           index == 1 + (step * n) \div Steps
<1>1. n \in Nat /\ n >= 1 /\ 1 \in 1..n /\ n \in 1..n
  <2>1. t.rows \in Seq(1..Len(Passings))
    BY DEF Result, Trace!Call
  <2> QED  BY <2>1
<1>2. \A i \in 1..n : Trace!Ts(t, i) \in Int
  BY RowNumbers, TraceConstants DEF Trace!TraceScreenAssumption, Trace!Ts
<1>3. Trace!Ts(t, 1) <= Trace!Ts(t, n)
  <2>1. CASE n = 1  BY <1>1, <1>2, <2>1
  <2>2. CASE n # 1
    <3>1. t.rows[1] < t.rows[n]
      <4>1. 1 < n
        <5> HIDE DEF n
        <5> QED  BY <1>1, <2>2
      <4>2. \A i, j \in 1..n : i < j => t.rows[i] < t.rows[j]
        BY DEF Result
      <4> QED  BY <1>1, <4>1, <4>2
    <3>2. t.rows[1] \in 1..Len(Passings) /\ t.rows[n] \in 1..Len(Passings)
      BY <1>1, RowNumbers
    <3> QED  BY <3>1, <3>2, TraceConstants DEF Trace!TraceScreenAssumption, Trace!Ts
  <2> QED  BY <2>1, <2>2
<1>4. Steps \in Nat \ {0} /\ step \in Nat
  BY TraceConstants DEF Trace!TraceScreenAssumption
<1>5. Trace!SeqAt(t, step) = IF span = 0 THEN (IF index > n THEN n ELSE index)
                       ELSE CHOOSE i \in passed : \A j \in passed : j <= i
  BY DEF Trace!SeqAt
<1>6. CASE span = 0
  <2>1. step * n \in Nat
    BY <1>1, <1>4
  <2>2. (step * n) \div Steps \in Nat
    <3> DEFINE p == step * n
    <3>1. p \in Nat
      BY <2>1
    <3> HIDE DEF p
    <3>2. p \div Steps \in Nat
      BY <1>4, <3>1
    <3> QED  BY <3>2 DEF p
  <2>3. index \in Nat /\ index >= 1
    <3> DEFINE d == (step * n) \div Steps
    <3> HIDE DEF d
    <3>1. d \in Nat
      BY <2>2 DEF d
    <3>2. 1 + d \in Nat /\ 1 + d >= 1
      BY <3>1
    <3> QED  BY <3>2 DEF d
  <2> HIDE DEF index, span
  <2> QED  BY <1>1, <1>5, <1>6, <2>3
<1>7. CASE span # 0
  <2>1. span \in Int /\ 0 <= span
    BY <1>1, <1>2, <1>3
  <2>2. 1 \in passed
    <3>1. Trace!Ts(t, 1) - Trace!Ts(t, 1) = 0
      BY <1>1, <1>2
    <3>2. 0 * Steps = 0 /\ 0 <= step * span
      <4> HIDE DEF span
      <4> QED  BY <1>4, <2>1
    <3> QED  BY <1>1, <3>1, <3>2
  <2> DEFINE left == {n - i : i \in passed}
  <2>3. \E i \in passed : \A j \in passed : j <= i
    <3>1. passed \subseteq 1..n
      OBVIOUS
    <3> HIDE DEF passed
    <3>2. left \subseteq 0..n /\ left # {} /\ left \in SUBSET Nat
      BY <1>1, <2>2, <3>1
    <3>3. IsFiniteSet(left)
      <4>1. IsFiniteSet(0..n)
        BY <1>1, FS_Interval
      <4> QED  BY <3>2, <4>1, FS_Subset
    <3> HIDE DEF left
    <3>4. PICK k \in left : \A j \in left : k <= j
      BY <3>2, <3>3, LeastElement
    <3>5. PICK i \in passed : k = n - i
      BY <3>4 DEF left
    <3>6. ASSUME NEW j \in passed PROVE j <= i
      <4>1. n - i <= n - j
        BY <3>4, <3>5 DEF left
      <4>2. i \in Int /\ j \in Int
        BY <3>1
      <4> QED  BY <1>1, <4>1, <4>2
    <3> QED  BY <3>6
  <2>4. (CHOOSE i \in passed : \A j \in passed : j <= i) \in passed
    <3> HIDE DEF passed
    <3> QED  BY <2>3
  <2>5. passed \subseteq 1..n
    OBVIOUS
  <2> HIDE DEF passed, span
  <2> QED  BY <1>5, <1>7, <2>4, <2>5
<1> QED  BY <1>6, <1>7

(* A row, a pin or a step of the scrubber selects a sighting of the        *)
(* answer.                                                                 *)
LEMMA ChoosingStep ==
    ASSUME TraceInv, trace_trace # NA, trace_trace.rows # <<>>,
       Trace!SelectRow \/ Trace!SelectPin \/ Trace!Scrub
    PROVE  TraceInv'
<1>1. Result(trace_trace)
  BY DEF TraceInv, ShownInv
<1>2. CASE Trace!SelectRow
  <2>1. PICK seq \in DOMAIN trace_trace.rows :
          Trace!Select(IF seq = trace_selected THEN NA ELSE seq)
    BY <1>2 DEF Trace!SelectRow
  <2>2. seq \in 1..Len(Passings)
    BY <1>1, <2>1, RowNumbers
  <2> QED  BY <2>1, <2>2, SelectStep
<1>3. CASE Trace!SelectPin
  <2>1. PICK seq \in Trace!Pins(trace_map.drawn) \union {NA} : Trace!Select(seq)
    BY <1>3 DEF Trace!SelectPin
  <2>2. Result(trace_map.drawn)
    BY <1>3 DEF Trace!SelectPin, TraceInv, MapInv, MapOf
  <2>3. Trace!Pins(trace_map.drawn) \subseteq 1..Len(Passings)
    BY <2>2, RowNumbers DEF Trace!Pins
  <2> QED  BY <2>1, <2>3, SelectStep
<1>4. CASE Trace!Scrub
  <2>1. PICK step \in 0..Steps : Trace!Select(Trace!SeqAt(trace_trace, step))
    BY <1>4 DEF Trace!Scrub
  <2>2. Trace!SeqAt(trace_trace, step) \in 1..Len(Passings)
    BY <1>1, ScrubLands, RowNumbers
  <2> QED  BY <2>1, <2>2, SelectStep
<1> QED  BY <1>2, <1>3, <1>4

(* A map that has loaded draws what it was mounted with.                   *)
LEMMA LoadStep ==
    ASSUME TraceInv, Trace!Load
    PROVE  TraceInv'
<1>1. /\ trace_map # NA /\ trace_map' = Trace!Loaded(trace_map)
      /\ UNCHANGED <<trace_stored, trace_query, trace_selected, trace_trace, trace_calls,
                     trace_audit, trace_files>>
  BY DEF Trace!Load
<1>2. MapOf(trace_map, trace_trace) /\ trace_trace # NA
  BY <1>1 DEF TraceInv, MapInv
<1>3. Trace!Loaded(trace_map) = [loaded |-> TRUE, mounted |-> trace_map.mounted,
   drawn |-> trace_map.mounted,
                     rings |-> Trace!Rings(trace_trace), halo |-> trace_map.halo]
  <2> DEFINE r == Trace!Rings(trace_trace)
             l == trace_map.loaded
             u == trace_map.mounted
             d == trace_map.drawn
             o == trace_map.rings
             h == trace_map.halo
  <2> HIDE DEF r, l, u, d, o, h
  <2>1. trace_map = [loaded |-> l, mounted |-> u, drawn |-> d, rings |-> o, halo |-> h]
    BY <1>2 DEF MapOf, l, u, d, o, h
  <2>2. Trace!Loaded(trace_map) = [trace_map EXCEPT !.loaded = TRUE, !.drawn = u, !.rings = r]
    BY DEF Trace!Loaded, u, r
  <2>3. Trace!Loaded(trace_map) = [loaded |-> TRUE, mounted |-> u, drawn |-> u, rings |-> r,
     halo |-> h]
    BY <2>1, <2>2
  <2> QED  BY <2>3 DEF r, u, h
<1>4. MapOf(trace_map', trace_trace)
  BY <1>1, <1>2, <1>3 DEF MapOf
<1>5. CallInv' /\ ShownInv' /\ FileInv'
  BY <1>1 DEF TraceInv, CallInv, ShownInv, FileInv
<1> QED  BY <1>1, <1>2, <1>4, <1>5 DEF TraceInv, MapInv

(* The request is over. *)
LEMMA OverStep ==
    ASSUME TraceInv, NEW c \in Trace!Callers, Trace!Step(c, NA), UNCHANGED <<trace_stored,
                                                                             trace_audit>>
    PROVE  CallInv' /\ \A d \in Trace!Callers : d # c => trace_calls'[d] = trace_calls[d]
<1>1. InOrder(c, NA, trace_stored, trace_audit')
  BY DEF InOrder
<1> QED  BY <1>1, CallStep DEF TraceInv

(* An answer is shown or downloaded once its entry is in the log.          *)
LEMMA AnswerStep ==
    ASSUME TraceInv, NEW c \in Trace!Callers, Trace!Answer(c)
    PROVE  TraceInv'
<1> DEFINE call == trace_calls[c]
           t == [call EXCEPT !.pc = "answer"]
           file == [of |-> call, format |-> c, sheet |-> Trace!Sheet(c, call)]
<1>1. call # NA /\ call.pc = "answer" /\ Trace!Step(c, NA) /\ UNCHANGED <<trace_stored,
                                                                          trace_audit>>
  BY DEF Trace!Answer, Trace!At
<1>2. Result(call) /\ Explained(call, trace_stored) /\ OnRecord(c, call, trace_audit)
  BY <1>1 DEF TraceInv, CallInv, InOrder
<1>3. CallInv' /\ \A d \in Trace!Callers : d # c => trace_calls'[d] = trace_calls[d]
  BY <1>1, OverStep
<1>4. CASE /\ c = "screen" /\ Trace!Show(t) /\ trace_query' = call.query
           /\ UNCHANGED <<trace_selected, trace_files>>
  <2>1. t \in Trace!Call /\ t.rows = call.rows /\ t.query = call.query /\ t.empty = call.empty
    BY <1>2 DEF Result, Trace!Call
  <2> HIDE DEF t
  <2>2. Result(t) /\ Explained(t, trace_stored) /\ OnRecord("screen", t, trace_audit)
    BY <1>2, <1>4, <2>1 DEF Result, Explained, OnRecord, Trace!Entry
  <2>3. trace_trace' = t /\ trace_map' = Trace!Remap(t)
    BY <1>4 DEF Trace!Show
  <2>4. t.query \in Queries /\ t # NA
    BY <2>1, TraceConstants DEF Trace!TraceScreenAssumption, Trace!Call
  <2>5. ShownInv'
    BY <1>1, <1>4, <2>1, <2>2, <2>3, <2>4 DEF TraceInv, ShownInv
  <2>6. trace_map' # NA => MapOf(trace_map', trace_trace')
    BY <2>2, <2>3, Mapped DEF TraceInv
  <2>7. FileInv'
    BY <1>1, <1>4 DEF TraceInv, FileInv
  <2> QED  BY <1>3, <2>3, <2>4, <2>5, <2>6, <2>7 DEF TraceInv, MapInv
<1>5. CASE c # "screen" /\ trace_files' = trace_files \union {file} /\ UNCHANGED Trace!Screen
  <2>1. c \in Trace!Formats /\ trace_calls'["screen"] = trace_calls["screen"]
    BY <1>3, <1>5 DEF Trace!Callers
  <2>2. Len(file.sheet) = Len(call.rows) + 1
    BY <1>2, <2>1, SheetLength
  <2>3. FileInv'
    BY <1>1, <1>2, <1>5, <2>2 DEF TraceInv, FileInv
  <2>4. ShownInv' /\ MapInv'
    BY <1>1, <1>5, <2>1 DEF TraceInv, ShownInv, MapInv, Trace!Screen
  <2> QED  BY <1>3, <2>3, <2>4 DEF TraceInv
<1> QED  BY <1>4, <1>5 DEF Trace!Answer

(* A request that fails clears the screen, or leaves it alone when it was  *)
(* a download.                                                             *)
LEMMA GoneStep ==
    ASSUME TraceInv, NEW c \in Trace!Callers, Trace!Fail(c)
    PROVE  TraceInv'
<1>1. trace_calls[c] # NA /\ Trace!Step(c, NA) /\ UNCHANGED <<trace_stored, trace_audit,
                                                              trace_files>>
  BY DEF Trace!Fail
<1>2. Result(trace_calls[c])
  BY <1>1 DEF TraceInv, CallInv, InOrder
<1>3. CallInv' /\ \A d \in Trace!Callers : d # c => trace_calls'[d] = trace_calls[d]
  BY <1>1, OverStep
<1>4. FileInv'
  BY <1>1 DEF TraceInv, FileInv
<1>5. CASE /\ c = "screen" /\ Trace!Show(NA) /\ trace_query' = trace_calls[c].query
           /\ UNCHANGED trace_selected
  <2>1. trace_trace' = NA /\ trace_map' = NA /\ trace_query' \in Queries
    BY <1>2, <1>5 DEF Trace!Show, Trace!Remap, Result, Trace!Call
  <2> QED  BY <1>3, <1>4, <1>5, <2>1 DEF TraceInv, ShownInv, MapInv
<1>6. CASE c # "screen" /\ UNCHANGED Trace!Screen
  <2>1. trace_calls'["screen"] = trace_calls["screen"]
    BY <1>3, <1>6 DEF Trace!Callers
  <2>2. ShownInv' /\ MapInv'
    BY <1>1, <1>6, <2>1 DEF TraceInv, ShownInv, MapInv, Trace!Screen
  <2> QED  BY <1>3, <1>4, <2>2 DEF TraceInv
<1> QED  BY <1>5, <1>6 DEF Trace!Fail

(* The page is opened on a query, with nothing on screen.                  *)
LEMMA OpenStep ==
    ASSUME TraceInv, Trace!Open
    PROVE  TraceInv'
<1>1. /\ trace_query = NA /\ trace_calls["screen"] = NA /\ trace_selected' \in {NA, 1}
      /\ UNCHANGED <<trace_stored, trace_trace, trace_map, trace_audit, trace_files>>
  BY DEF Trace!Open
<1>2. PICK q \in Queries : IF Trace!Stated(q) THEN Trace!Step("screen",
   Trace!Asked(q)) /\ UNCHANGED trace_query
                           ELSE trace_query' = q /\ UNCHANGED trace_calls
  BY DEF Trace!Open
<1>3. trace_trace = NA
  BY <1>1, TraceConstants DEF Trace!TraceScreenAssumption, TraceInv, ShownInv, Result, Trace!Call
<1>4. CallInv'
  <2>1. CASE Trace!Stated(q)
    <3>1. Trace!Step("screen", Trace!Asked(q)) /\ "screen" \in Trace!Callers
      BY <1>2, <2>1 DEF Trace!Callers
    <3>2. InOrder("screen", Trace!Asked(q), trace_stored, trace_audit')
      <4>1. Result(Trace!Asked(q))
        BY AskedIsResult
      <4> QED  BY <4>1 DEF InOrder, Trace!Asked
    <3> QED  BY <1>1, <3>1, <3>2, CallStep DEF TraceInv
  <2>2. CASE ~ Trace!Stated(q)
    BY <1>1, <1>2, <2>2 DEF TraceInv, CallInv
  <2> QED  BY <2>1, <2>2
<1>5. trace_selected' \in 1..Len(Passings) \union {NA} /\ trace_query' \in Queries \union {NA}
  BY <1>1, <1>2, TraceConstants DEF Trace!TraceScreenAssumption, TraceInv, ShownInv
<1>6. ShownInv' /\ FileInv' /\ MapInv'
  BY <1>1, <1>3, <1>5 DEF TraceInv, ShownInv, FileInv, MapInv
<1> QED  BY <1>4, <1>6 DEF TraceInv

(* A new query keeps the old answer only while its own is awaited.         *)
LEMMA SubmitStep ==
    ASSUME TraceInv, Trace!Submit
    PROVE  TraceInv'
<1>1. trace_calls["screen"] = NA /\ UNCHANGED <<trace_stored, trace_audit,
                                                trace_files>> /\ "screen" \in Trace!Callers
  BY DEF Trace!Submit, Trace!Callers
<1>2. PICK q \in Queries :
         /\ trace_query' = q /\ trace_selected' = NA
         /\ IF Trace!Reruns(trace_query, q)
            THEN IF Trace!Stated(q)
                 THEN Trace!Step("screen",
                    Trace!Asked(q)) /\ UNCHANGED trace_trace /\ Trace!Rerender(NA)
                 ELSE UNCHANGED trace_calls /\ Trace!Show(NA)
            ELSE UNCHANGED <<trace_calls, trace_trace>> /\ Trace!Rerender(NA)
  BY DEF Trace!Submit
<1>3. FileInv'
  BY <1>1 DEF TraceInv, FileInv
<1>4. CASE Trace!Reruns(trace_query, q) /\ Trace!Stated(q)
  <2>1. Trace!Step("screen", Trace!Asked(q)) /\ UNCHANGED trace_trace /\ Trace!Rerender(NA)
    BY <1>2, <1>4
  <2>2. Trace!Asked(q) \in Trace!Call /\ InOrder("screen", Trace!Asked(q), trace_stored,
     trace_audit')
    <3>1. Trace!Asked(q) \in Trace!Call /\ Result(Trace!Asked(q))
      BY AskedIsResult
    <3> QED  BY <3>1 DEF InOrder, Trace!Asked
  <2>3. CallInv' /\ trace_calls'["screen"] = Trace!Asked(q)
    BY <1>1, <2>1, <2>2, CallStep DEF TraceInv
  <2>4. ShownInv'
    BY <1>1, <1>2, <2>1, <2>2, <2>3, TraceConstants
       DEF Trace!TraceScreenAssumption, TraceInv, ShownInv
  <2>5. trace_map' # NA => MapOf(trace_map', trace_trace)
    BY <2>1, Reselected DEF TraceInv, ShownInv, MapInv
  <2>6. trace_trace = NA => trace_map' = NA
    BY <2>1 DEF Trace!Rerender, TraceInv, MapInv
  <2> QED  BY <1>3, <2>1, <2>3, <2>4, <2>5, <2>6 DEF TraceInv, MapInv
<1>5. CASE Trace!Reruns(trace_query, q) /\ ~ Trace!Stated(q)
  <2>1. UNCHANGED trace_calls /\ trace_trace' = NA /\ trace_map' = NA
    BY <1>2, <1>5 DEF Trace!Show, Trace!Remap
  <2>2. CallInv'
    BY <1>1, <2>1 DEF TraceInv, CallInv
  <2> QED  BY <1>2, <1>3, <2>1, <2>2 DEF TraceInv, ShownInv, MapInv
<1>6. CASE ~ Trace!Reruns(trace_query, q)
  <2>1. UNCHANGED <<trace_calls, trace_trace>> /\ Trace!Rerender(NA) /\ trace_query' = trace_query
    BY <1>2, <1>6 DEF Trace!Reruns
  <2>2. CallInv'
    BY <1>1, <2>1 DEF TraceInv, CallInv
  <2>3. ShownInv'
    BY <1>1, <1>2, <2>1 DEF TraceInv, ShownInv
  <2>4. trace_map' # NA => MapOf(trace_map', trace_trace)
    BY <2>1, Reselected DEF TraceInv, ShownInv, MapInv
  <2>5. trace_trace = NA => trace_map' = NA
    BY <2>1 DEF Trace!Rerender, TraceInv, MapInv
  <2> QED  BY <1>3, <2>1, <2>2, <2>3, <2>4, <2>5 DEF TraceInv, MapInv
<1> QED  BY <1>4, <1>5, <1>6

(* One step per action of the trace screen.                                *)
LEMMA TraceStep == TraceInv /\ [Trace!Next]_traceVars => TraceInv'
<1> SUFFICES ASSUME TraceInv, [Trace!Next]_traceVars PROVE TraceInv'
  OBVIOUS
<1>1. CASE UNCHANGED traceVars
  BY <1>1 DEF traceVars, TraceInv, CallInv, ShownInv, FileInv, MapInv
<1>2. CASE Trace!Next
  BY <1>2, OpenStep, SubmitStep, ChoosingStep, LoadStep, StoreStep, ExportStep, SearchStep,
     HydrateStep, AuditStep, RouteStep, AnswerStep, GoneStep DEF Trace!Next
<1> QED  BY <1>1, <1>2

(* The invariant gives the property.                                       *)
LEMMA TraceHolds == TraceInv => Trace!TraceIsAccountedFor
<1> SUFFICES ASSUME TraceInv PROVE Trace!TraceIsAccountedFor
  OBVIOUS
<1>1. CallInv /\ ShownInv /\ FileInv /\ MapInv
  BY DEF TraceInv
<1>2. Trace!TypeOK
  <2>1. \A c \in Trace!Callers : trace_calls[c] \in Trace!Call \union {NA}
    BY <1>1 DEF CallInv, InOrder, Result
  <2> QED  BY <1>1, <2>1 DEF CallInv, ShownInv, Result, Trace!TypeOK
<1>3. Trace!AnswersAreRecorded
  BY <1>1 DEF ShownInv, FileInv, OnRecord, Trace!AnswersAreRecorded, Trace!Recorded
<1>4. Trace!EmptinessIsExplained
  BY <1>1 DEF ShownInv, FileInv, Explained, UnderFloor, Trace!EmptinessIsExplained
<1>5. Trace!MapIsOfTheVehicle
  BY <1>1 DEF MapInv, MapOf, Trace!MapIsOfTheVehicle, Trace!Lines, Trace!Undrawn
<1> QED  BY <1>2, <1>3, <1>4, <1>5 DEF Trace!TraceIsAccountedFor

(* However the requests of the screen and of its two downloads interleave  *)
(* with one another, with new sightings, new queries and selections, and   *)
(* whichever of them fail: what is shown or was downloaded is on record    *)
(* under the purpose it was asked for, an empty answer has the right       *)
(* reason, at rest the answer is that of the address bar, the scrubber     *)
(* lands on a sighting, and the map draws no other trace than the table's  *)
(* or the one it was opened with (trace-screen.tsx, trace-map.tsx,         *)
(* trace-export.ts).                                                       *)
THEOREM TracesHold == ConsoleSpec => []TraceIsAccountedFor
<1>1. ConsoleInit => TraceInv
  BY TraceInit DEF ConsoleInit
<1>2. TraceInv /\ [ConsoleNext]_consoleVars => TraceInv'
  BY TraceStep DEF ConsoleNext, consoleVars
<1>3. TraceInv => TraceIsAccountedFor
  BY TraceHolds DEF TraceIsAccountedFor
<1> QED  BY <1>1, <1>2, <1>3, PTL DEF ConsoleSpec

-----------------------------------------------------------------------------
(* A layout as the page shows it: no camera that is gone. *)
ShownLayouts == {l \in Wall!Arrangement : \A i \in DOMAIN l : l[i] \in Wall!Cameras \cup {NA}}

(* What is shown, waits to be saved, is being saved and is stored.         *)
LayoutInv ==
    /\ wall_layout \in ShownLayouts
    /\ wall_timer \in Wall!Arrangement \cup {NA}
    /\ wall_stored \in Wall!Arrangement \cup {NA}
    /\ wall_puts \in Seq(Wall!Arrangement)

(* Tiles, players and awaited player modules.                              *)
Tile == [cam : Wall!Cameras \cup {NA}, visible : BOOLEAN,
         manifest : {"none", "loading", "playable", "reason"},
         player : {"off", "opening", "attached", "closed"}]
Places == {0} \cup Wall!Slots
Players == [slot : Places, cam : Wall!Cameras]
Works == [slot : Places, cam : Wall!Cameras, cancelled : BOOLEAN]

(* A tile that plays c: the camera it shows, visible, its manifest read. *)
Plays(s, c) == /\ wall_tiles[s].cam = c /\ wall_tiles[s].visible
               /\ wall_tiles[s].manifest = "playable"

(* What plays or is about to: the tile of each work and each player.       *)
Played ==
    /\ wall_opens \subseteq Works
    /\ \A h \in wall_opens : h.cancelled \/ /\ Plays(h.slot, h.cam)
                                            /\ wall_tiles[h.slot].player \in {"opening", "attached"}
    /\ wall_live \subseteq Players
    /\ \A k \in wall_live : Plays(k.slot, k.cam) /\ wall_tiles[k.slot].player = "attached"

(* The tiles: slot 0 and the grid are never mounted together.              *)
Shown ==
    /\ wall_page \in {"wall", "leaving", "away"}
    /\ wall_tiles \in [Places -> Tile]
    /\ \A s \in Places : /\ wall_tiles[s].visible => wall_tiles[s].cam # NA
                         /\ wall_tiles[s].manifest = "loading" => wall_tiles[s].visible
    /\ wall_tiles[0].cam # NA => \A s \in Wall!Slots : wall_tiles[s] = Wall!NoTile
    /\ wall_page = "away" => \A s \in Places : wall_tiles[s] = Wall!NoTile

PlayInv == Shown /\ Played

(* The pane, its negotiation and the sessions of the gateway.              *)
Negs == [view : 1..MaxOpens, stage : {"offer", "sent", "made"}, cancelled : BOOLEAN]

PaneInv ==
    /\ wall_views \in 0..MaxOpens
    /\ wall_tiles[0].cam # NA => wall_views # 0
    /\ wall_pane \in [cam : Wall!Cameras \cup {NA}, view : 0..wall_views, resource : BOOLEAN]
    /\ wall_tiles[0].cam = NA \/ wall_tiles[0].manifest = "loading" => wall_pane = Wall!NoPane
    /\ wall_negs \subseteq Negs
    /\ \A n \in wall_negs : /\ n.view <= wall_views
                            /\ n.cancelled <=> n.view # wall_pane.view
                            /\ n.stage = "offer" \/ n.view = wall_pane.view
                                 \/ n.view \in wall_late
                            /\ wall_tiles[0].manifest = "loading" => n.view # wall_views
    /\ wall_sessions \subseteq 1..MaxOpens /\ wall_late \subseteq 1..MaxOpens
    /\ \A s \in wall_sessions :
         \/ s \in wall_late
         \/ /\ s = wall_pane.view
            /\ wall_pane.resource \/ \E n \in wall_negs : n.view = s /\ n.stage = "made"

WallInv == LayoutInv /\ PlayInv /\ PaneInv




(* A shown layout is a sequence of cameras and empty slots, each camera    *)
(* once.                                                                   *)
LEMMA ShownAre ==
  ASSUME NEW l
  PROVE  l \in ShownLayouts <=> l \in Seq(Wall!Cameras \cup {NA}) /\ Wall!EachOnce(l)
<1>1. ASSUME l \in ShownLayouts PROVE l \in Seq(Wall!Cameras \cup {NA}) /\ Wall!EachOnce(l)
  <2>1. l \in Seq(Wall!Cameras \cup Removed \cup {NA}) /\ Wall!EachOnce(l)
    BY <1>1 DEF ShownLayouts, Wall!Arrangement
  <2>2. \A i \in 1..Len(l) : l[i] \in Wall!Cameras \cup {NA}  BY <1>1, <2>1 DEF ShownLayouts
  <2>3. Len(l) \in Nat /\ l = [i \in 1..Len(l) |-> l[i]]  BY <2>1, LenProperties
  <2>4. l \in [1..Len(l) -> Wall!Cameras \cup {NA}]  BY <2>2, <2>3
  <2> QED  BY <2>1, <2>3, <2>4, SeqDef
<1>2. ASSUME l \in Seq(Wall!Cameras \cup {NA}), Wall!EachOnce(l) PROVE l \in ShownLayouts
  <2>1. \A i \in DOMAIN l : l[i] \in Wall!Cameras \cup {NA}  BY <1>2
  <2>2. l \in Seq(Wall!Cameras \cup Removed \cup {NA})  BY <1>2, SeqMonotonic
  <2> QED  BY <1>2, <2>1, <2>2 DEF ShownLayouts, Wall!Arrangement
<1> QED  BY <1>1, <1>2

(* A grid of another size keeps each camera once (layout.ts).              *)
LEMMA PlaceShown ==
  ASSUME NEW l \in Seq(Wall!Cameras \cup {NA}), Wall!EachOnce(l), NEW n \in Nat
  PROVE  Wall!Place(l, n) \in ShownLayouts
<1>1. \A i \in 1..n : Wall!Place(l, n)[i] \in Wall!Cameras \cup {NA}  BY DEF Wall!Place
<1>2. Wall!Place(l, n) \in [1..n -> Wall!Cameras \cup {NA}]  BY <1>1 DEF Wall!Place
<1>3. Wall!Place(l, n) \in Seq(Wall!Cameras \cup {NA})  BY <1>2, SeqDef
<1>4. Wall!EachOnce(Wall!Place(l, n))  BY DEF Wall!EachOnce, Wall!Place
<1> QED  BY <1>3, <1>4, ShownAre

(* So does dropping the cameras that are gone from a stored layout.        *)
LEMMA NormaliseShown ==
  ASSUME NEW l \in Wall!Arrangement
  PROVE  Wall!NormaliseLayout(l) \in ShownLayouts
<1>1. Len(l) \in Nat /\ DOMAIN l = 1..Len(l) /\ Wall!EachOnce(l)
  BY LenProperties DEF Wall!Arrangement
<1>2. Wall!NormaliseLayout(l) \in [1..Len(l) -> Wall!Cameras \cup {NA}]
  BY <1>1 DEF Wall!NormaliseLayout
<1>3. Wall!NormaliseLayout(l) \in Seq(Wall!Cameras \cup {NA})  BY <1>1, <1>2, SeqDef
<1>4. Wall!EachOnce(Wall!NormaliseLayout(l))  BY <1>1 DEF Wall!EachOnce, Wall!NormaliseLayout
<1> QED  BY <1>3, <1>4, ShownAre

(* Assigning a camera that another slot shows swaps the two (assign).      *)
LEMMA AssignShown ==
  ASSUME NEW l \in Seq(Wall!Cameras \cup {NA}), Wall!EachOnce(l), NEW i \in DOMAIN l,
         NEW c \in Wall!Cameras \cup {NA}
  PROVE  Wall!Assign(l, i, c) \in ShownLayouts
<1>1. Len(l) \in Nat /\ DOMAIN l = 1..Len(l) /\ \A j \in DOMAIN l :
        l[j] \in Wall!Cameras \cup {NA}
  BY LenProperties
<1>2. \A j \in DOMAIN l : /\ Wall!Assign(l, i, c)[j] \in Wall!Cameras \cup {NA}
                          /\ j = i => Wall!Assign(l, i, c)[j] = c
                          /\ j # i /\ c # NA /\ l[j] = c => Wall!Assign(l, i, c)[j] = l[i]
                          /\ j # i /\ (c = NA \/ l[j] # c) => Wall!Assign(l, i, c)[j] = l[j]
  BY <1>1 DEF Wall!Assign
<1>3. DOMAIN Wall!Assign(l, i, c) = DOMAIN l  BY DEF Wall!Assign
<1>4. Wall!Assign(l, i, c) \in [1..Len(l) -> Wall!Cameras \cup {NA}]
  BY <1>1, <1>2, <1>3 DEF Wall!Assign
<1>5. Wall!Assign(l, i, c) \in Seq(Wall!Cameras \cup {NA})  BY <1>1, <1>4, SeqDef
<1>6. Wall!EachOnce(Wall!Assign(l, i, c))  BY <1>2, <1>3 DEF Wall!EachOnce
<1> QED  BY <1>5, <1>6, ShownAre

(* What the page starts with, stored or not, is a layout it may show.      *)
LEMMA LoadShown ==
  ASSUME NEW l \in Wall!Arrangement \cup {NA}
  PROVE  Wall!Load(l) \in ShownLayouts
<1>1. CASE l = NA
  <2>1. Registered \in Seq(Wall!Cameras \cup {NA})
    <3>1. Registered \in Seq(Wall!Cameras \cup Removed \cup {NA})
      BY WallConstants DEF Wall!WallAssumption, Wall!Arrangement
    <3>2. \A i \in DOMAIN Registered : Registered[i] \in Wall!Cameras \cup {NA}
      BY DEF Wall!Cameras
    <3>3. Registered \in ShownLayouts
      BY <3>2, WallConstants DEF Wall!WallAssumption, ShownLayouts
    <3> QED  BY <3>3, ShownAre
  <2>2. Wall!EachOnce(Registered) /\ Grid \in Nat
    BY WallConstants DEF Wall!WallAssumption, Wall!Arrangement
  <2>3. Wall!DefaultLayout \in ShownLayouts  BY <2>1, <2>2, PlaceShown DEF Wall!DefaultLayout
  <2> QED  BY <1>1, <2>3 DEF Wall!Load
<1>2. CASE l # NA
  BY <1>2, NormaliseShown DEF Wall!Load
<1> QED  BY <1>1, <1>2

-----------------------------------------------------------------------------
(* The wall starts with layouts only.                                      *)
LEMMA InitLayouts == Wall!Init => LayoutInv
<1> SUFFICES ASSUME Wall!Init PROVE LayoutInv  OBVIOUS
<1>1. wall_stored \in Wall!Arrangement \cup {NA}
  BY WallConstants DEF Wall!WallAssumption, Wall!Init
<1>2. wall_layout \in ShownLayouts  BY <1>1, LoadShown DEF Wall!Init
<1>3. wall_timer \in Wall!Arrangement \cup {NA} /\ wall_puts \in Seq(Wall!Arrangement)
  BY DEF Wall!Init
<1> QED  BY <1>1, <1>2, <1>3 DEF LayoutInv

(* An edit shows and schedules the layout it made.                         *)
LEMMA EditsLayouts ==
  ASSUME LayoutInv, NEW l \in ShownLayouts, Wall!SetLayout(l)
  PROVE  LayoutInv'
<1>1. wall_layout' \in ShownLayouts /\ UNCHANGED <<wall_stored, wall_puts>>  BY DEF Wall!SetLayout
<1>2. wall_timer' = NA \/ wall_timer' = l  BY DEF Wall!SetLayout
<1>3. l \in Wall!Arrangement  BY DEF ShownLayouts
<1> QED  BY <1>1, <1>2, <1>3 DEF LayoutInv

(* What is sent and stored is what an edit scheduled.                      *)
LEMMA SavesLayouts ==
  ASSUME LayoutInv, Wall!SaveLayout \/ Wall!SaveAnswered
  PROVE  LayoutInv'
<1>1. CASE Wall!SaveLayout
  <2>1. wall_timer \in Wall!Arrangement  BY <1>1 DEF LayoutInv, Wall!SaveLayout
  <2>2. wall_puts' \in Seq(Wall!Arrangement)
    BY <1>1, <2>1, AppendProperties DEF LayoutInv, Wall!SaveLayout
  <2> QED  BY <1>1, <2>2 DEF LayoutInv, Wall!SaveLayout
<1>2. CASE Wall!SaveAnswered
  <2>1. Head(wall_puts) \in Wall!Arrangement /\ Tail(wall_puts) \in Seq(Wall!Arrangement)
    BY <1>2, HeadTailProperties DEF LayoutInv, Wall!SaveAnswered
  <2>2. wall_stored' \in Wall!Arrangement \cup {NA}
    BY <1>2, <2>1 DEF LayoutInv, Wall!SaveAnswered
  <2>3. wall_puts' \in Seq(Wall!Arrangement) /\ UNCHANGED <<wall_layout, wall_timer>>
    BY <1>2, <2>1 DEF Wall!SaveAnswered
  <2> QED  BY <2>2, <2>3 DEF LayoutInv
<1> QED  BY <1>1, <1>2

(* No step of the wall makes a layout that holds a camera twice.           *)
LEMMA NextLayouts == LayoutInv /\ [Wall!Next]_wallVars => LayoutInv'
<1> SUFFICES ASSUME LayoutInv, [Wall!Next]_wallVars PROVE LayoutInv'  OBVIOUS
<1>0. wall_layout \in Seq(Wall!Cameras \cup {NA}) /\ Wall!EachOnce(wall_layout)
  BY ShownAre DEF LayoutInv
<1>1. CASE Wall!OnPick
  <2>1. PICK i \in DOMAIN wall_layout, c \in Wall!Cameras \cup {NA} :
               Wall!SetLayout(Wall!Assign(wall_layout, i, c))
    BY <1>1 DEF Wall!OnPick
  <2>2. Wall!Assign(wall_layout, i, c) \in ShownLayouts  BY <1>0, AssignShown
  <2> QED  BY <2>1, <2>2, EditsLayouts
<1>2. CASE Wall!OnGrid
  <2>1. PICK n \in Sizes : Wall!SetLayout(Wall!Place(wall_layout, n))  BY <1>2 DEF Wall!OnGrid
  <2>2. n \in Nat  BY WallConstants DEF Wall!WallAssumption
  <2>3. Wall!Place(wall_layout, n) \in ShownLayouts  BY <1>0, <2>2, PlaceShown
  <2> QED  BY <2>1, <2>3, EditsLayouts
<1>3. CASE Wall!Enter
  <2>1. Wall!Load(wall_stored) \in ShownLayouts  BY LoadShown DEF LayoutInv
  <2> QED  BY <1>3, <2>1 DEF LayoutInv, Wall!Enter
<1>4. CASE Wall!Unmount
  BY <1>4 DEF LayoutInv, Wall!Unmount
<1>5. CASE UNCHANGED Wall!layouting
  BY <1>5 DEF LayoutInv, Wall!layouting
<1>6. CASE \/ \E s \in Wall!Slots : Wall!ScrollIn(s) \/ Wall!ScrollOut(s)
           \/ \E s \in DOMAIN wall_tiles : Wall!LoadManifest(s)
           \/ \E h \in wall_opens : Wall!OpenPlayer(h)
           \/ \E c \in Wall!Cameras : Wall!OpenSingle(c)
           \/ Wall!CloseSingle \/ Wall!CloseAllConnections
           \/ \E n \in wall_negs : Wall!Offer(n) \/ Wall!GatewayAnswers(n) \/ Wall!Answer(n)
  <2>1. CASE \E s \in Wall!Slots : Wall!ScrollIn(s) \/ Wall!ScrollOut(s)
    BY <2>1, <1>5 DEF Wall!ScrollIn, Wall!ScrollOut
  <2>2. CASE \E s \in DOMAIN wall_tiles : Wall!LoadManifest(s)
    BY <2>2, <1>5 DEF Wall!LoadManifest
  <2>3. CASE \E h \in wall_opens : Wall!OpenPlayer(h)
    BY <2>3, <1>5 DEF Wall!OpenPlayer
  <2>4. CASE (\E c \in Wall!Cameras : Wall!OpenSingle(c)) \/ Wall!CloseSingle
               \/ Wall!CloseAllConnections
    BY <2>4, <1>5 DEF Wall!OpenSingle, Wall!CloseSingle, Wall!CloseAllConnections
  <2>5. CASE \E n \in wall_negs : Wall!Offer(n) \/ Wall!GatewayAnswers(n) \/ Wall!Answer(n)
    BY <2>5, <1>5 DEF Wall!Offer, Wall!GatewayAnswers, Wall!Answer
  <2> QED  BY <1>6, <2>1, <2>2, <2>3, <2>4, <2>5
<1>7. CASE UNCHANGED wallVars
  BY <1>5, <1>7 DEF wallVars, Wall!layouting
<1> QED  BY <1>1, <1>2, <1>3, <1>4, <1>6, <1>7, SavesLayouts DEF Wall!Next

-----------------------------------------------------------------------------
(* Slot 0 is the pane of the single view, no slot of the grid.             *)
LEMMA SlotsStartAtOne == 0 \notin Wall!Slots  BY DEF Wall!Slots

(* What an empty slot holds.                                               *)
LEMMA NoPlace ==
    /\ Wall!NoTile \in Tile /\ Wall!NoTile.cam = NA /\ ~Wall!NoTile.visible
    /\ Wall!NoTile.manifest = "none" /\ Wall!NoTile.player = "off"
  BY DEF Wall!NoTile, Tile

(* No camera is the empty value.                                           *)
LEMMA CameraIsNoNA == NA \notin Wall!Cameras  BY WallConstants DEF Wall!WallAssumption

(* Cancelling the work of some slots leaves the other work as it was.      *)
LEMMA CancelKeeps ==
  ASSUME NEW W \in SUBSET Works, NEW S
  PROVE  /\ Wall!Cancel(W, S) \subseteq Works
         /\ \A h \in Wall!Cancel(W, S) : h.cancelled \/ (h \in W /\ h.slot \notin S)
<1> DEFINE C(h) == [h EXCEPT !.cancelled = @ \/ h.slot \in S]
<1>1. \A h \in Works : /\ C(h) \in Works
                       /\ C(h).cancelled \/ (C(h) = h /\ h.slot \notin S)
  <2> TAKE h \in Works
  <2>1. /\ h = [slot |-> h.slot, cam |-> h.cam, cancelled |-> h.cancelled]
        /\ h.slot \in Places /\ h.cam \in Wall!Cameras /\ h.cancelled \in BOOLEAN
    BY DEF Works
  <2>2. CASE h.cancelled \/ h.slot \in S
    <3> DEFINE b == h.cancelled \/ h.slot \in S
    <3>1. C(h) = [h EXCEPT !.cancelled = b]  OBVIOUS
    <3>2. b = TRUE  BY <2>1, <2>2
    <3> HIDE DEF b, C
    <3>3. C(h) = [slot |-> h.slot, cam |-> h.cam, cancelled |-> TRUE]  BY <2>1, <3>1, <3>2
    <3> QED  BY <2>1, <3>3 DEF Works
  <2>3. CASE ~h.cancelled /\ h.slot \notin S
    <3>1. C(h) = h  BY <2>1, <2>3
    <3> QED  BY <2>3, <3>1
  <2> QED  BY <2>2, <2>3
<1>2. Wall!Cancel(W, S) = {C(h) : h \in W}  BY DEF Wall!Cancel
<1> HIDE DEF C
<1>3. \A v \in Wall!Cancel(W, S) : \E h \in W : v = C(h)  BY <1>2
<1> QED  BY <1>1, <1>3

(* Work and players left after a step belong to tiles the step kept.       *)
LEMMA Kept ==
  ASSUME Played, NEW S, wall_opens' \subseteq Works,
         \A h \in wall_opens' : h.cancelled \/ (h \in wall_opens /\ h.slot \notin S),
         \A k \in wall_live' : k \in wall_live /\ k.slot \notin S,
         \A s \in Places \ S :
            wall_tiles[s].visible /\ wall_tiles[s].manifest = "playable"
              => wall_tiles'[s] = wall_tiles[s]
  PROVE  Played'
<1>1. wall_live' \subseteq Players  BY DEF Played
<1>2. \A h \in wall_opens' : h.cancelled \/ /\ Plays(h.slot, h.cam)'
                                            /\ wall_tiles'[h.slot].player \in {"opening", "attached"}
  <2> TAKE h \in wall_opens'
  <2> SUFFICES ASSUME ~h.cancelled
               PROVE  Plays(h.slot, h.cam)'
                        /\ wall_tiles'[h.slot].player \in {"opening", "attached"}
    OBVIOUS
  <2>1. h \in wall_opens /\ h.slot \notin S /\ h.slot \in Places  BY DEF Works
  <2>2. Plays(h.slot, h.cam) /\ wall_tiles[h.slot].player \in {"opening", "attached"}
    BY <2>1 DEF Played
  <2>3. wall_tiles'[h.slot] = wall_tiles[h.slot]  BY <2>1, <2>2 DEF Plays
  <2> QED  BY <2>2, <2>3 DEF Plays
<1>3. \A k \in wall_live' : Plays(k.slot, k.cam)' /\ wall_tiles'[k.slot].player = "attached"
  <2> TAKE k \in wall_live'
  <2>1. k \in wall_live /\ k.slot \notin S /\ k.slot \in Places  BY DEF Played, Players
  <2>2. Plays(k.slot, k.cam) /\ wall_tiles[k.slot].player = "attached"  BY <2>1 DEF Played
  <2>3. wall_tiles'[k.slot] = wall_tiles[k.slot]  BY <2>1, <2>2 DEF Plays
  <2> QED  BY <2>2, <2>3 DEF Plays
<1> QED  BY <1>1, <1>2, <1>3 DEF Played

(* Releasing the slots whose tiles change keeps every connection owned.    *)
LEMMA Released ==
  ASSUME Played, NEW S, wall_opens' = Wall!Cancel(wall_opens, S), wall_live' = Wall!Closed(S),
         \A s \in Places \ S :
            wall_tiles[s].visible /\ wall_tiles[s].manifest = "playable"
              => wall_tiles'[s] = wall_tiles[s]
  PROVE  Played'
<1>1. /\ wall_opens' \subseteq Works
      /\ \A h \in wall_opens' : h.cancelled \/ (h \in wall_opens /\ h.slot \notin S)
  BY CancelKeeps DEF Played
<1>2. \A k \in wall_live' : k \in wall_live /\ k.slot \notin S  BY DEF Wall!Closed
<1> QED  BY <1>1, <1>2, Kept

(* A freshly mounted tile is neither visible nor loading.                  *)
LEMMA PlacedTile ==
  ASSUME NEW c \in Wall!Cameras \cup {NA}
  PROVE  LET t == [Wall!NoTile EXCEPT !.cam = c]
         IN  /\ t \in Tile /\ t.cam = c
             /\ ~t.visible /\ t.manifest = "none"
BY DEF Wall!NoTile, Tile

(* A tile that keeps slot and camera stays; any other starts afresh.       *)
LEMMA RemountsTiles ==
  ASSUME Shown, NEW l \in ShownLayouts
  PROVE  /\ Wall!Mounted(l) \in [Places -> Tile] /\ Wall!Mounted(l)[0] = Wall!NoTile
         /\ \A s \in Places : /\ \/ Wall!Mounted(l)[s] = wall_tiles[s]
                                 \/ ~Wall!Mounted(l)[s].visible
                                      /\ Wall!Mounted(l)[s].manifest = "none"
                              /\ wall_tiles[s].cam # NA
                                   /\ Wall!Mounted(l)[s].cam = wall_tiles[s].cam
                                   => Wall!Mounted(l)[s] = wall_tiles[s]
<1>1. DOMAIN wall_tiles = Places /\ 0 \in Places  BY DEF Shown, Places
<1>2. DOMAIN Wall!Mounted(l) = Places  BY <1>1 DEF Wall!Mounted
<1>3. Wall!Mounted(l)[0] = Wall!NoTile  BY <1>1 DEF Wall!Mounted
<1>4. ASSUME NEW s \in Places, s # 0
      PROVE  /\ Wall!Mounted(l)[s] \in Tile
             /\ \/ Wall!Mounted(l)[s] = wall_tiles[s]
                \/ ~Wall!Mounted(l)[s].visible /\ Wall!Mounted(l)[s].manifest = "none"
             /\ wall_tiles[s].cam # NA /\ Wall!Mounted(l)[s].cam = wall_tiles[s].cam
                  => Wall!Mounted(l)[s] = wall_tiles[s]
  <2> DEFINE c == IF s \in DOMAIN l THEN l[s] ELSE NA
  <2>1. c \in Wall!Cameras \cup {NA}  BY DEF ShownLayouts
  <2>2. CASE s \in DOMAIN l /\ wall_tiles[s].cam = l[s]
    <3>1. Wall!Mounted(l)[s] = wall_tiles[s]  BY <1>1, <1>4, <2>2 DEF Wall!Mounted
    <3> QED  BY <3>1 DEF Shown
  <2>3. CASE ~(s \in DOMAIN l /\ wall_tiles[s].cam = l[s])
    <3>1. Wall!Mounted(l)[s] = [Wall!NoTile EXCEPT !.cam = c]
      BY <1>1, <1>4, <2>3 DEF Wall!Mounted
    <3>2. wall_tiles[s].cam # NA => wall_tiles[s].cam # c  BY <2>3
    <3> HIDE DEF c
    <3> QED  BY <2>1, <3>1, <3>2, PlacedTile
  <2> QED  BY <2>2, <2>3
<1>5. \A s \in Places : Wall!Mounted(l)[s] \in Tile  BY <1>3, <1>4, NoPlace
<1>6. Wall!Mounted(l) \in [Places -> Tile]
  <2>1. Wall!Mounted(l) = [s \in Places |-> Wall!Mounted(l)[s]]  BY <1>1 DEF Wall!Mounted
  <2> QED  BY <1>5, <2>1
<1> QED  BY <1>3, <1>4, <1>6, NoPlace

(* An edit closes the connections of the tiles it unmounts.                *)
LEMMA EditsTiles ==
  ASSUME PlayInv, PaneInv, NEW l \in ShownLayouts, Wall!SetLayout(l)
  PROVE  PlayInv' /\ PaneInv'
<1> DEFINE gone == {s \in DOMAIN wall_tiles : Wall!Mounted(l)[s].cam # wall_tiles[s].cam}
<1>0. Shown /\ Played /\ DOMAIN wall_tiles = Places /\ 0 \in Places  BY DEF PlayInv, Shown, Places
<1>1. wall_tiles' = Wall!Mounted(l) /\ wall_opens' = Wall!Cancel(wall_opens, gone)
        /\ wall_live' = Wall!Closed(gone)
  BY DEF Wall!SetLayout, Wall!Remount
<1>2. wall_page # "away" /\ wall_tiles[0].cam = NA /\ wall_pane = Wall!NoPane
        /\ UNCHANGED <<wall_page, Wall!whep>>
  BY DEF Wall!SetLayout
<1>3. Shown'
  <2>1. \A s \in Places : /\ wall_tiles'[s].visible => wall_tiles'[s].cam # NA
                          /\ wall_tiles'[s].manifest = "loading" => wall_tiles'[s].visible
    BY <1>0, <1>1, RemountsTiles DEF Shown
  <2>2. wall_tiles'[0] = Wall!NoTile /\ wall_tiles' \in [Places -> Tile]
    BY <1>0, <1>1, RemountsTiles
  <2> QED  BY <1>0, <1>2, <2>1, <2>2, NoPlace DEF Shown
<1>4. \A s \in Places \ gone :
         wall_tiles[s].visible /\ wall_tiles[s].manifest = "playable"
           => wall_tiles'[s] = wall_tiles[s]
  BY <1>0, <1>1, RemountsTiles DEF Shown
<1>5. Played'
  <2> HIDE DEF gone
  <2> QED  BY <1>0, <1>1, <1>4, Released
<1>6. UNCHANGED <<wall_pane, wall_negs, wall_sessions, wall_late, wall_views>>
  BY <1>2 DEF Wall!whep
<1>7. wall_tiles'[0].cam = NA /\ wall_tiles'[0].manifest # "loading"
  BY <1>0, <1>1, RemountsTiles, NoPlace
<1>8. PaneInv'
  BY <1>2, <1>6, <1>7 DEF PaneInv
<1> QED  BY <1>3, <1>5, <1>8 DEF PlayInv

(* A tile of the grid scrolls in or out: nothing else moves.               *)
LEMMA GridTile ==
  ASSUME Shown, PaneInv, NEW s \in Wall!Slots, wall_tiles[0].cam = NA \/ wall_tiles[s].cam # NA,
         NEW t \in Tile, t.cam = wall_tiles[s].cam, t.cam # NA,
         t.manifest = "loading" => t.visible,
         wall_tiles' = [wall_tiles EXCEPT ![s] = t], wall_page # "away",
         UNCHANGED <<wall_page, Wall!whep>>
  PROVE  Shown' /\ PaneInv' /\ \A x \in Places \ {s} : wall_tiles'[x] = wall_tiles[x]
<1>1. s # 0 /\ s \in Places /\ 0 \in Places /\ wall_tiles[0].cam = NA
  BY SlotsStartAtOne, NoPlace DEF Places, Shown
<1>2. \A x \in Places : wall_tiles'[x] = IF x = s THEN t ELSE wall_tiles[x]  BY DEF Shown
<1>3. wall_tiles' \in [Places -> Tile]  BY DEF Shown
<1>4. Shown'  BY <1>1, <1>2, <1>3 DEF Shown
<1>5. wall_tiles'[0] = wall_tiles[0]  BY <1>1, <1>2
<1>6. UNCHANGED <<wall_pane, wall_negs, wall_sessions, wall_late, wall_views>>  BY DEF Wall!whep
<1>7. PaneInv'  BY <1>5, <1>6 DEF PaneInv
<1> QED  BY <1>2, <1>4, <1>7

(* A tile that scrolls in waits for its manifest; out, it is released.     *)
LEMMA ScrollsTiles ==
  ASSUME PlayInv, PaneInv, NEW s \in Wall!Slots, Wall!ScrollIn(s) \/ Wall!ScrollOut(s)
  PROVE  PlayInv' /\ PaneInv'
<1>0. Shown /\ Played /\ wall_tiles \in [Places -> Tile] /\ s \in Places /\ wall_tiles[s] \in Tile
  BY DEF PlayInv, Shown, Places
<1>1. CASE Wall!ScrollIn(s)
  <2> DEFINE t == [[wall_tiles[s] EXCEPT !.visible = TRUE] EXCEPT !.manifest = "loading"]
  <2>1. t \in Tile /\ t.cam = wall_tiles[s].cam /\ t.visible  BY <1>0 DEF Tile
  <2>2. wall_tiles' = [wall_tiles EXCEPT ![s] = t]  BY <1>0, <1>1 DEF Wall!ScrollIn
  <2>3. /\ wall_page # "away" /\ wall_tiles[0].cam = NA /\ wall_tiles[s].cam # NA
        /\ ~wall_tiles[s].visible /\ UNCHANGED <<wall_opens, wall_live>>
             /\ UNCHANGED <<wall_page, Wall!whep>>
    BY <1>1 DEF Wall!ScrollIn
  <2> HIDE DEF t
  <2>4. Shown' /\ PaneInv' /\ \A x \in Places \ {s} : wall_tiles'[x] = wall_tiles[x]
    BY <1>0, <2>1, <2>2, <2>3, GridTile
  <2>5. \A h \in wall_opens' : h.cancelled \/ (h \in wall_opens /\ h.slot \notin {s})
    BY <1>0, <2>3 DEF Played, Plays
  <2>6. \A k \in wall_live' : k \in wall_live /\ k.slot \notin {s}
    BY <1>0, <2>3 DEF Played, Plays
  <2>7. wall_opens' \subseteq Works  BY <1>0, <2>3 DEF Played
  <2>8. Played'  BY <1>0, <2>3, <2>4, <2>5, <2>6, <2>7, Kept
  <2> QED  BY <2>4, <2>8 DEF PlayInv
<1>2. CASE Wall!ScrollOut(s)
  <2> DEFINE t == Wall!Stopped(s)
  <2>1. t \in Tile /\ t.cam = wall_tiles[s].cam /\ t.manifest = "none"
    BY <1>0 DEF Tile, Wall!Stopped
  <2>2. /\ wall_page # "away" /\ wall_tiles[s].visible
             /\ wall_tiles' = [wall_tiles EXCEPT ![s] = t]
        /\ wall_opens' = Wall!Cancel(wall_opens, {s}) /\ wall_live' = Wall!Closed({s})
             /\ UNCHANGED <<wall_page, Wall!whep>>
    BY <1>2 DEF Wall!ScrollOut
  <2>3. wall_tiles[s].cam # NA  BY <1>0, <2>2 DEF Shown
  <2> HIDE DEF t
  <2>4. Shown' /\ PaneInv' /\ \A x \in Places \ {s} : wall_tiles'[x] = wall_tiles[x]
    BY <1>0, <2>1, <2>2, <2>3, GridTile
  <2>5. Played'  BY <1>0, <2>2, <2>4, Released
  <2> QED  BY <2>4, <2>5 DEF PlayInv
<1> QED  BY <1>1, <1>2

(* The tile after its manifest was read: m is NA when the camera is gone.  *)
(* A tile whose manifest is read opens at most one player.                 *)
LEMMA LoadsTile ==
  ASSUME PlayInv, PaneInv, NEW s \in Places, wall_tiles[s].manifest = "loading",
         NEW ok \in BOOLEAN,
         wall_tiles' = [wall_tiles EXCEPT ![s].manifest = IF ok THEN "playable" ELSE "reason",
                                ![s].player = IF ok THEN "opening" ELSE "off"],
         wall_opens' = IF ok THEN wall_opens \cup {Wall!Work(s, wall_tiles[s].cam)}
           ELSE wall_opens,
         UNCHANGED <<wall_page, wall_live>>
  PROVE  /\ PlayInv' /\ wall_tiles'[s].manifest # "loading"
         /\ wall_tiles'[s].cam = wall_tiles[s].cam /\ wall_tiles[s].cam \in Wall!Cameras
         /\ s # 0 => wall_tiles'[0] = wall_tiles[0]
<1> DEFINE t == [[wall_tiles[s] EXCEPT !.manifest = IF ok THEN "playable" ELSE "reason"]
                    EXCEPT !.player = IF ok THEN "opening" ELSE "off"]
<1>0. Shown /\ Played /\ wall_tiles \in [Places -> Tile] /\ wall_tiles[s] \in Tile /\ 0 \in Places
  BY DEF PlayInv, Shown, Places
<1>1. wall_tiles' = [wall_tiles EXCEPT ![s] = t]  BY <1>0
<1>2. /\ t \in Tile /\ t.cam = wall_tiles[s].cam /\ t.visible = wall_tiles[s].visible
      /\ t.manifest = IF ok THEN "playable" ELSE "reason"
      /\ t.player = IF ok THEN "opening" ELSE "off"
  BY <1>0 DEF Tile
<1>3. wall_tiles[s].visible /\ wall_tiles[s].cam # NA /\ wall_tiles[s] # Wall!NoTile
  BY <1>0, NoPlace DEF Shown
<1>4. wall_tiles[s].cam \in Wall!Cameras  BY <1>0, <1>3 DEF Tile
<1>5. wall_page # "away" /\ (wall_tiles[0].cam # NA => s = 0)
  BY <1>0, <1>3 DEF Shown, Places
<1> HIDE DEF t
<1>6. \A x \in Places : wall_tiles'[x] = IF x = s THEN t ELSE wall_tiles[x]  BY <1>0, <1>1
<1>7. wall_tiles' \in [Places -> Tile]  BY <1>0, <1>1, <1>2
<1>8. Shown'
  <2>1. \A x \in Places : /\ wall_tiles'[x].visible => wall_tiles'[x].cam # NA
                          /\ wall_tiles'[x].manifest = "loading" => wall_tiles'[x].visible
    BY <1>0, <1>2, <1>3, <1>6 DEF Shown
  <2>2. wall_tiles'[0].cam # NA => \A x \in Wall!Slots : wall_tiles'[x] = Wall!NoTile
    BY <1>0, <1>2, <1>3, <1>5, <1>6, SlotsStartAtOne DEF Shown, Places
  <2> QED  BY <1>0, <1>5, <1>7, <2>1, <2>2 DEF Shown
<1>9. Played'
  <2>1. \A h \in wall_opens : h.cancelled \/ h.slot # s  BY <1>0 DEF Played, Plays
  <2>2. \A k \in wall_live : k.slot # s  BY <1>0 DEF Played, Plays
  <2>3. wall_live' \subseteq Players /\ \A k \in wall_live' : Plays(k.slot, k.cam)'
          /\ wall_tiles'[k.slot].player = "attached"
    BY <1>0, <1>6, <2>2 DEF Played, Plays, Players
  <2>4. \A h \in wall_opens : h.cancelled \/ /\ Plays(h.slot, h.cam)'
                                             /\ wall_tiles'[h.slot].player \in {"opening", "attached"}
    BY <1>0, <1>6, <2>1 DEF Played, Plays, Works
  <2>5. /\ Wall!Work(s, wall_tiles[s].cam) \in Works
        /\ Wall!Work(s, wall_tiles[s].cam).slot = s
             /\ Wall!Work(s, wall_tiles[s].cam).cam = wall_tiles[s].cam
    BY <1>4 DEF Wall!Work, Works
  <2>6. CASE ok
    <3>0. PICK v : v = Wall!Work(s, wall_tiles[s].cam)  OBVIOUS
    <3>1. wall_opens' = wall_opens \cup {v}  BY <2>6, <3>0
    <3>2. wall_tiles'[s] = t /\ v.slot = s /\ v.cam = t.cam  BY <1>2, <1>6, <2>5, <3>0
    <3>3. Plays(v.slot, v.cam)' /\ wall_tiles'[v.slot].player \in {"opening", "attached"}
      BY <1>2, <1>3, <2>6, <3>2 DEF Plays
    <3>4. wall_opens' \subseteq Works  BY <1>0, <2>5, <3>0, <3>1 DEF Played
    <3> QED  BY <2>3, <2>4, <3>1, <3>3, <3>4 DEF Played
  <2>7. CASE ~ok
    <3>1. wall_opens' = wall_opens  BY <2>7
    <3> QED  BY <1>0, <2>3, <2>4, <3>1 DEF Played
  <2> QED  BY <2>6, <2>7
<1>10. wall_tiles'[s].manifest # "loading"  BY <1>2, <1>6
<1>11. s # 0 => wall_tiles'[0] = wall_tiles[0]  BY <1>0, <1>6
<1>12. wall_tiles'[s].cam = wall_tiles[s].cam  BY <1>2, <1>6
<1> QED  BY <1>4, <1>8, <1>9, <1>10, <1>11, <1>12 DEF PlayInv

(* The manifest of slot 0 may also start a WHEP negotiation.               *)
LEMMA LoadsManifest ==
  ASSUME PlayInv, PaneInv, NEW s \in DOMAIN wall_tiles, Wall!LoadManifest(s)
  PROVE  PlayInv' /\ PaneInv'
<1>0. s \in Places /\ wall_tiles[s].manifest = "loading" /\ 0 \in Places
  BY DEF Wall!LoadManifest, PlayInv, Shown, Places
<1>1. PICK m : Wall!Loaded(s, m)  BY DEF Wall!LoadManifest
<1>2. UNCHANGED <<wall_page, wall_live, wall_sessions, wall_late, wall_views>>
  BY DEF Wall!LoadManifest
<1>3. \E ok \in BOOLEAN :
        /\ wall_tiles' = [wall_tiles EXCEPT ![s].manifest = IF ok THEN "playable" ELSE "reason",
                                  ![s].player = IF ok THEN "opening" ELSE "off"]
        /\ wall_opens' = IF ok THEN wall_opens \cup {Wall!Work(s, wall_tiles[s].cam)}
             ELSE wall_opens
  <2>1. CASE Wall!Playable(m)
    <3>1. /\ wall_tiles' = [wall_tiles EXCEPT ![s].manifest = "playable", ![s].player = "opening"]
          /\ wall_opens' = wall_opens \cup {Wall!Work(s, wall_tiles[s].cam)}
      BY <1>1, <2>1 DEF Wall!Loaded
    <3> QED  BY <3>1
  <2>2. CASE ~Wall!Playable(m)
    <3>1. /\ wall_tiles' = [wall_tiles EXCEPT ![s].manifest = "reason", ![s].player = "off"]
          /\ wall_opens' = wall_opens
      BY <1>1, <2>2 DEF Wall!Loaded
    <3> QED  BY <3>1
  <2> QED  BY <2>1, <2>2
<1>5. /\ PlayInv' /\ wall_tiles'[s].manifest # "loading"
      /\ wall_tiles'[s].cam = wall_tiles[s].cam /\ wall_tiles[s].cam \in Wall!Cameras
      /\ s # 0 => wall_tiles'[0] = wall_tiles[0]
  BY <1>0, <1>2, <1>3, LoadsTile
<1>6. CASE UNCHANGED <<wall_pane, wall_negs>>
  <2>1. wall_tiles[0].cam = wall_tiles'[0].cam  BY <1>5
  <2>2. wall_tiles'[0].manifest = "loading" => wall_tiles[0].manifest = "loading"  BY <1>5
  <2> QED  BY <1>2, <1>5, <1>6, <2>1, <2>2 DEF PaneInv
<1>7. CASE /\ s = 0
           /\ wall_pane' = [cam |-> wall_tiles[s].cam, view |-> wall_views, resource |-> FALSE]
           /\ wall_negs' = wall_negs \cup {[view |-> wall_views, stage |-> "offer", cancelled |-> FALSE]}
  <2> DEFINE o == [view |-> wall_views, stage |-> "offer", cancelled |-> FALSE]
  <2>1. wall_tiles[0].cam # NA /\ wall_tiles'[0].cam # NA /\ wall_tiles'[0].manifest # "loading"
    BY <1>5, <1>7, CameraIsNoNA
  <2>2. wall_views \in 1..MaxOpens /\ wall_pane = Wall!NoPane /\ wall_pane.view = 0
          /\ MaxOpens \in Nat
    BY <1>0, <1>7, <2>1, WallConstants DEF PaneInv, Wall!NoPane, Wall!WallAssumption
  <2>3. /\ o \in Negs /\ o.view = wall_views /\ ~o.cancelled /\ o.stage = "offer"
        /\ wall_negs' = wall_negs \cup {o}
    BY <1>7, <2>2 DEF Negs
  <2>4. wall_pane' \in [cam : Wall!Cameras \cup {NA}, view : 0..wall_views, resource : BOOLEAN]
        /\ wall_pane'.view = wall_views
    BY <1>5, <1>7, <2>2
  <2> HIDE DEF o
  <2>5. \A n \in wall_negs : n.cancelled /\ n.view # wall_views
          /\ (n.stage = "offer" \/ n.view \in wall_late)
                        /\ n.view <= wall_views
    BY <1>0, <1>7, <2>2 DEF PaneInv, Negs
  <2>6. \A n \in wall_negs' : /\ n.view <= wall_views'
                              /\ n.cancelled <=> n.view # wall_pane'.view
                              /\ n.stage = "offer" \/ n.view = wall_pane'.view
                                   \/ n.view \in wall_late'
    BY <1>2, <2>2, <2>3, <2>4, <2>5
  <2>7. \A x \in wall_sessions : x \in wall_late  BY <2>2 DEF PaneInv
  <2>8. wall_negs' \subseteq Negs  BY <2>3 DEF PaneInv
  <2> QED  BY <1>2, <1>5, <2>1, <2>2, <2>4, <2>6, <2>7, <2>8 DEF PaneInv
<1>8. (s = 0 /\ wall_tiles[s].cam \in Whep) \/ (m # NA => UNCHANGED <<wall_pane, wall_negs>>)
  BY <1>1 DEF Wall!Loaded, Wall!StartPane
<1>9. CASE m # NA /\ s = 0 /\ wall_tiles[s].cam \in Whep
  BY <1>1, <1>7, <1>9 DEF Wall!Loaded, Wall!StartPane
<1>10. m = NA => UNCHANGED <<wall_pane, wall_negs>>  BY <1>1 DEF Wall!Loaded
<1> QED  BY <1>5, <1>6, <1>8, <1>9, <1>10

(* An imported player module connects only a tile that still waits.        *)
LEMMA OpensPlayer ==
  ASSUME PlayInv, PaneInv, NEW h \in wall_opens, Wall!OpenPlayer(h)
  PROVE  PlayInv' /\ PaneInv'
<1>0. /\ Shown /\ Played /\ wall_tiles \in [Places -> Tile] /\ 0 \in Places
      /\ h \in Works /\ wall_opens \subseteq Works
  BY DEF PlayInv, Played, Shown, Places
<1>1. wall_opens' = wall_opens \ {h} /\ UNCHANGED <<wall_page, Wall!whep>>  BY DEF Wall!OpenPlayer
<1>2. UNCHANGED <<wall_pane, wall_negs, wall_sessions, wall_late, wall_views>>
  BY <1>1 DEF Wall!whep
<1>3. CASE h.cancelled
  <2>1. UNCHANGED <<wall_page, wall_tiles, wall_live>>  BY <1>1, <1>3 DEF Wall!OpenPlayer
  <2>2. Shown'  BY <1>0, <2>1 DEF Shown
  <2>3. Played'  BY <1>0, <1>1, <2>1 DEF Played, Plays
  <2>4. PaneInv'  BY <1>2, <2>1 DEF PaneInv
  <2> QED  BY <2>2, <2>3, <2>4 DEF PlayInv
<1>4. CASE ~h.cancelled
  <2> DEFINE s == h.slot
             t == [wall_tiles[s] EXCEPT !.player = "attached"]
             k == [slot |-> h.slot, cam |-> h.cam]
  <2>1. s \in Places /\ wall_tiles[s] \in Tile  BY <1>0 DEF Works
  <2>2. wall_tiles' = [wall_tiles EXCEPT ![s] = t] /\ wall_live' = wall_live \cup {k}
    BY <1>4 DEF Wall!OpenPlayer
  <2>3. /\ t \in Tile /\ t.cam = wall_tiles[s].cam /\ t.visible = wall_tiles[s].visible
        /\ t.manifest = wall_tiles[s].manifest /\ t.player = "attached"
    BY <2>1 DEF Tile
  <2>4. wall_tiles[s].cam = h.cam /\ wall_tiles[s].visible /\ wall_tiles[s].manifest = "playable"
    BY <1>0, <1>4 DEF Played, Plays
  <2>5. k \in Players /\ k.slot = s /\ k.cam = h.cam  BY <1>0 DEF Works, Players
  <2>6. PICK u, v, p : u = s /\ v = t /\ p = k  OBVIOUS
  <2> HIDE DEF s, t, k
  <2>7. wall_tiles' = [wall_tiles EXCEPT ![u] = v] /\ wall_live' = wall_live \cup {p}
    BY <2>2, <2>6
  <2>8. /\ u \in Places /\ v \in Tile /\ v.cam = wall_tiles[u].cam /\ v.visible
             /\ wall_tiles[u].visible
        /\ v.manifest = "playable" /\ wall_tiles[u].manifest = "playable"
        /\ v.player = "attached" /\ p \in Players /\ p.slot = u /\ p.cam = v.cam
    BY <2>1, <2>3, <2>4, <2>5, <2>6
  <2>9. \A x \in Places : wall_tiles'[x] = IF x = u THEN v ELSE wall_tiles[x]  BY <1>0, <2>7, <2>8
  <2>10. wall_tiles' \in [Places -> Tile]  BY <1>0, <2>7, <2>8
  <2>11. wall_tiles[0].cam # NA => u = 0
    BY <1>0, <2>8, NoPlace DEF Shown, Places
  <2>12. wall_page # "away"  BY <1>0, <2>8, NoPlace DEF Shown
  <2>13. Shown'
    <3>1. \A x \in Places : /\ wall_tiles'[x].visible => wall_tiles'[x].cam # NA
                            /\ wall_tiles'[x].manifest = "loading" => wall_tiles'[x].visible
      BY <1>0, <2>8, <2>9 DEF Shown
    <3>2. wall_tiles'[0].cam # NA => \A x \in Wall!Slots : wall_tiles'[x] = Wall!NoTile
      BY <1>0, <2>8, <2>9, <2>11, SlotsStartAtOne DEF Shown, Places
    <3> QED  BY <1>0, <1>1, <2>10, <2>12, <3>1, <3>2 DEF Shown
  <2>14. Played'
    <3>1. \A x \in wall_opens' : x.cancelled \/ /\ Plays(x.slot, x.cam)'
                                                /\ wall_tiles'[x.slot].player \in {"opening", "attached"}
      BY <1>0, <1>1, <2>8, <2>9 DEF Played, Plays, Works
    <3>2. \A x \in wall_live : Plays(x.slot, x.cam)' /\ wall_tiles'[x.slot].player = "attached"
      BY <1>0, <2>8, <2>9 DEF Played, Plays, Players
    <3>3. Plays(p.slot, p.cam)' /\ wall_tiles'[p.slot].player = "attached"
      BY <2>8, <2>9 DEF Plays
    <3> QED  BY <1>0, <1>1, <2>7, <2>8, <3>1, <3>2, <3>3 DEF Played
  <2>15. wall_tiles'[0].cam = wall_tiles[0].cam
           /\ (wall_tiles'[0].manifest = "loading" <=> wall_tiles[0].manifest = "loading")
    BY <1>0, <2>8, <2>9
  <2>16. PaneInv'  BY <1>2, <2>15 DEF PaneInv
  <2> QED  BY <2>13, <2>14, <2>16 DEF PlayInv
<1> QED  BY <1>3, <1>4

(* The single view unmounts the grid and everything it plays.              *)
LEMMA OpensSingle ==
  ASSUME PlayInv, PaneInv, NEW c \in Wall!Cameras, Wall!OpenSingle(c)
  PROVE  PlayInv' /\ PaneInv'
<1> DEFINE t == [Wall!NoTile EXCEPT !.cam = c, !.visible = TRUE, !.manifest = "loading"]
<1>0. Shown /\ Played /\ wall_tiles \in [Places -> Tile] /\ DOMAIN wall_tiles = Places
        /\ 0 \in Places
  BY DEF PlayInv, Shown, Places
<1>1. /\ wall_page # "away" /\ wall_tiles[0].cam = NA /\ wall_views < MaxOpens
           /\ wall_views' = wall_views + 1
      /\ wall_opens' = Wall!Cancel(wall_opens, Wall!Slots) /\ wall_live' = Wall!Closed(Wall!Slots)
      /\ wall_tiles' = [s \in DOMAIN wall_tiles |-> IF s = 0 THEN t ELSE Wall!NoTile]
      /\ UNCHANGED <<wall_page, wall_pane, wall_negs, wall_sessions, wall_late>>
  BY DEF Wall!OpenSingle
<1>2. t \in Tile /\ t.cam = c /\ t.visible /\ t.manifest = "loading"  BY DEF Wall!NoTile, Tile
<1> HIDE DEF t
<1>3. \A s \in Places : wall_tiles'[s] = IF s = 0 THEN t ELSE Wall!NoTile  BY <1>0, <1>1
<1>4. wall_tiles' \in [Places -> Tile]
  <2>1. \A s \in Places : (IF s = 0 THEN t ELSE Wall!NoTile) \in Tile  BY <1>2, NoPlace
  <2> QED  BY <1>0, <1>1, <2>1
<1>5. Shown'
  BY <1>0, <1>1, <1>2, <1>3, <1>4, NoPlace, SlotsStartAtOne, CameraIsNoNA DEF Shown, Places
<1>6. Played'
  <2>1. \A s \in Places \ Wall!Slots :
           wall_tiles[s].visible /\ wall_tiles[s].manifest = "playable"
             => wall_tiles'[s] = wall_tiles[s]
    BY <1>0, <1>1 DEF Shown, Places
  <2> QED  BY <1>0, <1>1, <2>1, Released
<1>7. PaneInv'
  <2>1. wall_pane = Wall!NoPane /\ MaxOpens \in Nat /\ wall_views \in 0..MaxOpens
    BY <1>1, WallConstants DEF PaneInv, Wall!WallAssumption
  <2>2. wall_views' \in 0..MaxOpens /\ wall_views' # 0  BY <1>1, <2>1
  <2>3. wall_pane' \in [cam : Wall!Cameras \cup {NA}, view : 0..wall_views', resource : BOOLEAN]
    BY <1>1, <2>1, <2>2 DEF Wall!NoPane
  <2>4. \A n \in wall_negs' : /\ n.view <= wall_views' /\ n.view # wall_views'
                              /\ n.cancelled <=> n.view # wall_pane'.view
                              /\ n.stage = "offer" \/ n.view = wall_pane'.view
                                   \/ n.view \in wall_late'
    BY <1>1, <2>1 DEF PaneInv, Negs
  <2>5. wall_pane' = Wall!NoPane  BY <1>1, <2>1
  <2> QED  BY <1>1, <2>2, <2>3, <2>4, <2>5 DEF PaneInv
<1> QED  BY <1>5, <1>6, <1>7 DEF PlayInv

(* When a pane ends, a session it cannot delete is one known to be late.   *)
LEMMA EndsPane ==
  ASSUME PaneInv, Wall!EndPane(wall_pane), wall_views' = wall_views, wall_tiles'[0].cam = NA,
    wall_tiles'[0].manifest # "loading"
  PROVE  PaneInv'
<1> DEFINE C(n) == [n EXCEPT !.cancelled = @ \/ n.view = wall_pane.view]
           L == {n.view : n \in {m \in wall_negs : m.view = wall_pane.view /\ m.stage # "offer"}}
<1>1. /\ wall_pane' = Wall!NoPane /\ wall_negs' = {C(n) : n \in wall_negs}
           /\ wall_late' = wall_late \cup L
      /\ wall_sessions' = IF wall_pane.resource THEN wall_sessions \ {wall_pane.view}
           ELSE wall_sessions
  BY DEF Wall!EndPane
<1>2. Wall!NoPane.view = 0
        /\ Wall!NoPane \in [cam : Wall!Cameras \cup {NA}, view : 0..wall_views, resource : BOOLEAN]
  BY WallConstants DEF Wall!NoPane, PaneInv, Wall!WallAssumption
<1>3. \A n \in wall_negs : C(n) \in Negs /\ C(n).cancelled /\ C(n).view = n.view
        /\ C(n).stage = n.stage
  <2> TAKE n \in wall_negs
  <2>1. /\ n = [view |-> n.view, stage |-> n.stage, cancelled |-> n.cancelled]
        /\ n.view \in 1..MaxOpens /\ n.stage \in {"offer", "sent", "made"}
             /\ n.cancelled \in BOOLEAN
    BY DEF PaneInv, Negs
  <2> DEFINE b == n.cancelled \/ n.view = wall_pane.view
  <2>2. C(n) = [n EXCEPT !.cancelled = b]  OBVIOUS
  <2>3. b = TRUE  BY <2>1 DEF PaneInv
  <2> HIDE DEF b, C
  <2>4. C(n) = [view |-> n.view, stage |-> n.stage, cancelled |-> TRUE]  BY <2>1, <2>2, <2>3
  <2> QED  BY <2>1, <2>4 DEF Negs
<1> HIDE DEF C
<1>4. wall_negs' \subseteq Negs /\ \A m \in wall_negs' : \E n \in wall_negs : m = C(n)
  BY <1>1, <1>3
<1>5. \A n \in wall_negs : n.stage # "offer" => n.view \in wall_late'
  <2> TAKE n \in wall_negs
  <2>1. n.stage # "offer" /\ n.view = wall_pane.view => n.view \in L  OBVIOUS
  <2> QED  BY <1>1, <2>1 DEF PaneInv
<1>6. wall_late' \subseteq 1..MaxOpens /\ wall_late \subseteq wall_late'
  BY <1>1 DEF PaneInv, Negs
<1>7. \A m \in wall_negs' : /\ m.view <= wall_views' /\ m.cancelled /\ m.view # wall_pane'.view
                            /\ m.stage = "offer" \/ m.view \in wall_late'
  <2> TAKE m \in wall_negs'
  <2>1. PICK n \in wall_negs : m = C(n)  BY <1>4
  <2>2. n.view \in 1..MaxOpens /\ n.view <= wall_views  BY DEF PaneInv, Negs
  <2> QED  BY <1>1, <1>2, <1>3, <1>5, <2>1, <2>2
<1>8. \A s \in wall_sessions' : s \in wall_late'
  <2> TAKE s \in wall_sessions'
  <2>1. s \in wall_sessions /\ ~(wall_pane.resource /\ s = wall_pane.view)  BY <1>1
  <2>2. CASE s \in wall_late  BY <1>6, <2>2
  <2>3. CASE s \notin wall_late
    <3>1. s = wall_pane.view /\ \E n \in wall_negs : n.view = s /\ n.stage = "made"
      BY <2>1, <2>3 DEF PaneInv
    <3> QED  BY <1>5, <3>1
  <2> QED  BY <2>2, <2>3
<1>9. wall_sessions' \subseteq 1..MaxOpens  BY <1>1 DEF PaneInv
<1>10. wall_views' \in 0..MaxOpens  BY DEF PaneInv
<1>11. wall_pane' \in [cam : Wall!Cameras \cup {NA}, view : 0..wall_views', resource : BOOLEAN]
  BY <1>1, <1>2
<1> QED  BY <1>1, <1>4, <1>6, <1>7, <1>8, <1>9, <1>10, <1>11 DEF PaneInv

(* Closing the single view ends its player and its pane.                   *)
LEMMA ClosesSingle ==
  ASSUME PlayInv, PaneInv, LayoutInv, Wall!CloseSingle
  PROVE  PlayInv' /\ PaneInv'
<1> DEFINE c(s) == IF s \in DOMAIN wall_layout THEN wall_layout[s] ELSE NA
<1>0. Shown /\ Played /\ wall_tiles \in [Places -> Tile] /\ DOMAIN wall_tiles = Places
        /\ 0 \in Places
  BY DEF PlayInv, Shown, Places
<1>1. /\ wall_page # "away" /\ wall_tiles[0].cam # NA
      /\ wall_tiles' = [s \in DOMAIN wall_tiles |-> [Wall!NoTile EXCEPT !.cam = c(s)]]
      /\ wall_opens' = Wall!Cancel(wall_opens, {0}) /\ wall_live' = Wall!Closed({0})
      /\ Wall!EndPane(wall_pane) /\ UNCHANGED <<wall_page, wall_views>>
  BY DEF Wall!CloseSingle
<1>2. \A s \in Places : c(s) \in Wall!Cameras \cup {NA}  BY DEF LayoutInv, ShownLayouts
<1>3. c(0) = NA
  <2>1. DOMAIN wall_layout = 1..Len(wall_layout)  BY ShownAre, LenProperties DEF LayoutInv
  <2> QED  BY <2>1
<1> HIDE DEF c
<1>4. \A s \in Places : /\ wall_tiles'[s] \in Tile /\ wall_tiles'[s].cam = c(s)
                        /\ ~wall_tiles'[s].visible /\ wall_tiles'[s].manifest = "none"
  BY <1>0, <1>1, <1>2, PlacedTile
<1>5. wall_tiles' \in [Places -> Tile]
  <2>1. wall_tiles' = [s \in Places |-> wall_tiles'[s]]  BY <1>0, <1>1
  <2> QED  BY <1>4, <2>1
<1>6. Shown'  BY <1>0, <1>1, <1>3, <1>4, <1>5 DEF Shown
<1>7. Played'
  <2>1. \A s \in Places \ {0} :
           wall_tiles[s].visible /\ wall_tiles[s].manifest = "playable"
             => wall_tiles'[s] = wall_tiles[s]
    BY <1>0, <1>1, NoPlace DEF Shown, Places
  <2> QED  BY <1>0, <1>1, <2>1, Released
<1>8. PaneInv'  BY <1>0, <1>1, <1>3, <1>4, EndsPane
<1> QED  BY <1>6, <1>7, <1>8 DEF PlayInv

(* Leaving the page ends every player and the pane.                        *)
LEMMA LeavesPage ==
  ASSUME PlayInv, PaneInv, Wall!Unmount
  PROVE  PlayInv' /\ PaneInv'
<1>0. Shown /\ Played /\ DOMAIN wall_tiles = Places /\ 0 \in Places
  BY DEF PlayInv, Shown, Places
<1>1. /\ wall_page' = "away" /\ wall_tiles' = [s \in DOMAIN wall_tiles |-> Wall!NoTile]
      /\ wall_opens' = Wall!Cancel(wall_opens, DOMAIN wall_tiles) /\ wall_live' = {}
      /\ Wall!EndPane(wall_pane) /\ UNCHANGED wall_views
  BY DEF Wall!Unmount
<1>2. wall_tiles' \in [Places -> Tile] /\ \A s \in Places : wall_tiles'[s] = Wall!NoTile
  BY <1>0, <1>1, NoPlace
<1>3. Shown'  BY <1>0, <1>1, <1>2, NoPlace DEF Shown, Places
<1>4. Played'
  <2>1. /\ wall_opens' \subseteq Works
        /\ \A h \in wall_opens' : h.cancelled \/ (h \in wall_opens /\ h.slot \notin Places)
    BY <1>0, <1>1, CancelKeeps DEF Played
  <2>2. \A h \in wall_opens' : h.cancelled  BY <2>1 DEF Works
  <2> QED  BY <1>1, <2>1, <2>2 DEF Played
<1>5. PaneInv'  BY <1>0, <1>1, <1>2, NoPlace, EndsPane
<1> QED  BY <1>3, <1>4, <1>5 DEF PlayInv

(* A click that navigates away closes every player there is.               *)
LEMMA ClosesAll ==
  ASSUME PlayInv, PaneInv, Wall!CloseAllConnections
  PROVE  PlayInv' /\ PaneInv'
<1> DEFINE running == {s \in DOMAIN wall_tiles : Wall!Player(s) \in {"opening", "attached"}}
           t(s) == [wall_tiles[s] EXCEPT !.player = IF s \in running THEN "closed" ELSE @]
<1>0. Shown /\ Played /\ wall_tiles \in [Places -> Tile] /\ DOMAIN wall_tiles = Places
        /\ 0 \in Places
  BY DEF PlayInv, Shown, Places
<1>1. /\ wall_page = "wall" /\ wall_page' = "leaving"
           /\ wall_tiles' = [s \in DOMAIN wall_tiles |-> t(s)]
      /\ wall_opens' = Wall!Cancel(wall_opens, running) /\ wall_live' = Wall!Closed(running)
      /\ UNCHANGED Wall!whep
  BY DEF Wall!CloseAllConnections
<1>2. \A s \in Places : /\ t(s) \in Tile /\ t(s).cam = wall_tiles[s].cam
                        /\ t(s).visible = wall_tiles[s].visible
                             /\ t(s).manifest = wall_tiles[s].manifest
                        /\ s \notin running => t(s) = wall_tiles[s]
  <2> TAKE s \in Places
  <2>1. wall_tiles[s] \in Tile  BY <1>0
  <2>2. CASE s \in running
    <3>1. t(s) = [wall_tiles[s] EXCEPT !.player = "closed"]  BY <2>2
    <3> QED  BY <2>1, <2>2, <3>1 DEF Tile
  <2>3. CASE s \notin running
    <3>1. t(s) = wall_tiles[s]  BY <2>1, <2>3 DEF Tile
    <3> QED  BY <2>1, <3>1
  <2> QED  BY <2>2, <2>3
<1>3. \A s \in Places : Wall!NoTile = wall_tiles[s] => s \notin running
  BY NoPlace DEF Wall!Player
<1> HIDE DEF t, running
<1>4. wall_tiles' \in [Places -> Tile] /\ \A s \in Places : wall_tiles'[s] = t(s)
  BY <1>0, <1>1, <1>2
<1>5. Shown'
  <2>1. wall_tiles'[0].cam # NA => \A s \in Wall!Slots : wall_tiles'[s] = Wall!NoTile
    BY <1>0, <1>2, <1>3, <1>4 DEF Shown, Places
  <2> QED  BY <1>0, <1>1, <1>2, <1>4, <2>1 DEF Shown
<1>6. Played'  BY <1>0, <1>1, <1>2, <1>4, Released
<1>7. UNCHANGED <<wall_pane, wall_negs, wall_sessions, wall_late, wall_views>>
  BY <1>1 DEF Wall!whep
<1>8. wall_tiles'[0].cam = wall_tiles[0].cam /\ wall_tiles'[0].manifest = wall_tiles[0].manifest
  BY <1>0, <1>2, <1>4
<1>9. PaneInv'  BY <1>7, <1>8 DEF PaneInv
<1> QED  BY <1>5, <1>6, <1>9 DEF PlayInv

(* The tiles of a page just opened are neither visible nor loading.        *)
LEMMA FirstTiles ==
  ASSUME NEW l \in ShownLayouts
  PROVE  /\ Wall!Tiles(l) \in [Places -> Tile] /\ Wall!Tiles(l)[0].cam = NA
         /\ \A s \in Places : ~Wall!Tiles(l)[s].visible /\ Wall!Tiles(l)[s].manifest = "none"
<1> DEFINE c(s) == IF s \in DOMAIN l THEN l[s] ELSE NA
<1>1. \A s \in Places : c(s) \in Wall!Cameras \cup {NA}  BY DEF ShownLayouts
<1>2. DOMAIN l = 1..Len(l) /\ 0 \in Places  BY ShownAre, LenProperties DEF Places
<1>3. c(0) = NA  BY <1>2
<1>4. Wall!Tiles(l) = [s \in Places |-> [Wall!NoTile EXCEPT !.cam = c(s)]]
  BY DEF Wall!Tiles, Places
<1> HIDE DEF c
<1>5. \A s \in Places : /\ Wall!Tiles(l)[s] \in Tile /\ Wall!Tiles(l)[s].cam = c(s)
                        /\ ~Wall!Tiles(l)[s].visible /\ Wall!Tiles(l)[s].manifest = "none"
  <2> TAKE s \in Places
  <2>1. Wall!Tiles(l)[s] = [Wall!NoTile EXCEPT !.cam = c(s)] /\ c(s) \in Wall!Cameras \cup {NA}
    BY <1>1, <1>4
  <2> QED  BY <2>1, PlacedTile
<1>6. Wall!Tiles(l) \in [Places -> Tile]
  <2>1. Wall!Tiles(l) = [s \in Places |-> Wall!Tiles(l)[s]]  BY <1>4
  <2> QED  BY <1>5, <2>1
<1> QED  BY <1>2, <1>3, <1>5, <1>6

(* The page opens with nothing playing.                                    *)
LEMMA EntersPage ==
  ASSUME PlayInv, PaneInv, LayoutInv, Wall!Enter
  PROVE  PlayInv' /\ PaneInv'
<1>0. Shown /\ Played /\ DOMAIN wall_tiles = Places /\ 0 \in Places
  BY DEF PlayInv, Shown, Places
<1>1. /\ wall_page = "away" /\ wall_page' = "wall"
           /\ wall_tiles' = Wall!Tiles(Wall!Load(wall_stored))
      /\ UNCHANGED <<wall_opens, wall_live>> /\ UNCHANGED Wall!whep
  BY DEF Wall!Enter
<1>2. Wall!Load(wall_stored) \in ShownLayouts  BY LoadShown DEF LayoutInv
<1>3. /\ wall_tiles' \in [Places -> Tile] /\ wall_tiles'[0].cam = NA
      /\ \A s \in Places : ~wall_tiles'[s].visible /\ wall_tiles'[s].manifest = "none"
  BY <1>1, <1>2, FirstTiles
<1>4. Shown'  BY <1>1, <1>3 DEF Shown
<1>5. \A s \in Places : wall_tiles[s] = Wall!NoTile  BY <1>0, <1>1 DEF Shown
<1>6. Played'
  <2>1. \A s \in Places : ~wall_tiles[s].visible  BY <1>5, NoPlace
  <2>2. \A h \in wall_opens : h.cancelled  BY <1>0, <2>1 DEF Played, Plays, Works
  <2>3. \A k \in wall_live : FALSE  BY <1>0, <2>1 DEF Played, Plays, Players
  <2> QED  BY <1>0, <1>1, <2>2, <2>3 DEF Played
<1>7. UNCHANGED <<wall_pane, wall_negs, wall_sessions, wall_late, wall_views>>
  BY <1>1 DEF Wall!whep
<1>8. wall_tiles[0].cam = NA /\ wall_tiles'[0].manifest # "loading"  BY <1>0, <1>3, <1>5, NoPlace
<1>9. PaneInv'  BY <1>3, <1>7, <1>8 DEF PaneInv
<1> QED  BY <1>4, <1>6, <1>9 DEF PlayInv

(* Steps that touch no tile and no player.                                 *)
LEMMA NothingPlays ==
  ASSUME PlayInv, UNCHANGED <<wall_page, Wall!playing>>
  PROVE  PlayInv'
BY DEF PlayInv, Shown, Played, Plays, Wall!playing

(* A cancelled negotiation makes no offer.                                 *)
LEMMA OffersSession ==
  ASSUME PlayInv, PaneInv, NEW n \in wall_negs, Wall!Offer(n)
  PROVE  PlayInv' /\ PaneInv'
<1>1. /\ n.stage = "offer" /\ UNCHANGED <<wall_page, Wall!playing>>
           /\ UNCHANGED <<wall_pane, wall_sessions, wall_late, wall_views>>
      /\ wall_negs' = (wall_negs \ {n}) \cup (IF n.cancelled THEN {} ELSE {[n EXCEPT !.stage = "sent"]})
  BY DEF Wall!Offer
<1>2. PlayInv' /\ wall_tiles' = wall_tiles  BY <1>1, NothingPlays DEF Wall!playing
<1> DEFINE m == [n EXCEPT !.stage = "sent"]
<1>3. m \in Negs /\ m.view = n.view /\ m.cancelled = n.cancelled /\ m.stage = "sent"
  BY DEF PaneInv, Negs
<1> HIDE DEF m
<1>4. wall_negs' \subseteq Negs /\ \A x \in wall_negs' : x \in wall_negs
        \/ (~n.cancelled /\ x = m)
  BY <1>1, <1>3 DEF PaneInv, m
<1>5. \A x \in wall_negs : x.stage = "made" => x \in wall_negs'  BY <1>1
<1>6. \A x \in wall_negs' : /\ x.view <= wall_views'
                            /\ x.cancelled <=> x.view # wall_pane'.view
                            /\ x.stage = "offer" \/ x.view = wall_pane'.view
                                 \/ x.view \in wall_late'
                            /\ wall_tiles'[0].manifest = "loading" => x.view # wall_views'
  BY <1>1, <1>2, <1>3, <1>4 DEF PaneInv
<1>7. \A s \in wall_sessions' :
        \/ s \in wall_late'
        \/ /\ s = wall_pane'.view
           /\ wall_pane'.resource \/ \E x \in wall_negs' : x.view = s /\ x.stage = "made"
  BY <1>1, <1>5 DEF PaneInv
<1> QED  BY <1>1, <1>2, <1>4, <1>6, <1>7 DEF PaneInv

(* A session the gateway makes is the pane's or comes late.                *)
LEMMA GatewaysAnswer ==
  ASSUME PlayInv, PaneInv, NEW n \in wall_negs, Wall!GatewayAnswers(n)
  PROVE  PlayInv' /\ PaneInv'
<1> DEFINE m == [n EXCEPT !.stage = "made"]
<1>1. /\ n.stage = "sent" /\ UNCHANGED <<wall_page, Wall!playing>>
           /\ UNCHANGED <<wall_pane, wall_late, wall_views>>
      /\ \/ wall_negs' = (wall_negs \ {n}) \cup {m}
              /\ wall_sessions' = wall_sessions \cup {n.view}
         \/ wall_negs' = wall_negs \ {n} /\ wall_sessions' = wall_sessions
  BY DEF Wall!GatewayAnswers
<1>2. PlayInv' /\ wall_tiles' = wall_tiles  BY <1>1, NothingPlays DEF Wall!playing
<1>3. m \in Negs /\ m.view = n.view /\ m.cancelled = n.cancelled /\ m.stage = "made"
  BY DEF PaneInv, Negs
<1> HIDE DEF m
<1>4. wall_negs' \subseteq Negs /\ \A x \in wall_negs' : x \in wall_negs \/ x = m
  BY <1>1, <1>3 DEF PaneInv
<1>5. \A x \in wall_negs : x.stage = "made" => x \in wall_negs'  BY <1>1
<1>6. n.view = wall_pane.view \/ n.view \in wall_late  BY <1>1 DEF PaneInv
<1>7. \A x \in wall_negs' : /\ x.view <= wall_views'
                            /\ x.cancelled <=> x.view # wall_pane'.view
                            /\ x.stage = "offer" \/ x.view = wall_pane'.view
                                 \/ x.view \in wall_late'
                            /\ wall_tiles'[0].manifest = "loading" => x.view # wall_views'
  BY <1>1, <1>2, <1>3, <1>4, <1>6 DEF PaneInv
<1>8. \A s \in wall_sessions :
        \/ s \in wall_late'
        \/ /\ s = wall_pane'.view
           /\ wall_pane'.resource \/ \E x \in wall_negs' : x.view = s /\ x.stage = "made"
  BY <1>1, <1>5 DEF PaneInv
<1>9. ASSUME wall_sessions' = wall_sessions \cup {n.view}, wall_negs' = (wall_negs \ {n}) \cup {m}
      PROVE  \/ n.view \in wall_late'
             \/ /\ n.view = wall_pane'.view
                /\ wall_pane'.resource \/ \E x \in wall_negs' : x.view = n.view
                     /\ x.stage = "made"
  BY <1>1, <1>3, <1>6, <1>9
<1>10. \A s \in wall_sessions' :
        \/ s \in wall_late'
        \/ /\ s = wall_pane'.view
           /\ wall_pane'.resource \/ \E x \in wall_negs' : x.view = s /\ x.stage = "made"
  BY <1>1, <1>8, <1>9
<1>11. wall_sessions' \subseteq 1..MaxOpens  BY <1>1 DEF PaneInv, Negs
<1> QED  BY <1>1, <1>2, <1>4, <1>7, <1>10, <1>11 DEF PaneInv

(* The answer gives its resource to the pane that asked, if it is there.   *)
LEMMA AnswersPane ==
  ASSUME PlayInv, PaneInv, NEW n \in wall_negs, Wall!Answer(n)
  PROVE  PlayInv' /\ PaneInv'
<1>1. /\ n.stage = "made" /\ UNCHANGED <<wall_page, Wall!playing>>
           /\ UNCHANGED <<wall_sessions, wall_late, wall_views>>
      /\ wall_negs' = wall_negs \ {n}
      /\ wall_pane' = IF n.cancelled THEN wall_pane ELSE [wall_pane EXCEPT !.resource = TRUE]
  BY DEF Wall!Answer
<1>2. PlayInv' /\ wall_tiles' = wall_tiles  BY <1>1, NothingPlays DEF Wall!playing
<1>3. /\ wall_pane' \in [cam : Wall!Cameras \cup {NA}, view : 0..wall_views', resource : BOOLEAN]
      /\ wall_pane'.view = wall_pane.view /\ (~n.cancelled => wall_pane'.resource)
           /\ (wall_pane.resource => wall_pane'.resource)
  BY <1>1 DEF PaneInv
<1>4. n.cancelled <=> n.view # wall_pane.view  BY DEF PaneInv
<1>5. wall_tiles[0].cam = NA \/ wall_tiles[0].manifest = "loading" => n.cancelled
  <2>1. wall_pane = Wall!NoPane => wall_pane.view = 0  BY DEF Wall!NoPane
  <2> QED  BY <1>4, <2>1 DEF PaneInv, Negs
<1>6. wall_tiles'[0].cam = NA \/ wall_tiles'[0].manifest = "loading" => wall_pane' = Wall!NoPane
  BY <1>1, <1>2, <1>5 DEF PaneInv
<1>7. \A s \in wall_sessions' :
        \/ s \in wall_late'
        \/ /\ s = wall_pane'.view
           /\ wall_pane'.resource \/ \E x \in wall_negs' : x.view = s /\ x.stage = "made"
  <2> TAKE s \in wall_sessions'
  <2>1. CASE s \in wall_late  BY <1>1, <2>1
  <2>2. CASE s \notin wall_late /\ wall_pane.resource  BY <1>1, <1>3, <2>2 DEF PaneInv
  <2>3. CASE s \notin wall_late /\ ~wall_pane.resource
    <3>1. s = wall_pane.view /\ \E x \in wall_negs : x.view = s /\ x.stage = "made"
      BY <1>1, <2>3 DEF PaneInv
    <3> QED  BY <1>1, <1>3, <1>4, <3>1
  <2> QED  BY <2>1, <2>2, <2>3
<1>8. \A x \in wall_negs' : /\ x.view <= wall_views'
                            /\ x.cancelled <=> x.view # wall_pane'.view
                            /\ x.stage = "offer" \/ x.view = wall_pane'.view
                                 \/ x.view \in wall_late'
                            /\ wall_tiles'[0].manifest = "loading" => x.view # wall_views'
  BY <1>1, <1>2, <1>3 DEF PaneInv
<1> QED  BY <1>1, <1>2, <1>3, <1>6, <1>7, <1>8 DEF PaneInv

-----------------------------------------------------------------------------
(* The wall starts with nothing playing and no session.                    *)
LEMMA InitPlays == Wall!Init => PlayInv /\ PaneInv
<1> SUFFICES ASSUME Wall!Init PROVE PlayInv /\ PaneInv  OBVIOUS
<1>1. wall_stored \in Wall!Arrangement \cup {NA}
  BY WallConstants DEF Wall!WallAssumption, Wall!Init
<1>2. Wall!Load(wall_stored) \in ShownLayouts  BY <1>1, LoadShown
<1>3. /\ wall_tiles \in [Places -> Tile] /\ wall_tiles[0].cam = NA
      /\ \A s \in Places : ~wall_tiles[s].visible /\ wall_tiles[s].manifest = "none"
  BY <1>2, FirstTiles DEF Wall!Init
<1>4. Shown  BY <1>3 DEF Shown, Wall!Init
<1>5. Played  BY DEF Played, Wall!Init
<1>6. PaneInv
  <2>1. MaxOpens \in Nat  BY WallConstants DEF Wall!WallAssumption
  <2> QED  BY <1>3, <2>1 DEF PaneInv, Wall!Init, Wall!NoPane, Places
<1> QED  BY <1>4, <1>5, <1>6 DEF PlayInv

(* One step per action of the wall.                                        *)
LEMMA NextPlays ==
  LayoutInv /\ PlayInv /\ PaneInv /\ [Wall!Next]_wallVars => PlayInv' /\ PaneInv'
<1> SUFFICES ASSUME LayoutInv, PlayInv, PaneInv, [Wall!Next]_wallVars PROVE PlayInv' /\ PaneInv'
  OBVIOUS
<1>0. wall_layout \in Seq(Wall!Cameras \cup {NA}) /\ Wall!EachOnce(wall_layout)
  BY ShownAre DEF LayoutInv
<1>1. CASE Wall!OnPick
  <2>1. PICK i \in DOMAIN wall_layout, c \in Wall!Cameras \cup {NA} :
               Wall!SetLayout(Wall!Assign(wall_layout, i, c))
    BY <1>1 DEF Wall!OnPick
  <2>2. Wall!Assign(wall_layout, i, c) \in ShownLayouts  BY <1>0, AssignShown
  <2> QED  BY <2>1, <2>2, EditsTiles
<1>2. CASE Wall!OnGrid
  <2>1. PICK n \in Sizes : Wall!SetLayout(Wall!Place(wall_layout, n))  BY <1>2 DEF Wall!OnGrid
  <2>2. n \in Nat  BY WallConstants DEF Wall!WallAssumption
  <2>3. Wall!Place(wall_layout, n) \in ShownLayouts  BY <1>0, <2>2, PlaceShown
  <2> QED  BY <2>1, <2>3, EditsTiles
<1>3. CASE UNCHANGED <<wall_page, Wall!playing>> /\ UNCHANGED Wall!whep
  <2>1. PlayInv'  BY <1>3, NothingPlays
  <2>2. UNCHANGED <<wall_tiles, wall_pane, wall_negs, wall_sessions, wall_late, wall_views>>
    BY <1>3 DEF Wall!playing, Wall!whep
  <2>3. PaneInv'  BY <2>2 DEF PaneInv
  <2> QED  BY <2>1, <2>3
<1>4. CASE Wall!SaveLayout \/ Wall!SaveAnswered
  BY <1>3, <1>4 DEF Wall!SaveLayout, Wall!SaveAnswered
<1>5. CASE UNCHANGED wallVars  BY <1>3, <1>5 DEF wallVars, Wall!playing, Wall!whep
<1> QED
  BY <1>1, <1>2, <1>4, <1>5, ScrollsTiles, LoadsManifest, OpensPlayer, OpensSingle, ClosesSingle,
     OffersSession, GatewaysAnswer, AnswersPane, ClosesAll, LeavesPage, EntersPage DEF Wall!Next

(* The invariant gives the property.                                       *)
LEMMA OwnedFollows == WallInv => Wall!ConnectionsAreOwned
<1> SUFFICES ASSUME WallInv PROVE Wall!ConnectionsAreOwned  OBVIOUS
<1>1. LayoutInv /\ Shown /\ Played /\ PaneInv /\ DOMAIN wall_tiles = Places
  BY DEF WallInv, PlayInv, Shown
<1>2. wall_layout \in Seq(Wall!Cameras \cup {NA}) /\ Wall!EachOnce(wall_layout)
  BY <1>1, ShownAre DEF LayoutInv
<1>3. Wall!TypeOK
  <2>1. \A s \in DOMAIN wall_tiles : wall_tiles[s].cam \in Wall!Cameras \cup {NA}
    BY <1>1 DEF Shown, Tile
  <2>2. \A k \in wall_live : k.slot \in DOMAIN wall_tiles /\ k.cam \in Wall!Cameras
    BY <1>1 DEF Played, Players
  <2> QED  BY <1>1, <1>2, <2>1, <2>2 DEF Wall!TypeOK, Shown, PaneInv
<1>4. Wall!ConnectionsAreSeen
  <2> SUFFICES ASSUME NEW k \in wall_live
               PROVE  /\ wall_page # "away"
                      /\ wall_tiles[k.slot].cam = k.cam /\ wall_tiles[k.slot].visible
                      /\ wall_tiles[k.slot].player = "attached"
    BY DEF Wall!ConnectionsAreSeen
  <2>1. k.slot \in Places /\ Plays(k.slot, k.cam) /\ wall_tiles[k.slot].player = "attached"
    BY <1>1 DEF Played, Players
  <2> QED  BY <1>1, <2>1, NoPlace DEF Plays, Shown
<1>5. Wall!SessionsAreEnded  BY <1>1 DEF Wall!SessionsAreEnded, PaneInv
<1> QED  BY <1>2, <1>3, <1>4, <1>5 DEF Wall!ConnectionsAreOwned, Wall!EachCameraOnce

(* However the wall is edited, resized, scrolled, saved and opened again,  *)
(* whichever manifests, player modules, SDP answers and saves come late or *)
(* not at all: every connection is that of a mounted, visible tile that    *)
(* shows its camera, the gateway holds no session but the pane's or one    *)
(* whose pane closed while its offer was under way, and no camera takes    *)
(* two slots (use-hls-player.ts, whep-player.tsx, layout.ts).              *)
THEOREM WallHolds == ConsoleSpec => []ConnectionsAreOwned
<1>1. ConsoleInit => WallInv
  BY InitLayouts, InitPlays DEF ConsoleInit, WallInv
<1>2. WallInv /\ [ConsoleNext]_consoleVars => WallInv'
  <2> SUFFICES ASSUME WallInv, [ConsoleNext]_consoleVars PROVE WallInv'
    OBVIOUS
  <2>1. [Wall!Next]_wallVars
    BY DEF ConsoleNext, consoleVars
  <2> QED  BY <2>1, NextLayouts, NextPlays DEF WallInv
<1>3. WallInv => ConnectionsAreOwned
  BY OwnedFollows DEF ConnectionsAreOwned
<1> QED  BY <1>1, <1>2, <1>3, PTL DEF ConsoleSpec

-----------------------------------------------------------------------------
(* Rows of one frame are of one run.                                       *)
OneRun(S) == \A i, j \in S : Detections[i].pts = Detections[j].pts => Detections[i].ts = Detections[j].ts

(* Rows of one frame are of one run, if those runs fit a page there.       *)
OneRunOfPage(S) ==
    \A i, j \in S :
      Detections[i].pts = Detections[j].pts /\ Overlay!FitsPage(i) /\ Overlay!FitsPage(j) =>
        Detections[i].ts = Detections[j].ts

(* A window under way: what it has reached is shown from its rows, and a   *)
(* frame it may read again holds more than a page.                         *)
LoadInv(l) ==
    /\ l = [from |-> l.from, to |-> l.to, cursor |-> l.cursor, page |-> l.page,
            rows |-> l.rows, asof |-> l.asof]
    /\ l.from \in Nat /\ l.to \in Nat /\ l.cursor \in Nat /\ l.from <= l.cursor
    /\ l.page \in Nat /\ l.page < MaxPages
    /\ l.asof \in 0..overlay_stored /\ l.rows \subseteq 1..overlay_stored
    /\ \A i \in l.rows : Detections[i].pts < l.cursor
    /\ OneRunOfPage(l.rows)
    /\ \A p \in Nat : l.from <= p /\ p < l.cursor => Overlay!Shows(l.rows, l.asof, p)
    /\ l.to < l.cursor => \A i \in l.rows : l.to <= Detections[i].pts => ~Overlay!FitsPage(i)

(* The window that is kept: one run a frame, and all it covers is shown.   *)
BufferInv ==
    LET b == overlay_buffer
    IN  /\ b.from \in Nat /\ b.to \in Int
        /\ b.asof \in 0..overlay_stored /\ b.rows \subseteq 1..overlay_stored
        /\ OneRunOfPage(b.rows)
        /\ \A p \in Nat : b.from <= p /\ p < b.to => Overlay!Shows(b.rows, b.asof, p)

(* The invariant of the overlay: its window and those under way.           *)
OverlayInv ==
    /\ overlay_stored \in Detected..Len(Detections) /\ overlay_enabled \in BOOLEAN
    /\ overlay_playhead \in Frames
    /\ BufferInv
    /\ \A l \in overlay_loads : LoadInv(l)

(* The cardinality the overlay's module means is this one.                 *)
LEMMA SameCount == \A S : Overlay!Cardinality(S) = Cardinality(S)
  BY DEF Overlay!Cardinality, Cardinality

(* A row has a frame, the time of its run and a track.                     *)
LEMMA BoxTypes ==
  /\ DOMAIN Detections = 1..Len(Detections) /\ Len(Detections) \in Nat
  /\ \A i \in 1..Len(Detections) :
       /\ Detections[i] = [pts |-> Detections[i].pts, ts |-> Detections[i].ts, track |-> Detections[i].track]
       /\ Detections[i].pts \in Nat /\ Detections[i].ts \in Nat /\ Detections[i].track \in Nat
<1>1. Detections \in Seq([pts : Nat, ts : Nat, track : Nat])
  BY OverlayConstants DEF Overlay!DetectionOverlayAssumption
<1>2. \A i \in 1..Len(Detections) : Detections[i] \in [pts : Nat, ts : Nat, track : Nat]
  BY <1>1, ElementOfSeq
<1> QED  BY <1>1, <1>2

(* There are finitely many rows.                                           *)
LEMMA BoxesAreFinite == ASSUME NEW S \in SUBSET (1..Len(Detections)) PROVE IsFiniteSet(S)
<1>1. IsFiniteSet(1..Len(Detections))
  <2>1. Len(Detections) \in Int /\ 1 \in Int  BY BoxTypes
  <2> QED  BY <2>1, FS_Interval
<1> QED  BY <1>1, FS_Subset

(* In a set of rows with one run a frame, the rows of a frame differ in    *)
(* their tracks: the order of the page is total.                           *)
LEMMA AheadOrders ==
    ASSUME NEW S \in SUBSET (1..Len(Detections)), OneRun(S), NEW i \in S, NEW j \in S
    PROVE  /\ ~Overlay!Ahead(i, i)
           /\ i = j \/ Overlay!Ahead(i, j) \/ Overlay!Ahead(j, i)
           /\ \A k \in S : Overlay!Ahead(i, j) /\ Overlay!Ahead(j, k) => Overlay!Ahead(i, k)
<1>1. \A k \in S : Detections[k].pts \in Nat /\ Detections[k].track \in Nat
  BY BoxTypes
<1>2. Detections[i].pts = Detections[j].pts /\ Detections[i].track = Detections[j].track => i = j
  <2> SUFFICES ASSUME Detections[i].pts = Detections[j].pts, Detections[i].track = Detections[j].track PROVE i = j
    OBVIOUS
  <2>1. Detections[i].ts = Detections[j].ts  BY DEF OneRun
  <2>2. Detections[i] = Detections[j]  BY <2>1, BoxTypes
  <2> QED  BY <2>2, BoxTypes, OverlayConstants DEF Overlay!DetectionOverlayAssumption
<1> QED  BY <1>1, <1>2 DEF Overlay!Ahead, Overlay!At

(* How many rows of a set come before one of them on the page.             *)
RankOf(S) == [i \in S |-> Cardinality({j \in S : Overlay!Ahead(j, i)})]

(* Ranks follow that order, and each up to the size is taken.              *)
LEMMA RanksOfPage ==
    ASSUME NEW S \in SUBSET (1..Len(Detections)), OneRun(S)
    PROVE  /\ \A i \in S : RankOf(S)[i] \in Nat
           /\ \A i, j \in S : Overlay!Ahead(i, j) => RankOf(S)[i] < RankOf(S)[j]
           /\ \A k \in 0..(Cardinality(S) - 1) : \E i \in S : RankOf(S)[i] = k
<1> DEFINE order == {p \in S \X S : Overlay!Ahead(p[1], p[2])}
<1>1. \A i, j \in S : <<i, j>> \in order <=> Overlay!Ahead(i, j)
  OBVIOUS
<1> HIDE DEF order
<1>2. TotalOn(S, order)
  BY <1>1, AheadOrders DEF TotalOn
<1>3. IsFiniteSet(S) /\ Cardinality(S) \in Nat
  BY BoxesAreFinite, FS_CardinalityType
<1>4. \A i \in S : RankOf(S)[i] = RankIn(S, order, i)
  BY <1>1 DEF RankOf, RankIn
<1>5. \A i \in S : RankIn(S, order, i) \in 0..(Cardinality(S) - 1)
  BY <1>2, <1>3, RanksIn
<1>6. \A i, j \in S : <<i, j>> \in order => RankIn(S, order, i) < RankIn(S, order, j)
  BY <1>2, <1>3, RanksIn
<1>7. \A k \in 0..(Cardinality(S) - 1) : \E i \in S : RankIn(S, order, i) = k
  BY <1>2, <1>3, RanksIn
<1>8. \A i \in S : RankOf(S)[i] \in Nat
  BY <1>3, <1>4, <1>5
<1>9. \A i, j \in S : Overlay!Ahead(i, j) => RankOf(S)[i] < RankOf(S)[j]
  BY <1>1, <1>4, <1>6
<1> QED  BY <1>4, <1>7, <1>8, <1>9

(* What a page of rows may be: all of them; whole frames, up to the one it *)
(* asks for next; or some rows of a frame that is larger than a page.      *)
LEMMA PageEnds ==
    ASSUME NEW S \in SUBSET (1..Len(Detections)), OneRun(S)
    PROVE  LET cut == Overlay!CutAtFrameBoundary(S)
           IN  \/ cut.next = NA /\ cut.rows = S
               \/ \E edge \in S : /\ cut.next = Detections[edge].pts
                               /\ cut.rows = {i \in S : Detections[i].pts < Detections[edge].pts}
               \/ \E edge \in S : /\ cut.next = Detections[edge].pts + 1
                               /\ cut.rows # {} /\ cut.rows \subseteq Overlay!Of(S, Detections[edge].pts)
                               /\ \A i \in S : Detections[edge].pts <= Detections[i].pts
                               /\ Cardinality(Overlay!Of(S, Detections[edge].pts)) > Limit
<1> DEFINE rank == RankOf(S)
           edge == CHOOSE i \in S : rank[i] = Limit
           end == Detections[edge].pts
           page == {i \in S : rank[i] < Limit}
           whole == {i \in page : Detections[i].pts < end}
           cut == Overlay!CutAtFrameBoundary(S)
<1>0. Limit \in Nat \ {0} /\ IsFiniteSet(S) /\ Cardinality(S) \in Nat
  <2>1. IsFiniteSet(S)  BY BoxesAreFinite
  <2> QED  BY <2>1, FS_CardinalityType, OverlayConstants DEF Overlay!DetectionOverlayAssumption
<1>1. CASE Cardinality(S) <= Limit
  <2>1. cut = [rows |-> S, next |-> NA]
    BY <1>1, SameCount DEF Overlay!CutAtFrameBoundary
  <2> QED  BY <2>1
<1>2. CASE ~(Cardinality(S) <= Limit)
  <2>1. cut = IF whole # {} THEN [rows |-> whole, next |-> end] ELSE [rows |-> page, next |-> end + 1]
    BY <1>2, SameCount DEF Overlay!CutAtFrameBoundary, RankOf, Overlay!At
  <2>2. edge \in S /\ rank[edge] = Limit
    <3>1. Limit \in 0..(Cardinality(S) - 1)  BY <1>0, <1>2
    <3>2. \E i \in S : rank[i] = Limit  BY <3>1, RanksOfPage
    <3> QED  BY <3>2
  <2> HIDE DEF edge, rank, cut
  <2>3. \A i \in S : Overlay!Ahead(i, edge) => i \in page
    BY <2>2, RanksOfPage DEF rank
  <2>4. \A i \in page : Detections[i].pts <= end
    <3> SUFFICES ASSUME NEW i \in page PROVE Detections[i].pts <= end  OBVIOUS
    <3>1. i \in S /\ rank[i] < Limit /\ rank[i] \in Nat  BY RanksOfPage DEF rank
    <3>2. ~Overlay!Ahead(edge, i)
      <4>1. Overlay!Ahead(edge, i) => rank[edge] < rank[i]  BY <2>2, <3>1, RanksOfPage DEF rank
      <4> QED  BY <1>0, <2>2, <3>1, <4>1
    <3>3. Detections[i].pts \in Nat /\ end \in Nat  BY <2>2, <3>1, BoxTypes
    <3> QED  BY <3>2, <3>3 DEF Overlay!Ahead, Overlay!At
  <2>5. whole = {i \in S : Detections[i].pts < end}
    <3>1. \A i \in S : Detections[i].pts < end => Overlay!Ahead(i, edge)
      BY DEF Overlay!Ahead, Overlay!At
    <3> QED  BY <2>3, <3>1
  <2>6. CASE whole # {}
    <3>1. cut = [rows |-> {i \in S : Detections[i].pts < end}, next |-> end]  BY <2>1, <2>5, <2>6
    <3> QED  BY <2>2, <3>1 DEF cut
  <2>7. CASE whole = {}
    <3>1. \A i \in S : end <= Detections[i].pts
      <4>1. \A i \in S : ~(Detections[i].pts < end)  BY <2>5, <2>7
      <4>2. end \in Nat /\ \A i \in S : Detections[i].pts \in Nat  BY <2>2, BoxTypes
      <4> HIDE DEF end
      <4> QED  BY <4>1, <4>2
    <3>2. page \subseteq Overlay!Of(S, end)
      <4> SUFFICES ASSUME NEW i \in page PROVE i \in S /\ Detections[i].pts = end
        BY DEF Overlay!Of, Overlay!At
      <4>1. Detections[i].pts <= end /\ end <= Detections[i].pts  BY <2>4, <3>1
      <4>2. end \in Nat /\ i \in S /\ Detections[i].pts \in Nat  BY <2>2, BoxTypes
      <4> HIDE DEF end
      <4> QED  BY <4>1, <4>2
    <3>3. IsFiniteSet(page) /\ edge \notin page /\ edge \in Overlay!Of(S, end)
      BY <1>0, <2>2, FS_Subset DEF Overlay!Of, Overlay!At
    <3>4. Cardinality(page) >= Limit
      <4>1. Limit = Cardinality({i \in S : Overlay!Ahead(i, edge)})
        BY <2>2 DEF rank, RankOf
      <4>2. {i \in S : Overlay!Ahead(i, edge)} \subseteq page  BY <2>3
      <4> QED  BY <3>3, <4>1, <4>2, FS_Subset
    <3>5. Cardinality(Overlay!Of(S, end)) > Limit
      <4>1. IsFiniteSet(Overlay!Of(S, end))  BY <1>0, FS_Subset DEF Overlay!Of
      <4>2. page \union {edge} \subseteq Overlay!Of(S, end)  BY <3>2, <3>3
      <4>3. Cardinality(page \union {edge}) = Cardinality(page) + 1
        BY <3>3, FS_AddElement
      <4>4. Cardinality(page \union {edge}) <= Cardinality(Overlay!Of(S, end))
        BY <4>1, <4>2, FS_Subset
      <4>5. Cardinality(page) \in Nat /\ Cardinality(Overlay!Of(S, end)) \in Nat
        BY <3>3, <4>1, FS_CardinalityType
      <4> HIDE DEF page
      <4> QED  BY <1>0, <3>4, <4>3, <4>4, <4>5
    <3>6. page # {}
      <4>1. Cardinality(page) # 0
        <5>1. Cardinality(page) \in Nat  BY <3>3, FS_CardinalityType
        <5> HIDE DEF page
        <5> QED  BY <1>0, <3>4, <5>1
      <4> QED  BY <4>1, FS_EmptySet
    <3>7. cut = [rows |-> page, next |-> end + 1]  BY <2>1, <2>7
    <3> HIDE DEF page
    <3> QED  BY <2>2, <3>1, <3>2, <3>5, <3>6, <3>7 DEF cut
  <2> QED  BY <2>6, <2>7
<1> QED  BY <1>1, <1>2

(* One row of a frame is of its latest run.                                *)
LEMMA LatestOne ==
    ASSUME NEW F, IsFiniteSet(F), F # {}, \A k \in F : Detections[k].ts \in Nat
    PROVE  \E j \in F : \A k \in F : Detections[k].ts <= Detections[j].ts
<1> DEFINE after(j) == {k \in F : Detections[j].ts < Detections[k].ts}
           sizes == {Cardinality(after(j)) : j \in F}
<1>1. \A j \in F : IsFiniteSet(after(j)) /\ Cardinality(after(j)) \in Nat
  BY FS_Subset, FS_CardinalityType
<1>2. PICK j \in F : \A k \in F : Cardinality(after(j)) <= Cardinality(after(k))
  <2>1. sizes \in SUBSET Nat /\ sizes # {}  BY <1>1
  <2>2. IsFiniteSet(sizes)
    <3> DEFINE size == [k \in F |-> Cardinality(after(k))]
    <3>1. size \in Surjection(F, sizes)  BY DEF Surjection
    <3> HIDE DEF size, sizes
    <3> QED  BY <3>1, FS_Surjection
  <2> HIDE DEF sizes
  <2>3. PICK n \in sizes : \A x \in sizes : n <= x  BY <2>1, <2>2, LeastElement
  <2> QED  BY <2>3 DEF sizes
<1>3. ASSUME NEW k \in F, ~(Detections[k].ts <= Detections[j].ts) PROVE FALSE
  <2>1. Detections[j].ts < Detections[k].ts  BY <1>3
  <2>2. after(k) \subseteq after(j) /\ k \in after(j) /\ k \notin after(k)
    BY <2>1
  <2>3. Cardinality(after(k)) <= Cardinality(after(j)) /\ Cardinality(after(k)) # Cardinality(after(j))
    <3>1. after(k) \in SUBSET after(j) /\ after(k) # after(j)  BY <2>2
    <3> HIDE DEF after
    <3> QED  BY <1>1, <3>1, FS_Subset
  <2>4. Cardinality(after(j)) <= Cardinality(after(k))  BY <1>2
  <2>5. Cardinality(after(j)) \in Nat /\ Cardinality(after(k)) \in Nat  BY <1>1
  <2> HIDE DEF after
  <2> QED  BY <2>3, <2>4, <2>5
<1> QED  BY <1>3

(* The rows the route answers with: one run a frame, the latest one.       *)
LEMMA LatestRows ==
    ASSUME NEW s \in 0..Len(Detections), NEW a \in Nat, NEW b \in Nat
    PROVE  LET S == Overlay!Latest(1..s, a, b)
           IN  /\ S \subseteq 1..s /\ S \subseteq 1..Len(Detections) /\ OneRun(S)
               /\ \A i \in S : Overlay!Between(Detections[i].pts, a, b)
               /\ \A i \in 1..s : Overlay!Between(Detections[i].pts, a, b) =>
                    \E j \in S : Detections[j].pts = Detections[i].pts /\ Detections[i].ts <= Detections[j].ts
<1> DEFINE S == Overlay!Latest(1..s, a, b)
<1>1. S \subseteq 1..s /\ 1..s \subseteq 1..Len(Detections)
  BY BoxTypes DEF Overlay!Latest
<1>2. OneRun(S)
  <2> SUFFICES ASSUME NEW i \in S, NEW j \in S, Detections[i].pts = Detections[j].pts
               PROVE  Detections[i].ts = Detections[j].ts
    BY DEF OneRun
  <2>1. Detections[i].ts <= Detections[j].ts /\ Detections[j].ts <= Detections[i].ts
    BY <1>1 DEF Overlay!Latest, Overlay!At
  <2>2. Detections[i].ts \in Nat /\ Detections[j].ts \in Nat  BY <1>1, BoxTypes
  <2> QED  BY <2>1, <2>2
<1>3. \A i \in S : Overlay!Between(Detections[i].pts, a, b)
  BY DEF Overlay!Latest, Overlay!At
<1>4. ASSUME NEW i \in 1..s, Overlay!Between(Detections[i].pts, a, b)
      PROVE  \E j \in S : Detections[j].pts = Detections[i].pts /\ Detections[i].ts <= Detections[j].ts
  <2> DEFINE frame == {k \in 1..s : Detections[k].pts = Detections[i].pts}
             left == {Detections[k].ts : k \in frame}
  <2>1. IsFiniteSet(frame) /\ i \in frame
    BY <1>1, BoxesAreFinite
  <2>2. \A k \in frame : Detections[k].ts \in Nat  BY <1>1, BoxTypes
  <2>3. \E j \in frame : \A k \in frame : Detections[k].ts <= Detections[j].ts
    <3>1. frame # {}  BY <2>1
    <3> HIDE DEF frame
    <3> QED  BY <2>1, <2>2, <3>1, LatestOne
  <2>4. PICK j \in frame : \A k \in frame : Detections[k].ts <= Detections[j].ts  BY <2>3
  <2>5. j \in S
    BY <1>4, <2>4 DEF Overlay!Latest, Overlay!At
  <2> QED  BY <2>1, <2>4, <2>5
<1> QED  BY <1>1, <1>2, <1>3, <1>4

(* Every row of a frame with more of them than a page holds is of a run    *)
(* that does not fit one.                                                  *)
LEMMA LargeFrames ==
    ASSUME NEW S \in SUBSET (1..Len(Detections)), OneRun(S), NEW p,
           Cardinality(Overlay!Of(S, p)) > Limit, NEW i \in Overlay!Of(S, p)
    PROVE  ~Overlay!FitsPage(i)
<1> DEFINE run == {j \in DOMAIN Detections : Detections[j].pts = Detections[i].pts /\ Detections[j].ts = Detections[i].ts}
<1>1. Overlay!Of(S, p) \subseteq run /\ run \subseteq 1..Len(Detections)
  BY BoxTypes DEF Overlay!Of, Overlay!At, OneRun
<1>2. IsFiniteSet(run) /\ Cardinality(run) >= Cardinality(Overlay!Of(S, p))
  BY <1>1, BoxesAreFinite, FS_Subset
<1>3. Cardinality(run) \in Nat /\ Cardinality(Overlay!Of(S, p)) \in Nat
  BY <1>1, <1>2, FS_Subset, FS_CardinalityType
<1>4. Limit \in Nat  BY OverlayConstants DEF Overlay!DetectionOverlayAssumption
<1>5. Overlay!FitsPage(i) <=> Cardinality(run) <= Limit
  BY SameCount DEF Overlay!FitsPage, Overlay!At
<1> HIDE DEF run
<1> QED  BY <1>2, <1>3, <1>4, <1>5

(* A page shows every frame it reaches, whatever was stored after its load *)
(* began.                                                                  *)
LEMMA PageShows ==
    ASSUME NEW s \in 0..Len(Detections), NEW n \in 0..s, NEW a \in Nat, NEW b \in Nat, NEW p \in Nat,
           Overlay!Between(p, a, b),
           LET cut == Overlay!CutAtFrameBoundary(Overlay!Latest(1..s, a, b))
           IN  cut.next = NA \/ p < cut.next
    PROVE  Overlay!Shows(Overlay!CutAtFrameBoundary(Overlay!Latest(1..s, a, b)).rows, n, p)
<1> DEFINE S == Overlay!Latest(1..s, a, b)
           cut == Overlay!CutAtFrameBoundary(S)
           due == Overlay!Of(Overlay!Latest(1..n, p, p), p)
<1>1. /\ S \subseteq 1..s /\ S \in SUBSET (1..Len(Detections)) /\ OneRun(S)
      /\ \A i \in 1..s : Overlay!Between(Detections[i].pts, a, b) =>
           \E j \in S : Detections[j].pts = Detections[i].pts /\ Detections[i].ts <= Detections[j].ts
  BY LatestRows
<1>2. due \subseteq 1..n /\ (\A i \in due : Detections[i].pts = p)
  BY DEF Overlay!Of, Overlay!At, Overlay!Latest
<1>3. \A i, j \in due : Detections[i].ts = Detections[j].ts
  <2>1. n \in 0..Len(Detections)  BY BoxTypes
  <2>2. OneRun(Overlay!Latest(1..n, p, p))  BY <2>1, LatestRows
  <2> QED  BY <1>2, <2>2 DEF OneRun, Overlay!Of
<1> SUFFICES ASSUME NEW d \in due, \A i \in due : Overlay!FitsPage(i)
             PROVE  due \subseteq cut.rows \/ \E i \in Overlay!Of(cut.rows, p) : \A j \in due : Detections[i].ts > Detections[j].ts
  BY DEF Overlay!Shows, Overlay!At
<1>4. d \in 1..s /\ due \subseteq 1..s  BY <1>2
<1>5. PICK m \in S : Detections[m].pts = p /\ Detections[d].ts <= Detections[m].ts
  BY <1>1, <1>2, <1>4
<1>6. Detections[m].ts \in Nat /\ \A i \in due : Detections[i].ts \in Nat /\ Detections[i].ts = Detections[d].ts
  BY <1>1, <1>3, <1>4, <1>5, BoxTypes
<1>7. \A i \in S : Detections[i].pts = p => Detections[i].ts = Detections[m].ts
  BY <1>1, <1>5 DEF OneRun
<1>8. CASE Detections[m].ts = Detections[d].ts
  <2>1. due \subseteq S
    <3> SUFFICES ASSUME NEW i \in due PROVE i \in S  OBVIOUS
    <3>1. \A j \in 1..s : Detections[j].pts = Detections[i].pts => Detections[j].ts <= Detections[i].ts
      <4> SUFFICES ASSUME NEW j \in 1..s, Detections[j].pts = Detections[i].pts PROVE Detections[j].ts <= Detections[i].ts
        OBVIOUS
      <4>1. Detections[j].ts <= Detections[m].ts
        BY <1>2, <1>5 DEF Overlay!Latest, Overlay!At
      <4> QED  BY <1>6, <1>8, <4>1
    <3> QED  BY <1>2, <1>4, <3>1 DEF Overlay!Latest, Overlay!At
  <2> HIDE DEF S, due
  <2>2. CASE cut.next = NA /\ cut.rows = S  BY <2>1, <2>2
  <2>3. ASSUME NEW edge \in S, cut.next = Detections[edge].pts,
               cut.rows = {i \in S : Detections[i].pts < Detections[edge].pts}
        PROVE  due \subseteq cut.rows
    <3>1. Detections[edge].pts # NA
      BY <1>1, BoxTypes, OverlayConstants DEF Overlay!DetectionOverlayAssumption
    <3>2. p < Detections[edge].pts  BY <2>3, <3>1 DEF S
    <3> QED  BY <1>2, <2>1, <2>3, <3>2
  <2>4. ASSUME NEW edge \in S, cut.next = Detections[edge].pts + 1,
               \A i \in S : Detections[edge].pts <= Detections[i].pts,
               Cardinality(Overlay!Of(S, Detections[edge].pts)) > Limit
        PROVE  FALSE
    <3>1. Detections[edge].pts \in Nat  BY <1>1, BoxTypes
    <3>2. Detections[edge].pts + 1 # NA
      <4>1. Detections[edge].pts + 1 \in Nat  BY <3>1
      <4> QED  BY <4>1, OverlayConstants DEF Overlay!DetectionOverlayAssumption
    <3>3. p < Detections[edge].pts + 1  BY <2>4, <3>2 DEF S
    <3>4. Detections[edge].pts <= p  BY <1>5, <2>4
    <3>5. d \in Overlay!Of(S, Detections[edge].pts)
      BY <1>2, <2>1, <3>1, <3>3, <3>4 DEF Overlay!Of, Overlay!At
    <3> QED  BY <1>1, <2>4, <3>5, LargeFrames
  <2> QED  BY <1>1, <2>2, <2>3, <2>4, PageEnds
<1>9. CASE Detections[m].ts # Detections[d].ts
  <2>1. \A i \in S : Detections[i].pts = p => \A j \in due : Detections[i].ts > Detections[j].ts
    BY <1>5, <1>6, <1>7, <1>9
  <2> HIDE DEF S, due
  <2>2. CASE cut.next = NA /\ cut.rows = S
    BY <1>5, <2>1, <2>2 DEF Overlay!Of, Overlay!At
  <2>3. ASSUME NEW edge \in S, cut.next = Detections[edge].pts,
               cut.rows = {i \in S : Detections[i].pts < Detections[edge].pts}
        PROVE  m \in Overlay!Of(cut.rows, p)
    <3>1. Detections[edge].pts # NA
      BY <1>1, BoxTypes, OverlayConstants DEF Overlay!DetectionOverlayAssumption
    <3>2. p < Detections[edge].pts  BY <2>3, <3>1 DEF S
    <3> QED  BY <1>5, <2>3, <3>2 DEF Overlay!Of, Overlay!At
  <2>4. ASSUME NEW edge \in S, cut.next = Detections[edge].pts + 1, cut.rows # {},
               cut.rows \subseteq Overlay!Of(S, Detections[edge].pts),
               \A i \in S : Detections[edge].pts <= Detections[i].pts
        PROVE  \E i \in Overlay!Of(cut.rows, p) : i \in S /\ Detections[i].pts = p
    <3>1. Detections[edge].pts \in Nat  BY <1>1, BoxTypes
    <3>2. Detections[edge].pts + 1 # NA
      <4>1. Detections[edge].pts + 1 \in Nat  BY <3>1
      <4> QED  BY <4>1, OverlayConstants DEF Overlay!DetectionOverlayAssumption
    <3>3. p < Detections[edge].pts + 1  BY <2>4, <3>2 DEF S
    <3>4. Detections[edge].pts <= p  BY <1>5, <2>4
    <3>5. p = Detections[edge].pts  BY <3>1, <3>3, <3>4
    <3> QED  BY <2>4, <3>5 DEF Overlay!Of, Overlay!At
  <2>5. m \in Overlay!Of(cut.rows, p) \/ (\E i \in Overlay!Of(cut.rows, p) : i \in S /\ Detections[i].pts = p)
    <3>1. m \in Overlay!Of(S, p)  BY <1>5 DEF Overlay!Of, Overlay!At
    <3> QED  BY <1>1, <1>5, <2>2, <2>3, <2>4, <3>1, PageEnds
  <2> QED  BY <1>5, <2>1, <2>5
<1> QED  BY <1>8, <1>9

(* More rows show no less.                                                 *)
LEMMA ShowsMore ==
    ASSUME NEW R, NEW S, R \subseteq S, NEW n, NEW p, Overlay!Shows(R, n, p)
    PROVE  Overlay!Shows(S, n, p)
  BY DEF Overlay!Shows, Overlay!Of

(* The overlay starts with no window and an empty buffer.                 *)
LEMMA OverlayInit == Overlay!Init => OverlayInv
<1> SUFFICES ASSUME Overlay!Init PROVE OverlayInv  OBVIOUS
<1>1. /\ Detected \in 0..Len(Detections) /\ Len(Detections) \in Nat /\ 0 \in Frames
      /\ Limit \in Nat /\ MaxPages \in Nat
  BY BoxTypes, OverlayConstants DEF Overlay!DetectionOverlayAssumption
<1>2. BufferInv
  BY <1>1 DEF Overlay!Init, Overlay!Empty, BufferInv, OneRunOfPage
<1> QED  BY <1>1, <1>2 DEF Overlay!Init, OverlayInv

(* Rows that come later leave the windows as they are.                     *)
LEMMA OverlayGrows ==
    ASSUME OverlayInv, overlay_stored' \in overlay_stored..Len(Detections)
    PROVE  /\ BufferInv /\ UNCHANGED overlay_buffer => BufferInv'
           /\ \A l \in overlay_loads : LoadInv(l)'
<1>1. 0..overlay_stored \subseteq 0..overlay_stored' /\ 1..overlay_stored \subseteq 1..overlay_stored'
  BY BoxTypes, OverlayConstants DEF OverlayInv, Overlay!DetectionOverlayAssumption
<1>2. BufferInv /\ UNCHANGED overlay_buffer => BufferInv'
  BY <1>1 DEF BufferInv
<1>3. \A l \in overlay_loads : LoadInv(l)'
  BY <1>1 DEF LoadInv, OverlayInv
<1> QED  BY <1>2, <1>3

(* A window starts around the playhead with nothing read.                  *)
LEMMA TickStep == OverlayInv /\ Overlay!Tick => OverlayInv'
<1> SUFFICES ASSUME OverlayInv, Overlay!Tick PROVE OverlayInv'  OBVIOUS
<1>0. PICK l : l = [from |-> Overlay!Start, to |-> Overlay!Start + Window, cursor |-> Overlay!Start,
                    page |-> 0, rows |-> {}, asof |-> overlay_stored]
  OBVIOUS
<1>1. /\ UNCHANGED <<overlay_stored, overlay_enabled, overlay_playhead, overlay_buffer>>
      /\ overlay_loads' = overlay_loads \union {l}
  BY <1>0 DEF Overlay!Tick
<1>2. /\ Overlay!Start \in Nat /\ Window \in Nat /\ MaxPages \in Nat \ {0}
      /\ overlay_stored \in 0..Len(Detections)
  BY BoxTypes, OverlayConstants DEF Overlay!DetectionOverlayAssumption, Overlay!Start, OverlayInv
<1>3. LoadInv(l)'
  <2>1. /\ l.from = Overlay!Start /\ l.to = Overlay!Start + Window /\ l.cursor = Overlay!Start
        /\ l.page = 0 /\ l.rows = {} /\ l.asof = overlay_stored
    BY <1>0
  <2>2. l = [from |-> l.from, to |-> l.to, cursor |-> l.cursor, page |-> l.page,
             rows |-> l.rows, asof |-> l.asof]
    BY <1>0
  <2> QED  BY <1>1, <1>2, <2>1, <2>2 DEF LoadInv, OneRunOfPage
<1>4. overlay_stored' \in overlay_stored..Len(Detections)
  BY <1>1, <1>2, BoxTypes
<1>5. BufferInv' /\ \A x \in overlay_loads : LoadInv(x)'
  BY <1>1, <1>4, OverlayGrows DEF OverlayInv
<1> QED  BY <1>1, <1>3, <1>5 DEF OverlayInv

(* One request: the window goes on, or ends and is kept.                   *)
LEMMA FetchStep ==
    ASSUME OverlayInv, NEW l \in overlay_loads, Overlay!FetchPage(l)
    PROVE  OverlayInv'
<1> DEFINE S == Overlay!Latest(1..overlay_stored, l.cursor, l.to)
           cut == Overlay!CutAtFrameBoundary(S)
           rows == l.rows \union cut.rows
           more == cut.next # NA /\ cut.next > l.cursor /\ l.page + 1 < MaxPages
           lnext == [l EXCEPT !.cursor = cut.next, !.page = @ + 1, !.rows = rows]
           kept == [from |-> l.from, to |-> Overlay!CoveredTo(l, cut.next), rows |-> rows, asof |-> l.asof]
<1>1. /\ UNCHANGED <<overlay_stored, overlay_enabled, overlay_playhead>>
      /\ IF more THEN /\ overlay_loads' = (overlay_loads \ {l}) \union {lnext}
                      /\ UNCHANGED overlay_buffer
                 ELSE /\ overlay_loads' = overlay_loads \ {l} /\ overlay_buffer' = kept
  BY DEF Overlay!FetchPage, Overlay!Table
<1>2. LoadInv(l)  BY DEF OverlayInv
<1>3. overlay_stored \in 0..Len(Detections) /\ MaxPages \in Nat
  BY BoxTypes, OverlayConstants DEF Overlay!DetectionOverlayAssumption, OverlayInv
<1>4. /\ S \subseteq 1..overlay_stored /\ S \in SUBSET (1..Len(Detections)) /\ OneRun(S)
      /\ \A i \in S : Overlay!Between(Detections[i].pts, l.cursor, l.to)
  BY <1>2, <1>3, LatestRows DEF LoadInv
<1>5. l.cursor \in Nat /\ l.to \in Nat /\ l.from \in Nat /\ l.asof \in 0..overlay_stored
  BY <1>2 DEF LoadInv
<1>6. /\ \A i \in S : Detections[i].pts \in Nat
      /\ \A i \in l.rows : Detections[i].pts \in Nat
  BY <1>2, <1>3, <1>4, BoxTypes DEF LoadInv
<1>7. \A p \in Nat : Overlay!Between(p, l.cursor, l.to) /\ (cut.next = NA \/ p < cut.next) =>
        Overlay!Shows(rows, l.asof, p)
  <2> SUFFICES ASSUME NEW p \in Nat, Overlay!Between(p, l.cursor, l.to), cut.next = NA \/ p < cut.next
               PROVE  Overlay!Shows(rows, l.asof, p)
    OBVIOUS
  <2>1. Overlay!Shows(cut.rows, l.asof, p)  BY <1>3, <1>5, PageShows
  <2> QED  BY <2>1, ShowsMore
<1>8. \A p \in Nat : l.from <= p /\ p < l.cursor => Overlay!Shows(rows, l.asof, p)
  <2> SUFFICES ASSUME NEW p \in Nat, l.from <= p, p < l.cursor
               PROVE  Overlay!Shows(rows, l.asof, p)
    OBVIOUS
  <2>1. Overlay!Shows(l.rows, l.asof, p)  BY <1>2 DEF LoadInv
  <2> QED  BY <2>1, ShowsMore
<1> HIDE DEF S, cut
<1>9. \/ cut.next = NA /\ cut.rows = S
      \/ \E g \in S : cut.next = Detections[g].pts /\ cut.rows = {i \in S : Detections[i].pts < Detections[g].pts}
      \/ \E g \in S : /\ cut.next = Detections[g].pts + 1
                      /\ \A i \in cut.rows : i \in S /\ Detections[i].pts = Detections[g].pts /\ ~Overlay!FitsPage(i)
  <2>1. ASSUME NEW g \in S, cut.next = Detections[g].pts + 1,
               cut.rows \subseteq Overlay!Of(S, Detections[g].pts),
               Cardinality(Overlay!Of(S, Detections[g].pts)) > Limit
        PROVE  \A i \in cut.rows : i \in S /\ Detections[i].pts = Detections[g].pts /\ ~Overlay!FitsPage(i)
    <3> SUFFICES ASSUME NEW i \in cut.rows
                 PROVE  i \in S /\ Detections[i].pts = Detections[g].pts /\ ~Overlay!FitsPage(i)
      OBVIOUS
    <3>1. i \in Overlay!Of(S, Detections[g].pts)  BY <2>1
    <3>2. i \in S /\ Detections[i].pts = Detections[g].pts  BY <3>1 DEF Overlay!Of, Overlay!At
    <3> QED  BY <1>4, <2>1, <3>1, <3>2, LargeFrames
  <2> QED  BY <1>4, <2>1, PageEnds DEF cut
<1>10. cut.rows \subseteq S  BY <1>9
<1>11. cut.next = NA \/ (cut.next \in Nat /\ cut.next # NA)
  <2>1. \A g \in S : Detections[g].pts \in Nat /\ Detections[g].pts + 1 \in Nat  BY <1>6
  <2>2. NA \notin Nat  BY OverlayConstants DEF Overlay!DetectionOverlayAssumption
  <2> QED  BY <1>9, <2>1, <2>2
<1>12. rows \subseteq 1..overlay_stored
  BY <1>2, <1>4, <1>10 DEF LoadInv
<1>13. OneRunOfPage(rows)
  <2> SUFFICES ASSUME NEW i \in rows, NEW j \in rows, Detections[i].pts = Detections[j].pts,
                      Overlay!FitsPage(i), Overlay!FitsPage(j)
               PROVE  Detections[i].ts = Detections[j].ts
    BY DEF OneRunOfPage
  <2>1. CASE i \in l.rows /\ j \in l.rows  BY <1>2, <2>1 DEF LoadInv, OneRunOfPage
  <2>2. CASE i \in S /\ j \in S  BY <1>4, <2>2 DEF OneRun
  <2>3. ASSUME NEW x \in l.rows, NEW y \in S, Detections[x].pts = Detections[y].pts PROVE ~Overlay!FitsPage(x)
    <3>1. Detections[x].pts < l.cursor /\ Overlay!Between(Detections[x].pts, l.cursor, l.to)
      BY <1>2, <1>4, <2>3 DEF LoadInv
    <3>2. l.to < l.cursor /\ l.to <= Detections[x].pts
      BY <1>5, <1>6, <3>1 DEF Overlay!Between
    <3> QED  BY <1>2, <3>2 DEF LoadInv
  <2> QED  BY <1>10, <2>1, <2>2, <2>3
<1>14. ASSUME more
       PROVE  /\ \A i \in rows : Detections[i].pts < cut.next
              /\ \A p \in Nat : l.from <= p /\ p < cut.next => Overlay!Shows(rows, l.asof, p)
              /\ l.to < cut.next => \A i \in rows : l.to <= Detections[i].pts => ~Overlay!FitsPage(i)
  <2>0. cut.next \in Nat /\ cut.next > l.cursor  BY <1>11, <1>14
  <2>1. \/ \E g \in S : cut.next = Detections[g].pts /\ cut.rows = {i \in S : Detections[i].pts < Detections[g].pts}
        \/ \E g \in S : /\ cut.next = Detections[g].pts + 1
                        /\ \A i \in cut.rows : i \in S /\ Detections[i].pts = Detections[g].pts /\ ~Overlay!FitsPage(i)
    BY <1>9, <1>14
  <2>2. \A i \in cut.rows : Detections[i].pts < cut.next  BY <1>6, <2>1
  <2>3. \A i \in l.rows : Detections[i].pts < l.cursor  BY <1>2 DEF LoadInv
  <2>4. \A i \in rows : Detections[i].pts < cut.next
    BY <1>5, <1>6, <2>0, <2>2, <2>3
  <2>5. ASSUME NEW p \in Nat, l.cursor <= p, p < cut.next PROVE Overlay!Between(p, l.cursor, l.to)
    <3>1. PICK g \in S : cut.next = Detections[g].pts \/ cut.next = Detections[g].pts + 1  BY <2>1
    <3>2. p <= Detections[g].pts /\ Detections[g].pts \in Nat
      BY <1>6, <2>0, <2>5, <3>1
    <3>3. Overlay!Between(Detections[g].pts, l.cursor, l.to)  BY <1>4
    <3> QED  BY <1>5, <2>5, <3>2, <3>3 DEF Overlay!Between
  <2>6. \A p \in Nat : l.from <= p /\ p < cut.next => Overlay!Shows(rows, l.asof, p)
    <3> SUFFICES ASSUME NEW p \in Nat, l.from <= p, p < cut.next PROVE Overlay!Shows(rows, l.asof, p)
      OBVIOUS
    <3>1. p < l.cursor \/ l.cursor <= p  BY <1>5
    <3> QED  BY <1>7, <1>8, <2>5, <3>1
  <2>7. ASSUME l.to < cut.next, NEW i \in rows, l.to <= Detections[i].pts PROVE ~Overlay!FitsPage(i)
    <3>1. CASE i \in l.rows
      <4>1. l.to < l.cursor  BY <1>5, <1>6, <2>3, <2>7, <3>1
      <4> QED  BY <1>2, <2>7, <3>1, <4>1 DEF LoadInv
    <3>2. CASE i \in cut.rows
      <4>1. ASSUME NEW g \in S, cut.next = Detections[g].pts PROVE FALSE
        <5>1. Overlay!Between(Detections[g].pts, l.cursor, l.to)  BY <1>4
        <5> QED  BY <1>5, <1>6, <2>0, <2>7, <4>1, <5>1 DEF Overlay!Between
      <4> QED  BY <2>1, <3>2, <4>1
    <3> QED  BY <3>1, <3>2
  <2> QED  BY <2>4, <2>6, <2>7
<1>15. ASSUME more, NEW x, x = lnext PROVE LoadInv(x)'
  <2> HIDE DEF rows, more
  <2>0. l = [from |-> l.from, to |-> l.to, cursor |-> l.cursor, page |-> l.page,
             rows |-> l.rows, asof |-> l.asof]
    BY <1>2 DEF LoadInv
  <2>1. /\ x = [from |-> l.from, to |-> l.to, cursor |-> cut.next, page |-> l.page + 1,
                    rows |-> rows, asof |-> l.asof]
    <3>1. lnext = [l EXCEPT !.cursor = cut.next, !.page = @ + 1, !.rows = rows]  OBVIOUS
    <3> QED  BY <2>0, <1>15, <3>1
  <2>2. cut.next \in Nat /\ l.from <= cut.next /\ l.page + 1 \in Nat /\ l.page + 1 < MaxPages
    BY <1>2, <1>3, <1>11, <1>15 DEF LoadInv, more
  <2> HIDE DEF lnext
  <2>3. /\ x.from = l.from /\ x.to = l.to /\ x.cursor = cut.next
        /\ x.page = l.page + 1 /\ x.rows = rows /\ x.asof = l.asof
    BY <2>1
  <2> QED  BY <1>1, <1>5, <1>12, <1>13, <1>14, <1>15, <2>1, <2>2, <2>3 DEF LoadInv
<1>16. ASSUME ~more, overlay_buffer' = kept PROVE BufferInv'
  <2> DEFINE reach == Overlay!CoveredTo(l, cut.next)
  <2>1. reach \in Int
    BY <1>5, <1>11 DEF Overlay!CoveredTo
  <2>2. \A p \in Nat : l.from <= p /\ p < reach => Overlay!Shows(rows, l.asof, p)
    <3> SUFFICES ASSUME NEW p \in Nat, l.from <= p, p < reach PROVE Overlay!Shows(rows, l.asof, p)
      OBVIOUS
    <3>1. CASE p < l.cursor  BY <1>8, <3>1
    <3>2. CASE ~(p < l.cursor)
      <4>1. l.cursor <= p  BY <1>5, <3>2
      <4>2. CASE cut.next = NA
        <5>1. p < l.to  BY <4>2 DEF Overlay!CoveredTo
        <5>2. Overlay!Between(p, l.cursor, l.to)  BY <1>5, <4>1, <5>1 DEF Overlay!Between
        <5> QED  BY <1>7, <4>2, <5>2
      <4>3. CASE cut.next # NA
        <5>1. cut.next > l.cursor /\ p < cut.next /\ cut.next \in Nat
          BY <1>5, <1>11, <4>1, <4>3 DEF Overlay!CoveredTo
        <5>2. PICK g \in S : cut.next = Detections[g].pts \/ cut.next = Detections[g].pts + 1  BY <1>9, <4>3
        <5>3. p <= Detections[g].pts /\ Detections[g].pts \in Nat  BY <1>6, <5>1, <5>2
        <5>4. Overlay!Between(Detections[g].pts, l.cursor, l.to)  BY <1>4
        <5>5. Overlay!Between(p, l.cursor, l.to)
          BY <1>5, <4>1, <5>1, <5>2, <5>3, <5>4 DEF Overlay!Between
        <5> QED  BY <1>7, <5>1, <5>5
      <4> QED  BY <4>2, <4>3
    <3> QED  BY <3>1, <3>2
  <2> HIDE DEF reach, rows
  <2>3. /\ overlay_buffer'.from = l.from /\ overlay_buffer'.to = reach
        /\ overlay_buffer'.rows = rows /\ overlay_buffer'.asof = l.asof
    BY <1>16 DEF reach
  <2> QED  BY <1>1, <1>5, <1>12, <1>13, <2>1, <2>2, <2>3 DEF BufferInv
<1>17. overlay_stored' \in overlay_stored..Len(Detections)
  BY <1>1, <1>3, BoxTypes
<1>18. (UNCHANGED overlay_buffer => BufferInv') /\ \A x \in overlay_loads : LoadInv(x)'
  BY <1>17, OverlayGrows DEF OverlayInv
<1> HIDE DEF more, lnext, kept
<1> QED  BY <1>1, <1>15, <1>16, <1>18 DEF OverlayInv

(* The other steps read nothing.                                           *)
LEMMA OverlayRests ==
    ASSUME OverlayInv,
           \/ \E l \in overlay_loads : Overlay!LoadFails(l)
           \/ Overlay!Toggle \/ Overlay!Play \/ Overlay!Store \/ UNCHANGED overlayVars
    PROVE  OverlayInv'
<1>1. /\ overlay_stored \in 0..Len(Detections) /\ overlay_stored \in Detected..Len(Detections)
      /\ Detected \in Nat /\ Len(Detections) \in Nat
  BY BoxTypes, OverlayConstants DEF Overlay!DetectionOverlayAssumption, OverlayInv
<1>2. overlay_stored' \in overlay_stored..Len(Detections) /\ overlay_stored' \in Detected..Len(Detections)
  BY <1>1 DEF Overlay!LoadFails, Overlay!Toggle, Overlay!Play, Overlay!Store, overlayVars
<1>3. /\ overlay_enabled' \in BOOLEAN /\ overlay_playhead' \in Frames
      /\ overlay_loads' \subseteq overlay_loads
  BY DEF Overlay!LoadFails, Overlay!Toggle, Overlay!Play, Overlay!Store, overlayVars, OverlayInv
<1>4. \A x \in overlay_loads : LoadInv(x)'
  BY <1>2, OverlayGrows
<1>5. BufferInv'
  <2>1. UNCHANGED overlay_buffer => BufferInv'  BY <1>2, OverlayGrows DEF OverlayInv
  <2>2. CASE overlay_buffer' = Overlay!Empty
    <3>1. 0 \in 0..overlay_stored'  BY <1>1, <1>2
    <3> QED  BY <2>2, <3>1 DEF Overlay!Empty, BufferInv, OneRunOfPage
  <2>3. UNCHANGED overlay_buffer \/ overlay_buffer' = Overlay!Empty
    BY DEF Overlay!LoadFails, Overlay!Toggle, Overlay!Play, Overlay!Store, overlayVars
  <2> QED  BY <2>1, <2>2, <2>3
<1> QED  BY <1>2, <1>3, <1>4, <1>5 DEF OverlayInv

(* Every step of the overlay keeps the invariant.                          *)
LEMMA OverlayStep == OverlayInv /\ [Overlay!Next]_overlayVars => OverlayInv'
  BY TickStep, FetchStep, OverlayRests DEF Overlay!Next

(* At a playhead of the buffer, what the buffer shows is drawn.            *)
LEMMA OverlayHolds == OverlayInv => Overlay!BoxesAreTheFrames
<1> SUFFICES ASSUME OverlayInv PROVE Overlay!BoxesAreTheFrames  OBVIOUS
<1> DEFINE b == overlay_buffer
<1>1. /\ b.rows \subseteq 1..overlay_stored /\ 1..overlay_stored \subseteq 1..Len(Detections)
      /\ overlay_playhead \in Nat /\ Tolerance \in Nat
  BY BoxTypes, OverlayConstants DEF Overlay!DetectionOverlayAssumption, OverlayInv, BufferInv
<1>2. Overlay!TypeOK
  <2>1. \A l \in overlay_loads : l.rows \subseteq 1..overlay_stored /\ l.page < MaxPages /\ l.from <= l.cursor
    BY DEF OverlayInv, LoadInv
  <2> QED  BY <1>1, <2>1, BoxTypes DEF Overlay!TypeOK, OverlayInv
<1>3. Overlay!FrameIsOneRun
  BY DEF OverlayInv, BufferInv, OneRunOfPage, Overlay!FrameIsOneRun, Overlay!At
<1>4. Overlay!CoveredIsDrawn
  <2> SUFFICES ASSUME overlay_enabled, b.from <= overlay_playhead, overlay_playhead < b.to
               PROVE  Overlay!Shows(Overlay!Drawn, b.asof, overlay_playhead)
    BY DEF Overlay!CoveredIsDrawn
  <2> DEFINE here == Overlay!Of(b.rows, overlay_playhead)
  <2>1. Overlay!Shows(b.rows, b.asof, overlay_playhead)
    BY <1>1 DEF OverlayInv, BufferInv
  <2>2. here \subseteq Overlay!Drawn
    <3> SUFFICES ASSUME NEW i \in b.rows, Detections[i].pts = overlay_playhead
                 PROVE  i \in Overlay!Drawn
      BY DEF Overlay!Of, Overlay!At
    <3>1. \A j \in b.rows : Detections[j].pts \in Nat  BY <1>1, BoxTypes
    <3>2. Overlay!Off(i) = 0  BY <1>1, <3>1 DEF Overlay!Off, Overlay!At
    <3>3. \A j \in b.rows : 0 <= Overlay!Off(j)  BY <1>1, <3>1 DEF Overlay!Off, Overlay!At
    <3> QED  BY <1>1, <3>2, <3>3 DEF Overlay!Drawn
  <2>3. here \subseteq Overlay!Of(Overlay!Drawn, overlay_playhead)
    BY <2>2 DEF Overlay!Of
  <2>4. \A due : (\A i \in due : Detections[i].pts = overlay_playhead) /\ due \subseteq b.rows => due \subseteq Overlay!Drawn
    BY <2>2 DEF Overlay!Of, Overlay!At
  <2>5. \A i \in Overlay!Of(Overlay!Latest(1..b.asof, overlay_playhead, overlay_playhead), overlay_playhead) :
          Detections[i].pts = overlay_playhead
    BY DEF Overlay!Of, Overlay!At
  <2> QED  BY <2>1, <2>3, <2>4, <2>5 DEF Overlay!Shows
<1> QED  BY <1>2, <1>3, <1>4 DEF Overlay!BoxesAreTheFrames

(* Whatever windows are under way, end late, are cut off or fail, and      *)
(* whatever a run stores while they are paged through: the boxes of a      *)
(* frame are those of one run, and a frame the overlay takes for covered   *)
(* is drawn with every box it had, or with those of a newer run            *)
(* (streams.ts cutAtFrameBoundary, detections-window.ts,                   *)
(* detection-overlay.tsx).                                                 *)
THEOREM BoxesHold == ConsoleSpec => []BoxesAreTheFrames
<1>1. ConsoleInit => OverlayInv
  BY OverlayInit DEF ConsoleInit
<1>2. OverlayInv /\ [ConsoleNext]_consoleVars => OverlayInv'
  BY OverlayStep DEF ConsoleNext, consoleVars
<1>3. OverlayInv => BoxesAreTheFrames
  BY OverlayHolds DEF BoxesAreTheFrames
<1> QED  BY <1>1, <1>2, <1>3, PTL DEF ConsoleSpec

-----------------------------------------------------------------------------
(* The alert queue.                                                        *)

(* Alerts that were raised, as anything may carry them.                    *)
Carried(T) == {r \in Screen!Record : \E q \in T : q.id = r.id}

FeedInv ==
    /\ screen_table \subseteq Screen!Record /\ IsFiniteSet(screen_table)
    /\ \A q, r \in screen_table : q.id = r.id => q = r
    /\ screen_notices \subseteq Screen!Raised \X Nat
    /\ screen_replays \subseteq Carried(screen_table)
    /\ screen_recent \subseteq Alerts \X Nat
    /\ screen_stream \in {"connecting", "live", "retrying", "fatal"}
    /\ screen_wire \in Seq(Carried(screen_table))
    /\ screen_sightings \in Nat

(* The list and the buffer share no alert, and the buffer has each once.   *)
ListInv ==
    /\ screen_screen \in Seq(Carried(screen_table))
    /\ screen_pending \in Seq(Carried(screen_table))
    /\ screen_cursor = NA \/ Screen!On(screen_cursor, screen_screen)
    /\ Screen!ShownInOneList

(* A read that was answered carries raised alerts; a transition on its way *)
(* has its alert's row.                                                    *)
GoodRead(d, T) ==
    /\ DOMAIN d = {"n", "kind", "from", "served", "page"} /\ d = [x \in DOMAIN d |-> d[x]]
    /\ d.kind \in {"list", "more", "row"}
    /\ IF d.kind = "row" THEN \E q \in T : q.id = d.from ELSE d.from \in Nat
    /\ d.page.rows \in Seq(Carried(T)) /\ d.page.next \in Nat
    /\ d.kind = "row" /\ d.served => d.page.rows # <<>>

GoodKey(k, T) ==
    /\ DOMAIN k = {"n", "id", "to", "answer", "row"} /\ k = [x \in DOMAIN k |-> k[x]]
    /\ k.to \in Screen!Status
    /\ k.row \in Carried(T) /\ k.row.id = k.id

(* A pinned row has what it will put back, and an answer to come.          *)
AskedInv ==
    /\ screen_more \in Nat
    /\ \A d \in screen_reads : GoodRead(d, screen_table)
    /\ \A k \in screen_keys : GoodKey(k, screen_table)
    /\ \A a \in DOMAIN screen_inFlight :
         /\ screen_inFlight[a] \in Carried(screen_table) /\ screen_inFlight[a].id = a
         /\ \E k \in screen_keys : k.id = a

QueueInv == FeedInv /\ ListInv /\ AskedInv

(* The cardinality and the injections the screen's module means are these. *)
LEMMA SameSize == \A S : Screen!Cardinality(S) = Cardinality(S)
  BY DEF Screen!Cardinality, Cardinality

(* What carries a raised alert still does when more are raised.            *)
LEMMA CarriedGrows ==
    ASSUME NEW S, NEW T, \A q \in S : \E r \in T : r.id = q.id
    PROVE  Carried(S) \subseteq Carried(T) /\ \A s \in Seq(Carried(S)) : s \in Seq(Carried(T))
<1>1. Carried(S) \subseteq Carried(T)  BY DEF Carried
<1> HIDE DEF Carried
<1> QED  BY <1>1

(* The table's row of a raised alert.                                      *)
LEMMA RowOfRaised ==
    ASSUME NEW a, \E q \in screen_table : q.id = a
    PROVE  Screen!RowOf(a) \in screen_table /\ Screen!RowOf(a).id = a
  BY DEF Screen!RowOf

(* The first row of an alert in a sequence.                                *)
LEMMA FirstRow ==
    ASSUME NEW S, NEW s \in Seq(S), NEW a, Screen!On(a, s)
    PROVE  \E i \in 1..Len(s) : s[i].id = a /\ \A j \in 1..Len(s) : s[j].id = a => i <= j
<1> DEFINE places == {k \in 1..Len(s) : s[k].id = a}
<1>1. places # {} /\ places \in SUBSET Nat  BY DEF Screen!On
<1>2. IsFiniteSet(places)
  <2>1. Len(s) \in Int /\ 1 \in Int  OBVIOUS
  <2>2. IsFiniteSet(1..Len(s))  BY <2>1, FS_Interval
  <2> QED  BY <2>2, FS_Subset
<1>3. \E i \in places : \A j \in places : i <= j
  <2> HIDE DEF places
  <2> QED  BY <1>1, <1>2, LeastElement
<1> QED  BY <1>3

LEMMA FindRow ==
    ASSUME NEW S, NEW s \in Seq(S), NEW a, Screen!On(a, s)
    PROVE  Screen!Find(a, s) \in S /\ Screen!Find(a, s).id = a
<1>1. \E p \in 1..Len(s) : s[p].id = a /\ \A j \in 1..Len(s) : s[j].id = a => p <= j
  BY FirstRow
<1> DEFINE first == CHOOSE i \in DOMAIN s : s[i].id = a /\ \A j \in DOMAIN s : s[j].id = a => i <= j
<1>2. first \in 1..Len(s) /\ s[first].id = a
  <2>1. DOMAIN s = 1..Len(s)  OBVIOUS
  <2> QED  BY <1>1, <2>1
<1>3. Screen!Find(a, s) = s[first]  BY DEF Screen!Find
<1> HIDE DEF first
<1> QED  BY <1>2, <1>3, ElementOfSeq

(* Rows keep their places.                                                 *)
SameRows(s, t) == Len(t) = Len(s) /\ \A i \in 1..Len(s) : t[i].id = s[i].id

LEMMA SameIds ==
    ASSUME NEW S, NEW s \in Seq(S), NEW t \in Seq(S), SameRows(s, t)
    PROVE  Screen!Ids(t) = Screen!Ids(s) /\ \A a : Screen!On(a, t) <=> Screen!On(a, s)
  BY DEF Screen!Ids, Screen!On, SameRows

LEMMA PutRow ==
    ASSUME NEW S, NEW s \in Seq(S), NEW r \in S, Screen!On(r.id, s)
    PROVE  Screen!Put(r, s) \in Seq(S) /\ SameRows(s, Screen!Put(r, s))
<1>1. \E p \in 1..Len(s) : s[p].id = r.id /\ \A j \in 1..Len(s) : s[j].id = r.id => p <= j
  BY FirstRow
<1> DEFINE first == CHOOSE i \in DOMAIN s : s[i].id = r.id /\ \A j \in DOMAIN s : s[j].id = r.id => i <= j
<1>2. first \in 1..Len(s) /\ s[first].id = r.id
  <2>1. DOMAIN s = 1..Len(s)  OBVIOUS
  <2> QED  BY <1>1, <2>1
<1>3. Screen!Put(r, s) = [s EXCEPT ![first] = r]  BY DEF Screen!Put
<1> HIDE DEF first
<1>4. /\ [s EXCEPT ![first] = r] \in Seq(S) /\ Len([s EXCEPT ![first] = r]) = Len(s)
      /\ \A j \in 1..Len(s) : [s EXCEPT ![first] = r][j] = IF j = first THEN r ELSE s[j]
  BY <1>2, ExceptSeq
<1> QED  BY <1>2, <1>3, <1>4 DEF SameRows

(* Where sorting puts the rows: each after those ahead of it.              *)
LEMMA SortedIs ==
    ASSUME NEW s
    PROVE  Screen!Sorted(s) = [k \in DOMAIN s |-> s[CHOOSE i \in DOMAIN s :
               [h \in DOMAIN s |-> Screen!Cardinality({j \in DOMAIN s :
                    \/ Screen!Before(s[j], s[h])
                    \/ ~Screen!Before(s[h], s[j]) /\ j < h})][i] = k - 1]]
  BY DEF Screen!Sorted

(* Sorting keeps every row.                                                *)
LEMMA SortedRows ==
    ASSUME NEW S \in SUBSET Screen!Record, NEW s \in Seq(S)
    PROVE  /\ Screen!Sorted(s) \in Seq(S) /\ Len(Screen!Sorted(s)) = Len(s)
           /\ \A a : Screen!On(a, Screen!Sorted(s)) <=> Screen!On(a, s)
<1> DEFINE Ahead(i, j) == Screen!Before(s[i], s[j]) \/ (~Screen!Before(s[j], s[i]) /\ i < j)
           D == DOMAIN s
           place == [i \in D |-> Screen!Cardinality({j \in D : Ahead(j, i)})]
           c(k) == CHOOSE i \in D : place[i] = k - 1
           order == {p \in D \X D : Ahead(p[1], p[2])}
<1>1. D = 1..Len(s) /\ Len(s) \in Nat /\ D \subseteq Nat  OBVIOUS
<1>2. \A i \in D : s[i] \in S /\ Ranking[s[i].id] \in Nat /\ s[i].seen \in Nat
  <2> SUFFICES ASSUME NEW i \in D PROVE s[i] \in S /\ Ranking[s[i].id] \in Nat /\ s[i].seen \in Nat
    OBVIOUS
  <2>1. s[i] \in S  BY ElementOfSeq
  <2> QED  BY <2>1, ScreenConstants DEF Screen!ScreenAssumption, Screen!Record
<1>3. \A i, j \in D : <<i, j>> \in order <=> Ahead(i, j)
  OBVIOUS
<1>4. TotalOn(D, order)
  <2>1. ASSUME NEW i \in D PROVE ~Ahead(i, i)
    BY <1>1, <1>2 DEF Screen!Before
  <2>2. ASSUME NEW i \in D, NEW j \in D PROVE i = j \/ Ahead(i, j) \/ Ahead(j, i)
    BY <1>1
  <2>3. ASSUME NEW i \in D, NEW j \in D, NEW k \in D, Ahead(i, j), Ahead(j, k) PROVE Ahead(i, k)
    BY <1>1, <1>2, <2>3 DEF Screen!Before
  <2> HIDE DEF order, D, Ahead
  <2> QED  BY <1>3, <2>1, <2>2, <2>3 DEF TotalOn
<1>5. IsFiniteSet(D) /\ Cardinality(D) = Len(s)
  <2>1. Len(s) \in Int /\ 1 \in Int  OBVIOUS
  <2> QED  BY <1>1, <2>1, FS_Interval
<1>6. \A i \in D : place[i] = RankIn(D, order, i)
  BY <1>3, SameSize DEF RankIn
<1>7. Screen!Sorted(s) = [k \in D |-> s[c(k)]]
  BY SortedIs
<1> HIDE DEF place, order, D
<1>8. \A i \in D : RankIn(D, order, i) \in 0..(Len(s) - 1)
  BY <1>4, <1>5, RanksIn
<1>9. \A k \in 0..(Len(s) - 1) : \E i \in D : RankIn(D, order, i) = k
  BY <1>4, <1>5, RanksIn
<1>10. \A i, j \in D : RankIn(D, order, i) = RankIn(D, order, j) => i = j
  BY <1>4, <1>5, RanksIn
<1>11. \A k \in D : c(k) \in D /\ place[c(k)] = k - 1
  <2> SUFFICES ASSUME NEW k \in D PROVE c(k) \in D /\ place[c(k)] = k - 1
    OBVIOUS
  <2>1. k - 1 \in 0..(Len(s) - 1)  BY <1>1 DEF D
  <2>2. \E i \in D : place[i] = k - 1  BY <1>6, <1>9, <2>1
  <2> QED  BY <2>2
<1>12. \A i \in D : \E k \in D : c(k) = i
  <2> SUFFICES ASSUME NEW i \in D PROVE \E k \in D : c(k) = i
    OBVIOUS
  <2>1. place[i] \in 0..(Len(s) - 1)  BY <1>6, <1>8
  <2>2. place[i] + 1 \in D /\ (place[i] + 1) - 1 = place[i]  BY <1>1, <2>1 DEF D
  <2> HIDE DEF c
  <2>3. c(place[i] + 1) \in D /\ place[c(place[i] + 1)] = place[i]  BY <1>11, <2>2
  <2>4. c(place[i] + 1) = i  BY <1>6, <1>10, <2>3
  <2> QED  BY <2>2, <2>4
<1> HIDE DEF c
<1>13. Screen!Sorted(s) \in Seq(S) /\ Len(Screen!Sorted(s)) = Len(s)
  <2>1. \A k \in 1..Len(s) : s[c(k)] \in S  BY <1>2, <1>11 DEF D
  <2> QED  BY <1>1, <1>7, <2>1 DEF D
<1>14. ASSUME NEW a PROVE Screen!On(a, Screen!Sorted(s)) <=> Screen!On(a, s)
  <2>1. Screen!On(a, Screen!Sorted(s)) <=> \E k \in D : s[c(k)].id = a
    BY <1>7 DEF Screen!On
  <2>2. Screen!On(a, s) <=> \E i \in D : s[i].id = a
    BY <1>1 DEF Screen!On
  <2> QED  BY <1>11, <1>12, <2>1, <2>2
<1> QED  BY <1>13, <1>14

(* A finite set as a sequence.                                             *)
LEMMA SetAsRows ==
    ASSUME NEW T, IsFiniteSet(T)
    PROVE  Screen!SetToSeq(T) \in Seq(T)
<1>1. Cardinality(T) \in Nat /\ ExistsBijection(1..Cardinality(T), T)
  BY FS_CardinalityType
<1>2. \E f \in [1..Cardinality(T) -> T] : \A i, j \in DOMAIN f : f[i] = f[j] => i = j
  BY <1>1 DEF ExistsBijection, Bijection, Injection, IsInjective
<1>3. Screen!SetToSeq(T) = CHOOSE f \in [1..Cardinality(T) -> T] : \A i, j \in DOMAIN f : f[i] = f[j] => i = j
  BY SameSize DEF Screen!SetToSeq, Screen!IsInjective
<1>4. Screen!SetToSeq(T) \in [1..Cardinality(T) -> T]  BY <1>2, <1>3
<1> QED  BY <1>1, <1>4

(* A page of the list, as the table is now.                                *)
LEMMA PageRows ==
    ASSUME FeedInv, NEW from \in Nat
    PROVE  Screen!Page(from).rows \in Seq(Carried(screen_table)) /\ Screen!Page(from).next \in Nat
<1> DEFINE T == {r \in screen_table : from = 0 \/ r.seen < from}
           all == Screen!Listed(from)
           n == IF Len(all) < PageSize THEN Len(all) ELSE PageSize
           page == SubSeq(all, 1, n)
<1>1. T \in SUBSET Screen!Record /\ T \subseteq Carried(screen_table) /\ IsFiniteSet(T)
  BY FS_Subset DEF FeedInv, Carried
<1>2. all = Screen!Sorted(Screen!SetToSeq(T))
  BY DEF Screen!Listed
<1> HIDE DEF T, all
<1>3. all \in Seq(T)  BY <1>1, <1>2, SetAsRows, SortedRows
<1>4. PageSize \in Nat \ {0}  BY ScreenConstants DEF Screen!ScreenAssumption
<1>5. n \in Nat /\ n <= Len(all)  BY <1>3, <1>4
<1>6. page \in Seq(T) /\ Len(page) = n
  <2>1. \A i \in 1..n : all[i] \in T  BY <1>3, <1>5, ElementOfSeq
  <2> HIDE DEF n
  <2> QED  BY <1>5, <2>1, SubSeqProperties
<1>7. /\ Screen!Page(from).rows = page
      /\ Screen!Page(from).next = IF Len(all) > PageSize THEN Screen!Last(page).seen ELSE 0
  BY DEF Screen!Page, all
<1>8. Len(all) > PageSize => Screen!Last(page).seen \in Nat
  <2> SUFFICES ASSUME Len(all) > PageSize PROVE Screen!Last(page).seen \in Nat
    OBVIOUS
  <2>1. Len(page) = PageSize  BY <1>3, <1>4, <1>6
  <2> HIDE DEF page
  <2>2. page[PageSize] \in T  BY <1>4, <1>6, <2>1, ElementOfSeq
  <2> QED  BY <1>1, <2>1, <2>2 DEF Screen!Last, Screen!Record
<1> HIDE DEF page, n
<1> QED  BY <1>1, <1>6, <1>7, <1>8

(* Rows put together.                                                      *)
LEMMA Joined ==
    ASSUME NEW S, NEW s \in Seq(S), NEW t \in Seq(S)
    PROVE  s \o t \in Seq(S) /\ \A a : Screen!On(a, s \o t) <=> Screen!On(a, s) \/ Screen!On(a, t)
<1>1. /\ s \o t \in Seq(S) /\ Len(s \o t) = Len(s) + Len(t)
      /\ \A i \in 1 .. Len(s) + Len(t) : (s \o t)[i] = IF i <= Len(s) THEN s[i] ELSE t[i - Len(s)]
  BY ConcatProperties
<1>2. /\ DOMAIN s = 1..Len(s) /\ DOMAIN t = 1..Len(t)
      /\ Len(s) \in Nat /\ Len(t) \in Nat
  OBVIOUS
<1>3. DOMAIN (s \o t) = 1..(Len(s) + Len(t))
  BY <1>1
<1> SUFFICES ASSUME NEW a PROVE Screen!On(a, s \o t) <=> Screen!On(a, s) \/ Screen!On(a, t)
  BY <1>1
<1>4. Screen!On(a, s \o t) => Screen!On(a, s) \/ Screen!On(a, t)
  <2> SUFFICES ASSUME NEW i \in 1..(Len(s) + Len(t)), (s \o t)[i].id = a
               PROVE  Screen!On(a, s) \/ Screen!On(a, t)
    BY <1>3 DEF Screen!On
  <2>1. CASE i <= Len(s)
    <3>1. i \in DOMAIN s /\ s[i].id = a  BY <1>1, <1>2, <2>1
    <3> QED  BY <3>1 DEF Screen!On
  <2>2. CASE ~(i <= Len(s))
    <3>1. i - Len(s) \in DOMAIN t /\ t[i - Len(s)].id = a  BY <1>1, <1>2, <2>2
    <3> QED  BY <3>1 DEF Screen!On
  <2> QED  BY <2>1, <2>2
<1>5. ASSUME NEW i \in DOMAIN s, s[i].id = a PROVE Screen!On(a, s \o t)
  <2>1. i \in DOMAIN (s \o t) /\ (s \o t)[i] = s[i]  BY <1>1, <1>2, <1>3
  <2> QED  BY <1>5, <2>1 DEF Screen!On
<1>6. ASSUME NEW i \in DOMAIN t, t[i].id = a PROVE Screen!On(a, s \o t)
  <2>1. i + Len(s) \in DOMAIN (s \o t) /\ (s \o t)[i + Len(s)] = t[i]  BY <1>1, <1>2, <1>3
  <2> QED  BY <1>6, <2>1 DEF Screen!On
<1> QED  BY <1>4, <1>5, <1>6 DEF Screen!On

(* An alert put before others that it is not among.                        *)
LEMMA Prepended ==
    ASSUME NEW S, NEW s \in Seq(S), NEW r \in S
    PROVE  /\ <<r>> \o s \in Seq(S)
           /\ \A a : Screen!On(a, <<r>> \o s) <=> a = r.id \/ Screen!On(a, s)
           /\ (\A i, j \in DOMAIN s : s[i].id = s[j].id => i = j) /\ ~Screen!On(r.id, s)
                => \A i, j \in DOMAIN (<<r>> \o s) : (<<r>> \o s)[i].id = (<<r>> \o s)[j].id => i = j
<1> DEFINE one == <<r>>
           t == one \o s
<1>1. one \in Seq(S) /\ Len(one) = 1 /\ one[1] = r /\ DOMAIN one = 1..1  OBVIOUS
<1>2. \A a : Screen!On(a, one) <=> a = r.id  BY <1>1 DEF Screen!On
<1> HIDE DEF one
<1>3. t \in Seq(S) /\ \A a : Screen!On(a, t) <=> a = r.id \/ Screen!On(a, s)
  BY <1>1, <1>2, Joined
<1>4. Len(t) = 1 + Len(s) /\ \A i \in 1..(1 + Len(s)) : t[i] = IF i <= 1 THEN one[i] ELSE s[i - 1]
  <2>1. /\ Len(one \o s) = Len(one) + Len(s)
        /\ \A i \in 1 .. Len(one) + Len(s) : (one \o s)[i] = IF i <= Len(one) THEN one[i] ELSE s[i - Len(one)]
    BY <1>1, ConcatProperties
  <2> QED  BY <1>1, <2>1
<1> HIDE DEF t
<1>5. DOMAIN t = 1..(1 + Len(s)) /\ DOMAIN s = 1..Len(s) /\ Len(s) \in Nat  BY <1>3, <1>4
<1>6. ASSUME \A i, j \in DOMAIN s : s[i].id = s[j].id => i = j, ~Screen!On(r.id, s),
             NEW i \in DOMAIN t, NEW j \in DOMAIN t, t[i].id = t[j].id
      PROVE  i = j
  <2>1. t[1] = r  BY <1>1, <1>4, <1>5
  <2>2. \A h \in DOMAIN t : h # 1 => h - 1 \in DOMAIN s /\ t[h] = s[h - 1]  BY <1>4, <1>5
  <2>3. \A h \in DOMAIN t : h # 1 => t[h].id # r.id  BY <1>6, <2>2 DEF Screen!On
  <2>4. CASE i = 1  BY <1>6, <2>1, <2>3, <2>4
  <2>5. CASE j = 1  BY <1>6, <2>1, <2>3, <2>5
  <2>6. CASE i # 1 /\ j # 1
    <3>1. i - 1 = j - 1  BY <1>6, <2>2, <2>6
    <3> QED  BY <1>5, <3>1
  <2> QED  BY <2>4, <2>5, <2>6
<1> QED  BY <1>3, <1>6 DEF t, one

(* receive: the alert is shown in one place, and unless the officer is     *)
(* idle no row changes its place.                                          *)
LEMMA ReceiveStep ==
    ASSUME NEW S \in SUBSET Screen!Record, screen_screen \in Seq(S), screen_pending \in Seq(S),
           Screen!ShownInOneList, NEW r \in S, NEW idle \in BOOLEAN, Screen!Receive(r, idle)
    PROVE  /\ screen_screen' \in Seq(S) /\ screen_pending' \in Seq(S)
           /\ Screen!ShownInOneList'
           /\ \A a : Screen!On(a, screen_screen) => Screen!On(a, screen_screen')
           /\ ~idle => Screen!Ids(screen_screen') = Screen!Ids(screen_screen)
<1>1. \A a : Screen!On(a, screen_pending) => ~Screen!On(a, screen_screen)
  BY DEF Screen!ShownInOneList, Screen!On
<1>2. DOMAIN screen_pending = 1..Len(screen_pending)  OBVIOUS
<1>3. CASE Screen!On(r.id, screen_screen)
  <2>1. screen_screen' = Screen!Put(r, screen_screen) /\ screen_pending' = screen_pending
    BY <1>3 DEF Screen!Receive
  <2>2. screen_screen' \in Seq(S) /\ SameRows(screen_screen, screen_screen')  BY <1>3, <2>1, PutRow
  <2>3. /\ Screen!Ids(screen_screen') = Screen!Ids(screen_screen)
        /\ \A a : Screen!On(a, screen_screen') <=> Screen!On(a, screen_screen)
    BY <2>2, SameIds
  <2> QED  BY <2>1, <2>2, <2>3 DEF Screen!ShownInOneList
<1>4. CASE ~Screen!On(r.id, screen_screen) /\ Screen!On(r.id, screen_pending)
  <2>1. screen_pending' = Screen!Put(r, screen_pending) /\ screen_screen' = screen_screen
    BY <1>4 DEF Screen!Receive
  <2>2. screen_pending' \in Seq(S) /\ SameRows(screen_pending, screen_pending')
    BY <1>4, <2>1, PutRow
  <2>3. DOMAIN screen_pending' = DOMAIN screen_pending
        /\ \A i \in DOMAIN screen_pending : screen_pending'[i].id = screen_pending[i].id
    BY <1>2, <2>2 DEF SameRows
  <2> QED  BY <2>1, <2>2, <2>3 DEF Screen!ShownInOneList
<1>5. CASE ~Screen!On(r.id, screen_screen) /\ ~Screen!On(r.id, screen_pending) /\ idle
  <2>1. screen_screen' = Screen!Sorted(<<r>> \o screen_screen) /\ screen_pending' = screen_pending
    BY <1>5 DEF Screen!Receive
  <2>2. /\ screen_screen' \in Seq(S)
        /\ \A a : Screen!On(a, screen_screen') <=> Screen!On(a, <<r>> \o screen_screen)
    BY <2>1, Prepended, SortedRows
  <2>3. \A a : Screen!On(a, screen_screen') <=> a = r.id \/ Screen!On(a, screen_screen)
    BY <2>2, Prepended
  <2>4. \A i \in DOMAIN screen_pending : screen_pending[i].id # r.id  BY <1>5 DEF Screen!On
  <2> QED  BY <1>5, <2>1, <2>2, <2>3, <2>4 DEF Screen!ShownInOneList
<1>6. CASE ~Screen!On(r.id, screen_screen) /\ ~Screen!On(r.id, screen_pending) /\ ~idle
  <2>1. screen_pending' = <<r>> \o screen_pending /\ screen_screen' = screen_screen
    BY <1>6 DEF Screen!Receive
  <2>2. /\ screen_pending' \in Seq(S)
        /\ \A a : Screen!On(a, screen_pending') <=> a = r.id \/ Screen!On(a, screen_pending)
        /\ \A i, j \in DOMAIN screen_pending' : screen_pending'[i].id = screen_pending'[j].id => i = j
    <3>1. \A i, j \in DOMAIN screen_pending : screen_pending[i].id = screen_pending[j].id => i = j
      BY DEF Screen!ShownInOneList
    <3> QED  BY <1>6, <2>1, <3>1, Prepended
  <2>3. \A i \in DOMAIN screen_pending' : ~Screen!On(screen_pending'[i].id, screen_screen)
    <3>1. \A i \in DOMAIN screen_pending' : Screen!On(screen_pending'[i].id, screen_pending')
      BY DEF Screen!On
    <3> QED  BY <1>1, <1>6, <2>2, <3>1
  <2> QED  BY <2>1, <2>2, <2>3 DEF Screen!ShownInOneList
<1> QED  BY <1>3, <1>4, <1>5, <1>6

(* replace: whatever the server sent, every row is shown once at most and  *)
(* the cursor stays on a row.                                              *)
LEMMA ReplaceStep ==
    ASSUME NEW S \in SUBSET Screen!Record, screen_screen \in Seq(S), NEW rows \in Seq(S),
           Screen!Replace(rows)
    PROVE  /\ screen_screen' \in Seq(S) /\ screen_pending' \in Seq(S)
           /\ Screen!ShownInOneList'
           /\ screen_cursor' = NA \/ Screen!On(screen_cursor', screen_screen')
<1> DEFINE shown(i) == IF rows[i].id \in DOMAIN screen_inFlight /\ Screen!On(rows[i].id, screen_screen)
                       THEN Screen!Find(rows[i].id, screen_screen) ELSE rows[i]
           merged == [i \in DOMAIN rows |-> shown(i)]
<1>1. /\ screen_screen' = Screen!Sorted(merged) /\ screen_pending' = <<>>
      /\ screen_cursor' = IF Screen!On(screen_cursor, rows) THEN screen_cursor ELSE NA
  BY DEF Screen!Replace
<1>2. DOMAIN rows = 1..Len(rows) /\ Len(rows) \in Nat  OBVIOUS
<1>3. \A i \in DOMAIN rows : shown(i) \in S /\ shown(i).id = rows[i].id
  <2> SUFFICES ASSUME NEW i \in DOMAIN rows PROVE shown(i) \in S /\ shown(i).id = rows[i].id
    OBVIOUS
  <2>1. rows[i] \in S  BY <1>2, ElementOfSeq
  <2>2. Screen!On(rows[i].id, screen_screen)
          => Screen!Find(rows[i].id, screen_screen) \in S
             /\ Screen!Find(rows[i].id, screen_screen).id = rows[i].id
    BY FindRow
  <2> QED  BY <2>1, <2>2
<1> HIDE DEF shown
<1>4. merged \in Seq(S) /\ SameRows(rows, merged)
  BY <1>2, <1>3 DEF SameRows
<1>5. \A a : Screen!On(a, merged) <=> Screen!On(a, rows)  BY <1>4, SameIds
<1> HIDE DEF merged
<1>6. screen_screen' \in Seq(S) /\ \A a : Screen!On(a, screen_screen') <=> Screen!On(a, rows)
  BY <1>1, <1>4, <1>5, SortedRows
<1> QED  BY <1>1, <1>6 DEF Screen!ShownInOneList

(* The table with one row new or written again.                            *)
LEMMA RowsStep ==
    ASSUME FeedInv, NEW r \in Screen!Record,
           screen_table' = {q \in screen_table : q.id # r.id} \union {r}
    PROVE  /\ screen_table' \subseteq Screen!Record /\ IsFiniteSet(screen_table')
           /\ \A p, q \in screen_table' : p.id = q.id => p = q
           /\ \A q \in screen_table : \E p \in screen_table' : p.id = q.id
           /\ r \in screen_table'
<1>1. IsFiniteSet({q \in screen_table : q.id # r.id})  BY FS_Subset DEF FeedInv
<1>2. IsFiniteSet(screen_table')  BY <1>1, FS_AddElement
<1> QED  BY <1>2 DEF FeedInv

(* What the feeds hold is as good when the table has grown.                *)
LEMMA FeedGrows ==
    ASSUME FeedInv, \A q \in screen_table : \E p \in screen_table' : p.id = q.id
    PROVE  /\ screen_notices \subseteq {p.id : p \in screen_table'} \X Nat
           /\ screen_replays \subseteq Carried(screen_table')
           /\ screen_wire \in Seq(Carried(screen_table'))
<1>1. /\ Carried(screen_table) \subseteq Carried(screen_table')
      /\ \A s \in Seq(Carried(screen_table)) : s \in Seq(Carried(screen_table'))
  BY CarriedGrows
<1> QED  BY <1>1 DEF FeedInv, Screen!Raised

LEMMA ListGrows ==
    ASSUME ListInv, \A q \in screen_table : \E p \in screen_table' : p.id = q.id,
           UNCHANGED <<screen_screen, screen_pending, screen_cursor>>
    PROVE  ListInv'
<1>1. \A s \in Seq(Carried(screen_table)) : s \in Seq(Carried(screen_table'))
  BY CarriedGrows
<1> QED  BY <1>1 DEF ListInv, Screen!ShownInOneList

LEMMA GoodGrows ==
    ASSUME \A q \in screen_table : \E p \in screen_table' : p.id = q.id
    PROVE  /\ \A d : GoodRead(d, screen_table) => GoodRead(d, screen_table')
           /\ \A k : GoodKey(k, screen_table) => GoodKey(k, screen_table')
           /\ Carried(screen_table) \subseteq Carried(screen_table')
<1>1. /\ Carried(screen_table) \subseteq Carried(screen_table')
      /\ \A s \in Seq(Carried(screen_table)) : s \in Seq(Carried(screen_table'))
  BY CarriedGrows
<1>2. ASSUME NEW d, GoodRead(d, screen_table) PROVE GoodRead(d, screen_table')
  <2>1. d.page.rows \in Seq(Carried(screen_table'))  BY <1>1, <1>2 DEF GoodRead
  <2>2. IF d.kind = "row" THEN \E q \in screen_table' : q.id = d.from ELSE d.from \in Nat
    BY <1>2 DEF GoodRead
  <2> QED  BY <1>2, <2>1, <2>2 DEF GoodRead
<1>3. ASSUME NEW k, GoodKey(k, screen_table) PROVE GoodKey(k, screen_table')
  BY <1>1, <1>3 DEF GoodKey
<1> QED  BY <1>1, <1>2, <1>3

LEMMA AskedGrows ==
    ASSUME AskedInv, \A q \in screen_table : \E p \in screen_table' : p.id = q.id,
           UNCHANGED <<screen_more, screen_reads, screen_keys, screen_inFlight>>
    PROVE  AskedInv'
  BY GoodGrows DEF AskedInv

(* Nothing of one part changed.                                            *)
LEMMA FeedSame ==
    ASSUME FeedInv, UNCHANGED <<Screen!feed, screen_stream, screen_wire, screen_sightings>>
    PROVE  FeedInv'
  BY DEF FeedInv, Screen!feed, Screen!Raised

LEMMA TableSame ==
    ASSUME UNCHANGED screen_table
    PROVE  \A q \in screen_table : \E p \in screen_table' : p.id = q.id
  OBVIOUS

(* publish                                                                 *)
LEMMA PublishStep ==
    ASSUME NEW S \in SUBSET Screen!Record, NEW r \in S, screen_wire \in Seq(S),
           screen_recent \subseteq Alerts \X Nat, Screen!Publish(r)
    PROVE  screen_wire' \in Seq(S) /\ screen_recent' \subseteq Alerts \X Nat
<1>1. r.id \in Alerts /\ r.seen \in Nat  BY DEF Screen!Record
<1>2. Append(screen_wire, r) \in Seq(S)  BY AppendProperties
<1>3. screen_wire' \in {screen_wire, Append(screen_wire, r)}  BY DEF Screen!Publish
<1>4. screen_recent' \subseteq screen_recent \union {<<r.id, r.seen>>}  BY DEF Screen!Publish
<1>5. <<r.id, r.seen>> \in Alerts \X Nat  BY <1>1
<1>6. screen_recent' \subseteq Alerts \X Nat  BY <1>4, <1>5
<1> QED  BY <1>2, <1>3, <1>6

(* A read asked for.                                                       *)
LEMMA AskedStep ==
    ASSUME AskedInv, NEW kind \in {"list", "more", "row"}, NEW from,
           IF kind = "row" THEN \E q \in screen_table : q.id = from ELSE from \in Nat,
           Screen!Ask(kind, from), UNCHANGED screen_table
    PROVE  \A d \in screen_reads' : GoodRead(d, screen_table')
<1> DEFINE d == [n |-> screen_asked, kind |-> kind, from |-> from, served |-> FALSE,
                 page |-> Screen!Unserved]
<1>1. screen_reads' = screen_reads \union {d}  BY DEF Screen!Ask
<1>2. << >> \in Seq(Carried(screen_table))  BY EmptySeq
<1>3. GoodRead(d, screen_table)  BY <1>2 DEF GoodRead, Screen!Unserved
<1> QED  BY <1>1, <1>3 DEF AskedInv

LEMMA QueueStart == Screen!Init => QueueInv
<1> SUFFICES ASSUME Screen!Init PROVE QueueInv
  OBVIOUS
<1>1. Waiting \in Seq(Alerts) /\ \A i, j \in DOMAIN Waiting : Waiting[i] = Waiting[j] => i = j
  BY ScreenConstants DEF Screen!ScreenAssumption
<1>2. DOMAIN Waiting = 1..Len(Waiting) /\ Len(Waiting) \in Nat  BY <1>1
<1> DEFINE first(i) == [id |-> Waiting[i], seen |-> i, status |-> "new"]
<1>3. screen_table = {first(i) : i \in DOMAIN Waiting}  BY DEF Screen!Init
<1>4. \A i \in DOMAIN Waiting : first(i) \in Screen!Record
  <2> SUFFICES ASSUME NEW i \in DOMAIN Waiting PROVE first(i) \in Screen!Record
    OBVIOUS
  <2>1. Waiting[i] \in Alerts  BY <1>1, <1>2, ElementOfSeq
  <2> QED  BY <1>2, <2>1 DEF Screen!Record, Screen!Status
<1>5. \A i, j \in DOMAIN Waiting : first(i).id = first(j).id => first(i) = first(j)
  BY <1>1
<1> HIDE DEF first
<1>6. IsFiniteSet(screen_table)
  <2>1. 1 \in Int /\ Len(Waiting) \in Int  BY <1>2
  <2>2. IsFiniteSet(DOMAIN Waiting)  BY <1>2, <2>1, FS_Interval
  <2> DEFINE f == [i \in DOMAIN Waiting |-> first(i)]
  <2>3. f \in Surjection(DOMAIN Waiting, screen_table)  BY <1>3 DEF Surjection
  <2> QED  BY <2>2, <2>3, FS_Surjection
<1>7. FeedInv
  <2>1. << >> \in Seq(Carried(screen_table))  BY EmptySeq
  <2> QED  BY <1>2, <1>3, <1>4, <1>5, <1>6, <2>1 DEF FeedInv, Screen!Init
<1>8. Screen!Page(0).rows \in Seq(Carried(screen_table)) /\ Screen!Page(0).next \in Nat
  BY <1>7, PageRows
<1>9. ListInv
  <2>1. << >> \in Seq(Carried(screen_table))  BY EmptySeq
  <2> QED  BY <1>8, <2>1 DEF ListInv, Screen!Init, Screen!ShownInOneList
<1>10. AskedInv  BY <1>8 DEF AskedInv, Screen!Init
<1> QED  BY <1>7, <1>9, <1>10 DEF QueueInv

LEMMA SightStep ==
    ASSUME QueueInv, NEW a \in Alerts, NEW admitted \in BOOLEAN, Screen!Sight(a, admitted)
    PROVE  QueueInv'
<1> USE DEF QueueInv
<1> DEFINE r == [id |-> a, seen |-> screen_sightings + 1,
                 status |-> IF a \in Screen!Raised THEN Screen!RowOf(a).status ELSE "new"]
<1>1. r \in Screen!Record
  <2>1. a \in Screen!Raised => Screen!RowOf(a) \in Screen!Record
    BY RowOfRaised DEF Screen!Raised, FeedInv
  <2>2. r.status \in Screen!Status  BY <2>1 DEF Screen!Record, Screen!Status
  <2> QED  BY <2>2 DEF FeedInv, Screen!Record
<1>2. screen_table' = {q \in screen_table : q.id # r.id} \union {r}  BY DEF Screen!Sight
<1>3. screen_sightings' = screen_sightings + 1  BY DEF Screen!Sight
<1>4. /\ screen_notices' \subseteq screen_notices \union {<<a, r.seen>>}
      /\ IF admitted /\ InProcess THEN Screen!Publish(r) ELSE UNCHANGED <<screen_recent, screen_wire>>
      /\ UNCHANGED <<screen_replays, screen_stream, Screen!queue, screen_more, screen_reads, screen_keys>>
  <2>1. screen_notices' \in {screen_notices} \union
              IF admitted THEN {screen_notices \union {<<a, r.seen>>}} ELSE {}
    BY Zenon DEF Screen!Sight
  <2> QED  BY <2>1 DEF Screen!Sight
<1>5. r.id = a /\ r.seen \in Nat  BY <1>1 DEF Screen!Record
<1> HIDE DEF r
<1>6. /\ screen_table' \subseteq Screen!Record /\ IsFiniteSet(screen_table')
      /\ \A p, q \in screen_table' : p.id = q.id => p = q
      /\ \A q \in screen_table : \E p \in screen_table' : p.id = q.id
      /\ r \in screen_table'
  BY <1>1, <1>2, RowsStep
<1>7. /\ screen_notices \subseteq {p.id : p \in screen_table'} \X Nat
      /\ screen_replays \subseteq Carried(screen_table')
      /\ screen_wire \in Seq(Carried(screen_table'))
  BY <1>6, FeedGrows
<1>8. r \in Carried(screen_table') /\ Carried(screen_table') \subseteq Screen!Record
  BY <1>1, <1>6 DEF Carried
<1>9. screen_wire' \in Seq(Carried(screen_table')) /\ screen_recent' \subseteq Alerts \X Nat
  <2> HIDE DEF QueueInv
  <2>1. screen_recent \subseteq Alerts \X Nat  BY DEF FeedInv, QueueInv
  <2>2. CASE Screen!Publish(r)  BY <1>7, <1>8, <2>1, <2>2, PublishStep
  <2>3. CASE UNCHANGED <<screen_recent, screen_wire>>  BY <1>7, <2>1, <2>3
  <2> QED  BY <1>4, <2>2, <2>3
<1>10. FeedInv'
  BY <1>3, <1>4, <1>5, <1>6, <1>7, <1>9 DEF FeedInv, Screen!Raised
<1>11. ListInv'  BY <1>4, <1>6, ListGrows DEF Screen!queue
<1>12. AskedInv'  BY <1>4, <1>6, AskedGrows DEF Screen!queue
<1> QED  BY <1>10, <1>11, <1>12

LEMMA FeedStep ==
    ASSUME QueueInv, Screen!Reread \/ Screen!Replay
    PROVE  QueueInv'
<1> USE DEF QueueInv
<1>1. UNCHANGED <<screen_table, screen_stream, Screen!queue, screen_more, screen_reads, screen_keys,
                  screen_sightings>>
  BY DEF Screen!Reread, Screen!Replay, Screen!used
<1>2. ListInv' /\ AskedInv'
  BY <1>1, TableSame, ListGrows, AskedGrows DEF Screen!queue
<1>3. ASSUME Screen!Reread PROVE FeedInv'
  <2>1. PICK n \in screen_notices :
              /\ screen_notices' = screen_notices \ {n}
              /\ screen_replays' = screen_replays \union {Screen!RowOf(n[1])}
              /\ UNCHANGED <<screen_recent, screen_wire>>
    BY <1>3 DEF Screen!Reread
  <2>2. \E q \in screen_table : q.id = n[1]  BY DEF FeedInv, Screen!Raised
  <2>3. Screen!RowOf(n[1]) \in Carried(screen_table)
    BY <2>2, RowOfRaised DEF FeedInv, Carried
  <2> QED  BY <1>1, <2>1, <2>3 DEF FeedInv, Screen!Raised
<1>4. ASSUME Screen!Replay PROVE FeedInv'
  <2>1. PICK r \in screen_replays :
              /\ screen_replays' = screen_replays \ {r}
              /\ Screen!Publish(r)
              /\ UNCHANGED screen_notices
    BY <1>4 DEF Screen!Replay
  <2>2. r \in Carried(screen_table) /\ Carried(screen_table) \subseteq Screen!Record
    BY DEF FeedInv, Carried
  <2>3. screen_wire' \in Seq(Carried(screen_table)) /\ screen_recent' \subseteq Alerts \X Nat
    BY <2>1, <2>2, PublishStep DEF FeedInv
  <2> QED  BY <1>1, <2>1, <2>3 DEF FeedInv, Screen!Raised
<1> QED  BY <1>2, <1>3, <1>4

(* A row of the table that a transition moves.                             *)
LEMMA MoveStep ==
    ASSUME FeedInv, ListInv, NEW r \in Screen!Record, \E q \in screen_table : q.id = r.id,
           screen_table' = {q \in screen_table : q.id # r.id} \union {r},
           UNCHANGED <<screen_notices, screen_replays, screen_recent, screen_stream, screen_wire,
                       Screen!queue, screen_sightings>>
    PROVE  FeedInv' /\ ListInv' /\ \A q \in screen_table : \E p \in screen_table' : p.id = q.id
<1>1. /\ screen_table' \subseteq Screen!Record /\ IsFiniteSet(screen_table')
      /\ \A p, q \in screen_table' : p.id = q.id => p = q
      /\ \A q \in screen_table : \E p \in screen_table' : p.id = q.id
  BY RowsStep
<1>2. /\ screen_notices \subseteq {p.id : p \in screen_table'} \X Nat
      /\ screen_replays \subseteq Carried(screen_table')
      /\ screen_wire \in Seq(Carried(screen_table'))
  BY <1>1, FeedGrows
<1>3. FeedInv'  BY <1>1, <1>2 DEF FeedInv, Screen!Raised
<1>4. ListInv'  BY <1>1, ListGrows DEF Screen!queue
<1> QED  BY <1>1, <1>3, <1>4

LEMMA OtherMovesStep ==
    ASSUME QueueInv, NEW a \in Alerts, NEW s \in Screen!Status, Screen!OtherMoves(a, s)
    PROVE  QueueInv'
<1> USE DEF QueueInv
<1> DEFINE r == [Screen!RowOf(a) EXCEPT !.status = s]
<1>1. Screen!RowOf(a) \in screen_table /\ Screen!RowOf(a).id = a
  BY RowOfRaised DEF Screen!OtherMoves, Screen!Raised
<1>2. r \in Screen!Record /\ r.id = a
  BY <1>1 DEF FeedInv, Screen!Record
<1>3. /\ screen_table' = {q \in screen_table : q.id # r.id} \union {r}
      /\ UNCHANGED <<screen_notices, screen_replays, screen_recent, screen_stream, screen_wire,
                     Screen!queue, screen_sightings, screen_more, screen_reads, screen_keys>>
  BY <1>2 DEF Screen!OtherMoves
<1> HIDE DEF r
<1>4. FeedInv' /\ ListInv' /\ \A q \in screen_table : \E p \in screen_table' : p.id = q.id
  BY <1>1, <1>2, <1>3, MoveStep
<1>5. AskedInv'  BY <1>3, <1>4, AskedGrows DEF Screen!queue
<1> QED  BY <1>4, <1>5

LEMMA FrameStep ==
    ASSUME QueueInv, Screen!Frame
    PROVE  QueueInv' /\ (screen_cursor # NA => Screen!Ids(screen_screen') = Screen!Ids(screen_screen))
<1> USE DEF QueueInv
<1>1. PICK atTop \in BOOLEAN : Screen!Receive(Head(screen_wire), Screen!Idle(atTop))
  BY DEF Screen!Frame
<1>2. /\ screen_wire # <<>> /\ screen_wire' = Tail(screen_wire)
      /\ UNCHANGED <<Screen!feed, screen_stream, screen_cursor, screen_inFlight, screen_more,
                     screen_reads, screen_keys, screen_sightings>>
  BY DEF Screen!Frame, Screen!used
<1>3. screen_table' = screen_table  BY <1>2 DEF Screen!feed
<1> DEFINE S == Carried(screen_table)
<1>4. S \in SUBSET Screen!Record  BY DEF Carried
<1>5. Head(screen_wire) \in S /\ Tail(screen_wire) \in Seq(S)
  <2>1. screen_wire \in Seq(S)  BY DEF FeedInv
  <2> HIDE DEF S
  <2> QED  BY <1>2, <2>1, HeadTailProperties
<1>6. Screen!Idle(atTop) \in BOOLEAN  BY DEF Screen!Idle
<1>7. screen_screen \in Seq(S) /\ screen_pending \in Seq(S) /\ Screen!ShownInOneList
  BY DEF ListInv
<1> HIDE DEF S
<1>8. /\ screen_screen' \in Seq(S) /\ screen_pending' \in Seq(S)
      /\ Screen!ShownInOneList'
      /\ \A a : Screen!On(a, screen_screen) => Screen!On(a, screen_screen')
      /\ ~Screen!Idle(atTop) => Screen!Ids(screen_screen') = Screen!Ids(screen_screen)
  BY <1>1, <1>4, <1>5, <1>6, <1>7, ReceiveStep
<1>9. ListInv'  BY <1>2, <1>3, <1>8 DEF ListInv, S
<1>10. FeedInv'  BY <1>2, <1>3, <1>5 DEF FeedInv, S, Screen!feed, Screen!Raised
<1>11. AskedInv'  BY <1>2, <1>3, TableSame, AskedGrows
<1> QED  BY <1>8, <1>9, <1>10, <1>11 DEF Screen!Idle

LEMMA ReadsStep ==
    ASSUME AskedInv, \A d \in screen_reads' : GoodRead(d, screen_table'),
           UNCHANGED <<screen_table, screen_more, screen_keys, screen_inFlight>>
    PROVE  AskedInv'
  BY DEF AskedInv

LEMMA CursorIsRaised ==
    ASSUME ListInv, screen_cursor # NA
    PROVE  /\ Screen!Find(screen_cursor, screen_screen) \in Carried(screen_table)
           /\ Screen!Find(screen_cursor, screen_screen).id = screen_cursor
           /\ \E q \in screen_table : q.id = screen_cursor
<1>1. Screen!On(screen_cursor, screen_screen) /\ screen_screen \in Seq(Carried(screen_table))
  BY DEF ListInv
<1> DEFINE S == Carried(screen_table)
<1> HIDE DEF S
<1>2. Screen!Find(screen_cursor, screen_screen) \in S
      /\ Screen!Find(screen_cursor, screen_screen).id = screen_cursor
  BY <1>1, FindRow DEF S
<1> QED  BY <1>2 DEF S, Carried

(* The stream drops, opens, and reads are asked for.                       *)
LEMMA AsksStep ==
    ASSUME QueueInv,
           Screen!Drop \/ Screen!Open \/ Screen!Refetch \/ Screen!LoadMore \/ Screen!Expand
    PROVE  QueueInv' /\ screen_screen' = screen_screen
<1> USE DEF QueueInv
<1>1. /\ UNCHANGED <<Screen!feed, Screen!queue, screen_more, screen_keys, screen_sightings>>
      /\ screen_table' = screen_table
  BY DEF Screen!Drop, Screen!Open, Screen!Refetch, Screen!LoadMore, Screen!Expand, Screen!Ask,
         Screen!feed
<1>2. ListInv'  BY <1>1, TableSame, ListGrows DEF Screen!queue
<1>3. ASSUME Screen!Drop PROVE FeedInv' /\ AskedInv'
  <2>1. << >> \in Seq(Carried(screen_table))  BY EmptySeq
  <2>2. FeedInv'  BY <1>1, <1>3, <2>1 DEF FeedInv, Screen!Drop, Screen!feed, Screen!Raised
  <2>3. AskedInv'  BY <1>1, <1>3, TableSame, AskedGrows DEF Screen!Drop, Screen!queue
  <2> QED  BY <2>2, <2>3
<1>4. ASSUME ~Screen!Drop PROVE FeedInv'
  <2>1. screen_stream' \in {"connecting", "live", "retrying", "fatal"} /\ screen_wire' = screen_wire
    BY <1>4 DEF Screen!Open, Screen!Refetch, Screen!LoadMore, Screen!Expand, FeedInv
  <2> QED  BY <1>1, <2>1 DEF FeedInv, Screen!feed, Screen!Raised
<1>5. ASSUME Screen!Ask("list", 0) PROVE \A d \in screen_reads' : GoodRead(d, screen_table')
  BY <1>1, <1>5, AskedStep
<1>6. ASSUME Screen!Open PROVE AskedInv'
  <2>1. Screen!Ask("list", 0) \/ screen_reads' = screen_reads  BY <1>6 DEF Screen!Open
  <2>2. \A d \in screen_reads' : GoodRead(d, screen_table')
    BY <1>1, <1>5, <2>1 DEF AskedInv
  <2> QED  BY <1>1, <2>2, ReadsStep DEF Screen!queue
<1>7. ASSUME Screen!Refetch PROVE AskedInv'
  <2>1. \A d \in screen_reads' : GoodRead(d, screen_table')  BY <1>5, <1>7 DEF Screen!Refetch
  <2> QED  BY <1>1, <2>1, ReadsStep DEF Screen!queue
<1>8. ASSUME Screen!LoadMore PROVE AskedInv'
  <2>1. Screen!Ask("more", screen_more) /\ screen_more \in Nat  BY <1>8 DEF Screen!LoadMore, AskedInv
  <2>2. \A d \in screen_reads' : GoodRead(d, screen_table')  BY <1>1, <2>1, AskedStep
  <2> QED  BY <1>1, <2>2, ReadsStep DEF Screen!queue
<1>9. ASSUME Screen!Expand PROVE AskedInv'
  <2>1. Screen!Ask("row", screen_cursor) /\ \E q \in screen_table : q.id = screen_cursor
    BY <1>9, CursorIsRaised DEF Screen!Expand
  <2>2. \A d \in screen_reads' : GoodRead(d, screen_table')  BY <1>1, <2>1, AskedStep
  <2> QED  BY <1>1, <2>2, ReadsStep DEF Screen!queue
<1> QED  BY <1>1, <1>2, <1>3, <1>4, <1>6, <1>7, <1>8, <1>9 DEF Screen!queue

LEMMA ServesStep ==
    ASSUME QueueInv, Screen!Serve \/ Screen!ServeError
    PROVE  QueueInv' /\ screen_screen' = screen_screen
<1> USE DEF QueueInv
<1>1. /\ UNCHANGED <<Screen!feed, screen_stream, screen_wire, Screen!queue, screen_more, screen_keys,
                     screen_sightings>>
      /\ screen_table' = screen_table
  BY DEF Screen!Serve, Screen!ServeError, Screen!used, Screen!feed
<1>2. FeedInv' /\ ListInv'
  BY <1>1, FeedSame, TableSame, ListGrows DEF Screen!queue
<1>3. ASSUME Screen!Serve PROVE \A d \in screen_reads' : GoodRead(d, screen_table)
  <2> DEFINE answer(d) == IF d.kind = "row" THEN [rows |-> <<Screen!RowOf(d.from)>>, next |-> 0]
                          ELSE Screen!Page(d.from)
  <2>1. PICK d \in screen_reads :
            screen_reads' = (screen_reads \ {d}) \union
                              {[d EXCEPT !.served = TRUE, !.page = answer(d)]}
    BY <1>3 DEF Screen!Serve
  <2>2. GoodRead(d, screen_table)  BY DEF AskedInv
  <2>3. answer(d).rows \in Seq(Carried(screen_table)) /\ answer(d).next \in Nat
        /\ (d.kind = "row" => answer(d).rows # <<>>)
    <3>1. CASE d.kind = "row"
      <4>1. Screen!RowOf(d.from) \in Carried(screen_table)
        BY <2>2, <3>1, RowOfRaised DEF GoodRead, FeedInv, Carried
      <4>2. <<Screen!RowOf(d.from)>> \in Seq(Carried(screen_table))
            /\ <<Screen!RowOf(d.from)>> # <<>>
        BY <4>1
      <4> QED  BY <3>1, <4>2
    <3>2. CASE d.kind # "row"
      <4>1. d.from \in Nat  BY <2>2, <3>2 DEF GoodRead
      <4>2. Screen!Page(d.from).rows \in Seq(Carried(screen_table)) /\ Screen!Page(d.from).next \in Nat
        BY <4>1, PageRows
      <4> QED  BY <3>2, <4>2
    <3> QED  BY <3>1, <3>2
  <2> HIDE DEF answer
  <2>4. GoodRead([d EXCEPT !.served = TRUE, !.page = answer(d)], screen_table)
    BY <2>2, <2>3 DEF GoodRead
  <2> QED  BY <2>1, <2>4 DEF AskedInv
<1>4. ASSUME Screen!ServeError PROVE \A d \in screen_reads' : GoodRead(d, screen_table)
  <2>1. PICK d \in screen_reads : d.kind # "row"
            /\ screen_reads' = (screen_reads \ {d}) \union {[d EXCEPT !.served = TRUE]}
    BY <1>4 DEF Screen!ServeError
  <2>2. GoodRead(d, screen_table)  BY DEF AskedInv
  <2>3. GoodRead([d EXCEPT !.served = TRUE], screen_table)  BY <2>1, <2>2 DEF GoodRead
  <2> QED  BY <2>1, <2>3 DEF AskedInv
<1>5. AskedInv'  BY <1>1, <1>3, <1>4, ReadsStep DEF Screen!queue
<1> QED  BY <1>1, <1>2, <1>5 DEF Screen!queue

(* A read returns: only a list may move the rows.                          *)
LEMMA ReturnStep ==
    ASSUME QueueInv, Screen!Return
    PROVE  /\ QueueInv'
           /\ \/ Screen!Ids(screen_screen') = Screen!Ids(screen_screen)
              \/ \E d \in screen_reads : d.kind # "row" /\ d \notin screen_reads'
<1> USE DEF QueueInv
<1>1. PICK d \in screen_reads :
        /\ d.served
        /\ screen_reads' = screen_reads \ {d}
        /\ CASE d.kind = "list" ->
                  Screen!Replace(d.page.rows) /\ screen_more' = d.page.next
             [] d.kind = "more" ->
                  Screen!Replace(screen_screen \o d.page.rows) /\ screen_more' = d.page.next
             [] d.kind = "row" ->
                  Screen!Receive(d.page.rows[1], FALSE) /\ UNCHANGED <<screen_cursor, screen_more>>
  BY Zenon DEF Screen!Return
<1>2. /\ UNCHANGED <<Screen!feed, screen_stream, screen_wire, screen_inFlight, screen_keys,
                     screen_sightings>>
      /\ screen_table' = screen_table
  BY DEF Screen!Return, Screen!used, Screen!feed
<1>3. FeedInv'  BY <1>2, FeedSame
<1>4. GoodRead(d, screen_table) /\ screen_more \in Nat  BY DEF AskedInv
<1>5. d.page.rows \in Seq(Carried(screen_table)) /\ d.page.next \in Nat
      /\ d.kind \in {"list", "more", "row"}
  BY <1>4 DEF GoodRead
<1> DEFINE S == Carried(screen_table)
<1>6. S \in SUBSET Screen!Record  BY DEF Carried
<1>7. screen_screen \in Seq(S) /\ screen_pending \in Seq(S) /\ Screen!ShownInOneList
      /\ d.page.rows \in Seq(S)
  BY <1>5 DEF ListInv
<1>8. ASSUME screen_screen' \in Seq(S), screen_pending' \in Seq(S), Screen!ShownInOneList',
             screen_cursor' = NA \/ Screen!On(screen_cursor', screen_screen')
      PROVE  ListInv'
  BY <1>2, <1>8 DEF ListInv
<1>9. ASSUME screen_more' \in Nat PROVE AskedInv'
  BY <1>1, <1>2, <1>9 DEF AskedInv
<1> HIDE DEF S
<1>10. CASE d.kind = "list"
  <2>1. Screen!Replace(d.page.rows) /\ screen_more' = d.page.next  BY <1>1, <1>10
  <2>2. ListInv'  BY <1>6, <1>7, <1>8, <2>1, ReplaceStep
  <2> QED  BY <1>1, <1>3, <1>5, <1>9, <1>10, <2>1, <2>2
<1>11. CASE d.kind = "more"
  <2>1. Screen!Replace(screen_screen \o d.page.rows) /\ screen_more' = d.page.next  BY <1>1, <1>11
  <2>2. screen_screen \o d.page.rows \in Seq(S)  BY <1>7, Joined
  <2>3. ListInv'  BY <1>6, <1>7, <1>8, <2>1, <2>2, ReplaceStep
  <2> QED  BY <1>1, <1>3, <1>5, <1>9, <1>11, <2>1, <2>3
<1>12. CASE d.kind = "row"
  <2>1. Screen!Receive(d.page.rows[1], FALSE) /\ UNCHANGED <<screen_cursor, screen_more>>
    BY <1>1, <1>12
  <2>2. d.page.rows # <<>>  BY <1>1, <1>4, <1>12 DEF GoodRead
  <2>3. d.page.rows[1] \in S
    <3>1. 1 \in 1..Len(d.page.rows)  BY <1>7, <2>2, EmptySeq
    <3> QED  BY <1>7, <3>1, ElementOfSeq
  <2>4. /\ screen_screen' \in Seq(S) /\ screen_pending' \in Seq(S)
        /\ Screen!ShownInOneList'
        /\ \A a : Screen!On(a, screen_screen) => Screen!On(a, screen_screen')
        /\ Screen!Ids(screen_screen') = Screen!Ids(screen_screen)
    BY <1>6, <1>7, <2>1, <2>3, ReceiveStep
  <2>5. ListInv'  BY <1>8, <2>1, <2>4 DEF ListInv
  <2> QED  BY <1>3, <1>4, <1>9, <2>1, <2>4, <2>5
<1> QED  BY <1>5, <1>10, <1>11, <1>12

LEMMA FocusStep ==
    ASSUME QueueInv, Screen!Focus
    PROVE  QueueInv' /\ screen_screen' = screen_screen
<1> USE DEF QueueInv
<1>1. /\ \E i \in DOMAIN screen_screen : screen_cursor' = screen_screen[i].id
      /\ UNCHANGED <<Screen!feed, screen_stream, screen_wire, screen_screen, screen_pending,
                     screen_inFlight, screen_more, screen_reads, screen_keys, screen_sightings>>
      /\ screen_table' = screen_table
  BY DEF Screen!Focus, Screen!used, Screen!feed
<1>2. FeedInv' /\ AskedInv'  BY <1>1, FeedSame, TableSame, AskedGrows
<1>3. Screen!On(screen_cursor', screen_screen')  BY <1>1 DEF Screen!On
<1>4. ListInv'  BY <1>1, <1>3 DEF ListInv, Screen!ShownInOneList
<1> QED  BY <1>1, <1>2, <1>4

LEMMA MergeStep ==
    ASSUME QueueInv, Screen!Merge
    PROVE  QueueInv' /\ screen_pending # <<>> /\ screen_pending' = <<>>
<1> USE DEF QueueInv
<1>1. /\ screen_pending # <<>> /\ screen_pending' = <<>>
      /\ screen_screen' = Screen!Sorted(screen_pending \o screen_screen)
      /\ UNCHANGED <<Screen!feed, screen_stream, screen_wire, screen_cursor, screen_inFlight,
                     screen_more, screen_reads, screen_keys, screen_sightings>>
      /\ screen_table' = screen_table
  BY DEF Screen!Merge, Screen!used, Screen!feed
<1>2. FeedInv' /\ AskedInv'  BY <1>1, FeedSame, TableSame, AskedGrows
<1> DEFINE S == Carried(screen_table)
<1>3. S \in SUBSET Screen!Record /\ screen_screen \in Seq(S) /\ screen_pending \in Seq(S)
  BY DEF Carried, ListInv
<1> HIDE DEF S
<1>4. /\ screen_pending \o screen_screen \in Seq(S)
      /\ \A a : Screen!On(a, screen_screen) => Screen!On(a, screen_pending \o screen_screen)
  BY <1>3, Joined
<1>5. /\ screen_screen' \in Seq(S)
      /\ \A a : Screen!On(a, screen_screen) => Screen!On(a, screen_screen')
  BY <1>1, <1>3, <1>4, SortedRows
<1>6. << >> \in Seq(S)  BY EmptySeq
<1>7. screen_cursor' = NA \/ Screen!On(screen_cursor', screen_screen')
  BY <1>1, <1>5 DEF ListInv
<1>8. ListInv'
  <2>1. screen_screen' \in Seq(Carried(screen_table')) /\ screen_pending' \in Seq(Carried(screen_table'))
    BY <1>1, <1>5, <1>6 DEF S
  <2>2. Screen!ShownInOneList'  BY <1>1 DEF Screen!ShownInOneList
  <2> QED  BY <1>7, <2>1, <2>2 DEF ListInv
<1> QED  BY <1>1, <1>2, <1>8

(* A record that some row is given keeps its alert.                        *)
LEMMA Painted ==
    ASSUME FeedInv, NEW r \in Carried(screen_table), NEW s \in Screen!Status
    PROVE  /\ [r EXCEPT !.status = s] \in Carried(screen_table)
           /\ [r EXCEPT !.status = s].id = r.id
<1>1. r \in Screen!Record  BY DEF Carried
<1>2. [r EXCEPT !.status = s] \in Screen!Record /\ [r EXCEPT !.status = s].id = r.id
  BY <1>1 DEF Screen!Record
<1> QED  BY <1>2 DEF Carried

LEMMA PressStep ==
    ASSUME QueueInv, NEW verdict \in {"ack", "dismissed", "escalated"}, Screen!Press(verdict)
    PROVE  QueueInv' /\ Screen!Ids(screen_screen') = Screen!Ids(screen_screen)
<1> USE DEF QueueInv
<1> DEFINE r == Screen!Find(screen_cursor, screen_screen)
           painted == [r EXCEPT !.status = verdict]
           key == [n |-> screen_pressed, id |-> screen_cursor, to |-> verdict, answer |-> "none",
                   row |-> r]
<1>1. /\ screen_cursor # NA
      /\ screen_inFlight' = Screen!Pinned(screen_cursor, r)
      /\ screen_screen' = Screen!Put(painted, screen_screen)
      /\ screen_keys' = screen_keys \union {key}
      /\ UNCHANGED <<Screen!feed, screen_stream, screen_wire, screen_pending, screen_cursor,
                     screen_more, screen_reads, screen_sightings>>
      /\ screen_table' = screen_table
  BY DEF Screen!Press, Screen!feed
<1>2. FeedInv'  BY <1>1, FeedSame
<1>3. r \in Carried(screen_table) /\ r.id = screen_cursor  BY <1>1, CursorIsRaised
<1> HIDE DEF r
<1>4. verdict \in Screen!Status  BY DEF Screen!Status
<1>5. painted \in Carried(screen_table) /\ painted.id = screen_cursor  BY <1>3, <1>4, Painted
<1> HIDE DEF painted
<1>6. Screen!On(painted.id, screen_screen)  BY <1>1, <1>5 DEF ListInv
<1> DEFINE S == Carried(screen_table)
<1>7. screen_screen \in Seq(S) /\ painted \in S  BY <1>5 DEF ListInv
<1> HIDE DEF S
<1>8. screen_screen' \in Seq(S) /\ SameRows(screen_screen, screen_screen')
  BY <1>1, <1>6, <1>7, PutRow
<1>9. /\ Screen!Ids(screen_screen') = Screen!Ids(screen_screen)
      /\ \A a : Screen!On(a, screen_screen') <=> Screen!On(a, screen_screen)
  BY <1>7, <1>8, SameIds
<1>10. ListInv'
  BY <1>1, <1>8, <1>9 DEF ListInv, S, Screen!ShownInOneList
<1>11. GoodKey(key, screen_table)  BY <1>3, <1>4 DEF GoodKey
<1>12. \A d \in screen_reads' : GoodRead(d, screen_table')  BY <1>1 DEF AskedInv
<1>13. \A k \in screen_keys' : GoodKey(k, screen_table')
  <2> HIDE DEF key
  <2> QED  BY <1>1, <1>11 DEF AskedInv
<1>14. key \in screen_keys' /\ key.id = screen_cursor  BY <1>1
<1>15. ASSUME NEW a \in DOMAIN screen_inFlight'
       PROVE  /\ screen_inFlight'[a] \in Carried(screen_table') /\ screen_inFlight'[a].id = a
              /\ \E k \in screen_keys' : k.id = a
  <2> HIDE DEF key
  <2>1. a = screen_cursor \/ (a \in DOMAIN screen_inFlight /\ a # screen_cursor)
    BY <1>1 DEF Screen!Pinned
  <2>2. CASE a = screen_cursor
    <3>1. screen_inFlight'[a] = r  BY <1>1, <2>2 DEF Screen!Pinned
    <3> QED  BY <1>1, <1>3, <1>14, <2>2, <3>1
  <2>3. CASE a \in DOMAIN screen_inFlight /\ a # screen_cursor
    <3>1. screen_inFlight'[a] = screen_inFlight[a]  BY <1>1, <2>3 DEF Screen!Pinned
    <3> QED  BY <1>1, <2>3, <3>1 DEF AskedInv
  <2> QED  BY <2>1, <2>2, <2>3
<1>16. AskedInv'  BY <1>1, <1>12, <1>13, <1>15 DEF AskedInv
<1> QED  BY <1>2, <1>9, <1>10, <1>16

(* The API decides, or cannot be reached: the key stays until its answer   *)
(* is handled.                                                             *)
LEMMA KeysStep ==
    ASSUME AskedInv, \A q \in screen_table : \E p \in screen_table' : p.id = q.id,
           NEW k \in screen_keys, NEW now, GoodKey(now, screen_table'), now.id = k.id,
           screen_keys' = (screen_keys \ {k}) \union {now},
           UNCHANGED <<screen_more, screen_reads, screen_inFlight>>
    PROVE  AskedInv'
<1>1. \A b \in screen_keys' : GoodKey(b, screen_table')  BY GoodGrows DEF AskedInv
<1>2. \A b \in screen_keys : \E c \in screen_keys' : c.id = b.id  OBVIOUS
<1>3. \A d \in screen_reads' : GoodRead(d, screen_table')  BY GoodGrows DEF AskedInv
<1>4. ASSUME NEW a \in DOMAIN screen_inFlight'
      PROVE  /\ screen_inFlight'[a] \in Carried(screen_table') /\ screen_inFlight'[a].id = a
             /\ \E c \in screen_keys' : c.id = a
  <2>1. screen_inFlight[a] \in Carried(screen_table) /\ screen_inFlight[a].id = a
        /\ \E b \in screen_keys : b.id = a
    BY DEF AskedInv
  <2> QED  BY <1>2, <2>1, GoodGrows
<1> QED  BY <1>1, <1>3, <1>4 DEF AskedInv

LEMMA DecideStep ==
    ASSUME QueueInv, Screen!Decide \/ Screen!Fail
    PROVE  QueueInv' /\ screen_screen' = screen_screen
<1> USE DEF QueueInv
<1>1. UNCHANGED <<screen_notices, screen_replays, screen_recent, screen_stream, screen_wire,
                  Screen!queue, screen_more, screen_reads, screen_sightings>>
  BY DEF Screen!Decide, Screen!Fail, Screen!used, Screen!feed
<1>2. ASSUME Screen!Decide PROVE QueueInv'
  <2> DEFINE was(k) == Screen!RowOf(k.id)
             ok(k) == Screen!CanTransition(was(k).status, k.to)
             now(k) == IF ok(k) THEN [was(k) EXCEPT !.status = k.to] ELSE was(k)
             decided(k, s) == [k EXCEPT !.answer = s, !.row = now(k)]
  <2>1. PICK k \in screen_keys, s \in {"ok", "conflict", "error"} :
           /\ screen_table' = (screen_table \ {was(k)}) \union {now(k)}
           /\ screen_keys' = (screen_keys \ {k}) \union {decided(k, s)}
    BY <1>2 DEF Screen!Decide
  <2>2. GoodKey(k, screen_table)  BY DEF AskedInv
  <2>3. was(k) \in screen_table /\ was(k).id = k.id
    <3>1. \E q \in screen_table : q.id = k.id  BY <2>2 DEF GoodKey, Carried
    <3> QED  BY <3>1, RowOfRaised
  <2>4. was(k) \in Carried(screen_table) /\ k.to \in Screen!Status
    BY <2>2, <2>3 DEF GoodKey, FeedInv, Carried
  <2> HIDE DEF was, ok
  <2>5. now(k) \in Carried(screen_table) /\ now(k).id = k.id  BY <2>3, <2>4, Painted
  <2> HIDE DEF now
  <2>6. screen_table' = {q \in screen_table : q.id # now(k).id} \union {now(k)}
    BY <2>1, <2>3, <2>5 DEF FeedInv
  <2>7. now(k) \in Screen!Record /\ \E q \in screen_table : q.id = now(k).id
    BY <2>3, <2>5 DEF Carried
  <2>8. FeedInv' /\ ListInv' /\ \A q \in screen_table : \E p \in screen_table' : p.id = q.id
    BY <1>1, <2>6, <2>7, MoveStep
  <2>9. GoodKey(decided(k, s), screen_table)  BY <2>2, <2>5 DEF GoodKey
  <2>10. GoodKey(decided(k, s), screen_table')  BY <2>8, <2>9, GoodGrows
  <2>11. decided(k, s).id = k.id  BY <2>2 DEF GoodKey
  <2> HIDE DEF decided
  <2>12. AskedInv'  BY <1>1, <2>1, <2>8, <2>10, <2>11, KeysStep DEF Screen!queue
  <2> QED  BY <2>8, <2>12
<1>3. ASSUME Screen!Fail PROVE QueueInv'
  <2>1. PICK k \in screen_keys :
          screen_keys' = (screen_keys \ {k}) \union {[k EXCEPT !.answer = "error"]}
    BY <1>3 DEF Screen!Fail
  <2>2. UNCHANGED Screen!feed /\ screen_table' = screen_table  BY <1>3 DEF Screen!Fail, Screen!feed
  <2>3. GoodKey(k, screen_table)  BY DEF AskedInv
  <2>4. GoodKey([k EXCEPT !.answer = "error"], screen_table') /\ [k EXCEPT !.answer = "error"].id = k.id
    BY <2>2, <2>3 DEF GoodKey
  <2>5. \A q \in screen_table : \E p \in screen_table' : p.id = q.id  BY <2>2, TableSame
  <2>6. AskedInv'
    <3> DEFINE now == [k EXCEPT !.answer = "error"]
    <3> HIDE DEF now
    <3>1. GoodKey(now, screen_table') /\ now.id = k.id  BY <2>4 DEF now
    <3>2. screen_keys' = (screen_keys \ {k}) \union {now}  BY <2>1 DEF now
    <3> QED  BY <1>1, <2>5, <3>1, <3>2, KeysStep DEF Screen!queue
  <2>7. FeedInv' /\ ListInv'  BY <1>1, <2>2, <2>5, FeedSame, ListGrows DEF Screen!queue
  <2> QED  BY <2>6, <2>7
<1> QED  BY <1>1, <1>2, <1>3 DEF Screen!queue

(* The answer is handled: its row is unpinned, whatever the screen shows.  *)
LEMMA HandleStep ==
    ASSUME QueueInv, Screen!Answer
    PROVE  QueueInv' /\ Screen!Ids(screen_screen') = Screen!Ids(screen_screen)
<1> USE DEF QueueInv
<1>1. PICK k \in screen_keys :
        /\ screen_keys' = screen_keys \ {k}
        /\ IF k.answer = "ok" THEN Screen!Settle(k.row) ELSE Screen!Rollback(k.id)
        /\ IF k.answer = "conflict" THEN Screen!Ask("list", 0)
           ELSE UNCHANGED <<screen_reads, screen_asked>>
  BY DEF Screen!Answer
<1>2. /\ UNCHANGED <<Screen!feed, screen_stream, screen_wire, screen_pending, screen_cursor,
                     screen_more, screen_sightings>>
      /\ screen_table' = screen_table
  BY DEF Screen!Answer, Screen!feed
<1>3. FeedInv'  BY <1>2, FeedSame
<1>4. GoodKey(k, screen_table)  BY DEF AskedInv
<1>5. k.row \in Carried(screen_table) /\ k.row.id = k.id  BY <1>4 DEF GoodKey
<1>6. screen_inFlight' = Screen!Unpinned(k.id)
  BY <1>1, <1>5 DEF Screen!Settle, Screen!Rollback
<1>7. \/ screen_screen' = screen_screen
      \/ \E r \in Carried(screen_table) :
            Screen!On(r.id, screen_screen) /\ screen_screen' = Screen!Put(r, screen_screen)
  <2>1. CASE k.answer = "ok"  BY <1>1, <1>5, <2>1 DEF Screen!Settle
  <2>2. CASE k.answer # "ok"
    <3>1. k.id \in DOMAIN screen_inFlight
            => screen_inFlight[k.id] \in Carried(screen_table) /\ screen_inFlight[k.id].id = k.id
      BY DEF AskedInv
    <3> QED  BY <1>1, <2>2, <3>1 DEF Screen!Rollback
  <2> QED  BY <2>1, <2>2
<1> DEFINE S == Carried(screen_table)
<1>8. screen_screen \in Seq(S)  BY DEF ListInv
<1>9. /\ screen_screen' \in Seq(S)
      /\ Screen!Ids(screen_screen') = Screen!Ids(screen_screen)
      /\ \A a : Screen!On(a, screen_screen') <=> Screen!On(a, screen_screen)
  <2>1. CASE screen_screen' = screen_screen  BY <1>8, <2>1
  <2>2. CASE screen_screen' # screen_screen
    <3>1. PICK r \in S : Screen!On(r.id, screen_screen) /\ screen_screen' = Screen!Put(r, screen_screen)
      BY <1>7, <2>2
    <3> HIDE DEF S
    <3>2. screen_screen' \in Seq(S) /\ SameRows(screen_screen, screen_screen')
      BY <1>8, <3>1, PutRow
    <3> QED  BY <1>8, <3>2, SameIds
  <2> QED  BY <2>1, <2>2
<1>10. ListInv'
  BY <1>2, <1>9 DEF ListInv, Screen!ShownInOneList
<1>11. \A d \in screen_reads' : GoodRead(d, screen_table')
  <2>1. CASE k.answer = "conflict"  BY <1>1, <1>2, <2>1, AskedStep
  <2>2. CASE k.answer # "conflict"  BY <1>1, <1>2, <2>2 DEF AskedInv
  <2> QED  BY <2>1, <2>2
<1>12. ASSUME NEW a \in DOMAIN screen_inFlight'
       PROVE  /\ screen_inFlight'[a] \in Carried(screen_table') /\ screen_inFlight'[a].id = a
              /\ \E b \in screen_keys' : b.id = a
  <2>1. a \in DOMAIN screen_inFlight /\ a # k.id /\ screen_inFlight'[a] = screen_inFlight[a]
    BY <1>6 DEF Screen!Unpinned
  <2>2. screen_inFlight[a] \in Carried(screen_table) /\ screen_inFlight[a].id = a
        /\ \E b \in screen_keys : b.id = a
    BY <2>1 DEF AskedInv
  <2> QED  BY <1>1, <1>2, <2>1, <2>2
<1>13. AskedInv'  BY <1>1, <1>2, <1>11, <1>12 DEF AskedInv
<1> QED  BY <1>3, <1>9, <1>10, <1>13

(* What the rows may do in a step.                                         *)
Calm ==
    screen_cursor # NA /\ Screen!Ids(screen_screen') # Screen!Ids(screen_screen)
      => \/ \E d \in screen_reads : d.kind # "row" /\ d \notin screen_reads'
         \/ screen_pending # <<>> /\ screen_pending' = <<>>

LEMMA QueueStep == QueueInv /\ [Screen!Next]_screenVars => QueueInv' /\ [Calm]_(Screen!vars)
<1> SUFFICES ASSUME QueueInv, [Screen!Next]_screenVars PROVE QueueInv' /\ [Calm]_(Screen!vars)
  OBVIOUS
<1>1. CASE UNCHANGED screenVars
  <2>1. UNCHANGED Screen!vars
    BY <1>1 DEF screenVars, Screen!vars, Screen!feed, Screen!queue, Screen!used
  <2>2. /\ UNCHANGED <<Screen!feed, screen_stream, screen_wire, screen_sightings>>
        /\ UNCHANGED <<screen_table, screen_screen, screen_pending, screen_cursor>>
        /\ UNCHANGED <<screen_more, screen_reads, screen_keys, screen_inFlight>>
    BY <1>1 DEF screenVars, Screen!feed
  <2>3. QueueInv'  BY <2>2, FeedSame, TableSame, ListGrows, AskedGrows DEF QueueInv
  <2> QED  BY <2>1, <2>3
<1>2. ASSUME NEW a \in Alerts, NEW admitted \in BOOLEAN, Screen!Sight(a, admitted)
      PROVE  QueueInv' /\ Calm
  <2>1. screen_screen' = screen_screen  BY <1>2 DEF Screen!Sight, Screen!queue
  <2> QED  BY <1>2, <2>1, SightStep DEF Calm
<1>3. ASSUME NEW a \in Alerts, NEW s \in Screen!Status, Screen!OtherMoves(a, s)
      PROVE  QueueInv' /\ Calm
  <2>1. screen_screen' = screen_screen  BY <1>3 DEF Screen!OtherMoves, Screen!queue
  <2> QED  BY <1>3, <2>1, OtherMovesStep DEF Calm
<1>4. ASSUME Screen!Reread \/ Screen!Replay PROVE QueueInv' /\ Calm
  <2>1. screen_screen' = screen_screen  BY <1>4 DEF Screen!Reread, Screen!Replay, Screen!queue
  <2> QED  BY <1>4, <2>1, FeedStep DEF Calm
<1>5. ASSUME Screen!Frame PROVE QueueInv' /\ Calm  BY <1>5, FrameStep DEF Calm
<1>6. ASSUME Screen!Drop \/ Screen!Open \/ Screen!Refetch \/ Screen!LoadMore \/ Screen!Expand
      PROVE  QueueInv' /\ Calm
  BY <1>6, AsksStep DEF Calm
<1>7. ASSUME Screen!Serve \/ Screen!ServeError PROVE QueueInv' /\ Calm
  BY <1>7, ServesStep DEF Calm
<1>8. ASSUME Screen!Return PROVE QueueInv' /\ Calm  BY <1>8, ReturnStep DEF Calm
<1>9. ASSUME Screen!Focus PROVE QueueInv' /\ Calm  BY <1>9, FocusStep DEF Calm
<1>10. ASSUME Screen!Merge PROVE QueueInv' /\ Calm  BY <1>10, MergeStep DEF Calm
<1>11. ASSUME NEW verdict \in {"ack", "dismissed", "escalated"}, Screen!Press(verdict)
       PROVE  QueueInv' /\ Calm
  BY <1>11, PressStep DEF Calm
<1>12. ASSUME Screen!Decide \/ Screen!Fail PROVE QueueInv' /\ Calm  BY <1>12, DecideStep DEF Calm
<1>13. ASSUME Screen!Answer PROVE QueueInv' /\ Calm  BY <1>13, HandleStep DEF Calm
<1>14. CASE Screen!Next
  BY <1>2, <1>3, <1>4, <1>5, <1>6, <1>7, <1>8, <1>9, <1>10, <1>11, <1>12, <1>13, <1>14
     DEF Screen!Next
<1> QED  BY <1>1, <1>14

LEMMA QueueHolds == QueueInv => Screen!TypeOK /\ Screen!ShownInOneList /\ Screen!PinnedMeansAsked
<1> SUFFICES ASSUME QueueInv PROVE Screen!TypeOK /\ Screen!ShownInOneList /\ Screen!PinnedMeansAsked
  OBVIOUS
<1> USE DEF QueueInv
<1>1. Carried(screen_table) \subseteq Screen!Record  BY DEF Carried
<1>2. \A s \in Seq(Carried(screen_table)) : s \in Seq(Screen!Record)  BY <1>1
<1>3. {screen_wire, screen_screen, screen_pending} \subseteq Seq(Screen!Record)
  BY <1>2 DEF FeedInv, ListInv
<1>4. \A a \in DOMAIN screen_inFlight : a \in Alerts /\ screen_inFlight[a] \in Screen!Record
  BY <1>1 DEF AskedInv, Screen!Record
<1>5. screen_notices \subseteq Alerts \X Nat  BY DEF FeedInv, Screen!Raised, Screen!Record
<1>6. Screen!TypeOK
  BY <1>1, <1>3, <1>4, <1>5 DEF Screen!TypeOK, FeedInv, ListInv, AskedInv
<1> QED  BY <1>6 DEF ListInv, AskedInv, Screen!PinnedMeansAsked

(* The alert queue of an officer stays calm under live updates: no row     *)
(* moves under the cursor unless the officer asked for it, none is shown   *)
(* twice, and none is pinned against the server's own record without an    *)
(* answer to come (queue.ts).                                              *)
THEOREM QueuesHold == ConsoleSpec => QueueIsCalm
<1>1. ConsoleInit => QueueInv  BY QueueStart DEF ConsoleInit
<1>2. QueueInv /\ [ConsoleNext]_consoleVars => QueueInv' /\ [Calm]_(Screen!vars)
  <2> SUFFICES ASSUME QueueInv, [ConsoleNext]_consoleVars PROVE QueueInv' /\ [Calm]_(Screen!vars)
    OBVIOUS
  <2>1. [Screen!Next]_screenVars  BY DEF ConsoleNext, consoleVars
  <2> QED  BY <2>1, QueueStep
<1>3. QueueInv => Screen!TypeOK /\ Screen!ShownInOneList /\ Screen!PinnedMeansAsked
  BY QueueHolds
<1>4. [Calm]_(Screen!vars)
      <=> [screen_cursor # NA /\ Screen!Ids(screen_screen') # Screen!Ids(screen_screen)
             => \/ \E d \in screen_reads : d.kind # "row" /\ d \notin screen_reads'
                \/ screen_pending # <<>> /\ screen_pending' = <<>>]_(Screen!vars)
  BY DEF Calm
<1> QED
  BY <1>1, <1>2, <1>3, <1>4, PTL DEF ConsoleSpec, QueueIsCalm, Screen!QueueIsCalm, Screen!FocusKeepsRows

-----------------------------------------------------------------------------
(* Of the console as a whole: the trail explains the status of every alert *)
(* and a dismissal is final, whatever else the officers do.                *)
THEOREM TrailsHold == ConsoleSpec => []TrailExplainsStatus /\ DismissalIsFinal
<1>1. ConsoleInit => Init
  BY DEF ConsoleInit
<1>2. [ConsoleNext]_consoleVars => [Next]_vars
  BY DEF ConsoleNext, consoleVars
<1>3. ConsoleSpec => Spec
  BY <1>1, <1>2, PTL DEF ConsoleSpec, Spec
<1> QED  BY <1>3, TrailIsAPath, DismissedForGood, PTL

-----------------------------------------------------------------------------
(* The registry screen.  What the instance counts with.                    *)
LEMMA SameNumber == \A S : Registry!Cardinality(S) = Cardinality(S)
  BY DEF Registry!Cardinality, Cardinality

(* Ids in ascending order: all of them, each once. *)
LEMMA AscendingIs ==
    ASSUME NEW S \in SUBSET Nat, IsFiniteSet(S)
    PROVE  /\ Registry!Ascending(S) \in Seq(S)
           /\ \A i, j \in DOMAIN Registry!Ascending(S) :
                i < j => Registry!Ascending(S)[i] < Registry!Ascending(S)[j]
<1> DEFINE n == Cardinality(S)
           t == Registry!Ascending(S)
<1>1. n \in Nat
  BY FS_CardinalityType
<1>2. t = [i \in 1..n |-> CHOOSE id \in S : Cardinality({x \in S : x < id}) = i - 1]
  BY DEF Registry!Ascending, Registry!Cardinality, Cardinality
<1> HIDE DEF t
<1>3. ASSUME NEW i \in 1..n
      PROVE  t[i] \in S /\ Rank(S, t[i]) = i - 1
  <2> HIDE DEF n
  <2>1. i - 1 \in 0..(n - 1)
    BY <1>1
  <2>2. PICK s \in S : Rank(S, s) = i - 1
    BY <2>1, Ranks DEF n
  <2> QED  BY <1>2, <2>2 DEF Rank
<1> HIDE DEF n
<1>4. t \in [1..n -> S]
  BY <1>2, <1>3
<1>5. t \in Seq(S) /\ DOMAIN t = 1..n
  BY <1>1, <1>4, SequenceOf
<1>6. \A i, j \in 1..n : i < j => t[i] < t[j]
  <2> SUFFICES ASSUME NEW i \in 1..n, NEW j \in 1..n, i < j, ~(t[i] < t[j])
               PROVE  FALSE
    OBVIOUS
  <2>1. t[i] \in S /\ t[j] \in S /\ Rank(S, t[i]) = i - 1 /\ Rank(S, t[j]) = j - 1
    BY <1>3
  <2>4. t[i] \in Nat /\ t[j] \in Nat
    BY <2>1
  <2>2. t[i] = t[j] \/ t[j] < t[i]
    BY <2>4
  <2>3. Rank(S, t[j]) < Rank(S, t[i]) \/ Rank(S, t[j]) = Rank(S, t[i])
    BY <2>1, <2>2, Ranks
  <2> QED  BY <1>1, <2>1, <2>3
<1> QED  BY <1>5, <1>6 DEF t

(* Rows of cameras, in the order of their ids.                             *)
Cams == DOMAIN registry_cameras
Texts == [name : Registry!Names \cup {NA}, bbox : Registry!Boxes \cup {NA}]

Named(cs, r) == r.id \in DOMAIN cs /\ r.name = cs[r.id].name
Rising(rows) == \A i, j \in DOMAIN rows : i < j => rows[i].id < rows[j].id
Answers(rows, f) == f.name # NA => \A i \in DOMAIN rows : rows[i].name = f.name
Listing(cs, rows) == rows \in Seq(Registry!Rows) /\ Rising(rows) /\ \A i \in DOMAIN rows : Named(cs, rows[i])

(* A server action not answered yet: the pages a load has got so far, a    *)
(* detail the drawer still wants, a save that renames no camera.           *)
LoadOK(cs, q) ==
    /\ q = [kind |-> "load", filters |-> q.filters, got |-> q.got, cursor |-> q.cursor]
    /\ q.filters \in Texts /\ Listing(cs, q.got) /\ Answers(q.got, q.filters)
    /\ q.cursor = NA => q.got = <<>>
    /\ q.cursor # NA => q.cursor \in Nat /\ \A i \in DOMAIN q.got : q.got[i].id <= q.cursor
DetailOK(cs, sel, q) ==
    q = [kind |-> "detail", id |-> q.id, live |-> q.live] /\ q.id \in DOMAIN cs /\ (q.live => q.id = sel)
SaveOK(cs, q) == q = [kind |-> "save", row |-> q.row] /\ q.row \in Registry!Rows /\ Named(cs, q.row)
CallOK(cs, sel, q) == LoadOK(cs, q) \/ DetailOK(cs, sel, q) \/ SaveOK(cs, q)
Calls(cs, sel, q) == (\E S : q \in Seq(S)) /\ \A i \in DOMAIN q : CallOK(cs, sel, q[i])

Loads(q) == {i \in DOMAIN q : q[i].kind = "load"}

(* The last load is for the filters on the screen; without one, the rows   *)
(* on the screen are for them.                                             *)
Covered(q, f, rows, bad) ==
    /\ \A i \in Loads(q) : (\A j \in Loads(q) : j <= i) => q[i].filters = f
    /\ Loads(q) = {} /\ ~bad => Answers(rows, f)

CamerasInv ==
    /\ registry_cameras \in Seq(Registry!Stands) /\ Cams \subseteq CameraIds

RegistryInv ==
    /\ CamerasInv
    /\ registry_filters \in Texts
    /\ Listing(registry_cameras, registry_shown) /\ registry_capped \in BOOLEAN /\ registry_failed \in BOOLEAN
    /\ registry_viewport \in Registry!Boxes /\ registry_timer \in BOOLEAN
    /\ registry_selected \in Cams \cup {NA}
    /\ registry_detail \in Registry!Rows \cup {NA} /\ registry_detailLoading \in BOOLEAN
    /\ registry_editing # NA => registry_editing \in Registry!Rows /\ Named(registry_cameras, registry_editing)
    /\ registry_acts \in 0..MaxActs /\ registry_changes \in 0..MaxChanges
    /\ Calls(registry_cameras, registry_selected, registry_queue)
    /\ Covered(registry_queue, registry_filters, registry_shown, registry_failed)
    /\ registry_detail # NA /\ ~registry_detailLoading => registry_detail.id = registry_selected

LEMMA RegistryFacts ==
    /\ CameraIds \subseteq Nat \ {0} /\ Cells # {} /\ RowLimit \in Nat \ {0}
    /\ Estates # {} /\ \A f \in Estates : f \in Seq(Registry!Stands) /\ DOMAIN f \subseteq CameraIds
    /\ {MaxMapFeatures, MaxActs, MaxChanges} \subseteq Nat
  BY RegistryConstants DEF Registry!RegistryAssumption

(* Rows of the API for some of the cameras, in the order of their ids.     *)
LEMMA RowsOfCameras ==
    ASSUME CamerasInv, NEW s, s \in Seq(Cams), \A i, j \in DOMAIN s : i < j => s[i] < s[j],
           NEW n \in Nat, n <= Len(s), NEW rows, rows = [i \in 1..n |-> Registry!RowOf(s[i])]
    PROVE  /\ Listing(registry_cameras, rows) /\ Len(rows) = n /\ DOMAIN rows = 1..n
           /\ \A i \in 1..n : rows[i].id = s[i] /\ rows[i].name = registry_cameras[s[i]].name
<1>1. Len(s) \in Nat /\ DOMAIN s = 1..Len(s) /\ \A i \in 1..Len(s) : s[i] \in Cams
  BY LenProperties, ElementOfSeq
<1>2. \A i \in 1..n : i \in DOMAIN s /\ s[i] \in Cams
  BY <1>1
<1>3. \A c \in Cams : registry_cameras[c] \in Registry!Stands /\ c \in CameraIds
  BY LenProperties, ElementOfSeq DEF CamerasInv, Cams
<1>4. \A c \in Cams : Registry!RowOf(c) \in Registry!Rows /\ Registry!RowOf(c).id = c
                      /\ Registry!RowOf(c).name = registry_cameras[c].name
  BY <1>3 DEF Registry!RowOf, Registry!Rows, Registry!Stands
<1>5. rows \in [1..n -> Registry!Rows]
  BY <1>2, <1>4
<1>6. rows \in Seq(Registry!Rows) /\ Len(rows) = n /\ DOMAIN rows = 1..n
  BY <1>5, SequenceOf
<1>7. \A i \in 1..n : rows[i].id = s[i] /\ rows[i].name = registry_cameras[s[i]].name
  BY <1>2, <1>4
<1>8. Rising(rows)
  BY <1>2, <1>6, <1>7 DEF Rising
<1>9. \A i \in 1..n : Named(registry_cameras, rows[i])
  BY <1>2, <1>7 DEF Named, Cams
<1> QED  BY <1>6, <1>7, <1>8, <1>9 DEF Listing

(* One page: rows that match, in order, past the cursor; the cursor of the *)
(* next page is the last id of this one.                                   *)
LEMMA PageIs ==
    ASSUME CamerasInv, NEW f, NEW c
    PROVE  LET p == Registry!Page(f, c) IN
           /\ Listing(registry_cameras, p.rows) /\ Answers(p.rows, f)
           /\ \A i \in DOMAIN p.rows : Registry!After(p.rows[i].id, c)
           /\ p.next # NA => /\ p.next \in Nat /\ DOMAIN p.rows # {}
                             /\ \A i \in DOMAIN p.rows : p.rows[i].id <= p.next
<1> DEFINE S == {id \in Cams : Registry!Matches(id, f) /\ Registry!After(id, c)}
           rest == Registry!Ascending(S)
           k == IF Len(rest) < RowLimit THEN Len(rest) ELSE RowLimit
           page == SubSeq(rest, 1, k)
           rows == [i \in DOMAIN page |-> Registry!RowOf(page[i])]
           next == IF Len(rest) > RowLimit THEN page[Len(page)] ELSE NA
           p == Registry!Page(f, c)
<1>1. p = [rows |-> rows, next |-> next]
  BY DEF Registry!Page, Registry!Last, Cams
<1>2. S \in SUBSET Nat /\ IsFiniteSet(S) /\ S \subseteq Cams
  <2>1. PICK n \in Nat : Cams = 1..n
    BY LenProperties DEF CamerasInv, Cams
  <2>2. IsFiniteSet(Cams)
    BY <2>1, FS_Interval
  <2> QED  BY <2>1, <2>2, FS_Subset
<1> HIDE DEF S
<1>3. rest \in Seq(S) /\ \A i, j \in DOMAIN rest : i < j => rest[i] < rest[j]
  BY <1>2, AscendingIs
<1> HIDE DEF rest
<1>4. Len(rest) \in Nat /\ DOMAIN rest = 1..Len(rest) /\ \A i \in 1..Len(rest) : rest[i] \in S
  BY <1>3, LenProperties, ElementOfSeq
<1>5. RowLimit \in Nat \ {0} /\ k \in Nat /\ k <= Len(rest)
  BY <1>4, RegistryFacts
<1> HIDE DEF k
<1>6. page \in Seq(S) /\ Len(page) = k /\ \A i \in 1..k : page[i] = rest[i]
  <2>1. \A i \in 1..k : rest[i] \in S
    BY <1>4, <1>5
  <2>2. /\ page \in Seq(S) /\ Len(page) = IF 1 <= k THEN k - 1 + 1 ELSE 0
        /\ \A i \in 1..(k - 1 + 1) : page[i] = rest[1 + i - 1]
    BY <1>5, <2>1, SubSeqProperties
  <2> HIDE DEF page
  <2>3. Len(page) = k /\ k - 1 + 1 = k /\ \A i \in 1..k : 1 + i - 1 = i
    BY <1>5, <2>2
  <2> QED  BY <2>2, <2>3
<1> HIDE DEF page
<1>7. DOMAIN page = 1..k
  BY <1>6, LenProperties
<1>8. page \in Seq(Cams) /\ \A i, j \in DOMAIN page : i < j => page[i] < page[j]
  <2>1. page \in Seq(Cams)
    BY <1>2, <1>6, SeqMonotonic
  <2> QED  BY <1>3, <1>4, <1>5, <1>6, <1>7, <2>1
<1>9. rows = [i \in 1..k |-> Registry!RowOf(page[i])]
  BY <1>7
<1> HIDE DEF rows
<1>10. /\ Listing(registry_cameras, rows) /\ DOMAIN rows = 1..k
       /\ \A i \in 1..k : rows[i].id = page[i] /\ rows[i].name = registry_cameras[page[i]].name
  <2>1. k \in Nat /\ k <= Len(page)
    BY <1>5, <1>6
  <2> QED  BY <1>8, <1>9, <2>1, RowsOfCameras
<1>11. \A i \in 1..k : page[i] \in S
  BY <1>6, <1>7, ElementOfSeq
<1>12. Answers(rows, f)
  BY <1>10, <1>11 DEF Answers, S, Registry!Matches
<1>13. \A i \in DOMAIN rows : Registry!After(rows[i].id, c)
  BY <1>10, <1>11 DEF S
<1>14. next # NA => next \in Nat /\ DOMAIN rows # {} /\ \A i \in DOMAIN rows : rows[i].id <= next
  <2> SUFFICES ASSUME Len(rest) > RowLimit
               PROVE  /\ page[Len(page)] \in Nat /\ DOMAIN rows # {}
                      /\ \A i \in DOMAIN rows : rows[i].id <= page[Len(page)]
    BY DEF next
  <2>0. ~(Len(rest) < RowLimit) /\ RowLimit \in Nat /\ RowLimit > 0
    BY <1>4, <1>5
  <2>1. k = RowLimit /\ k \in 1..k
    BY <2>0 DEF k
  <2>2. \A i \in 1..k : page[i] \in Nat /\ (i < k => page[i] < page[k]) /\ (i < k \/ i = k)
    <3> SUFFICES ASSUME NEW i \in 1..k
                 PROVE  page[i] \in Nat /\ (i < k => page[i] < page[k]) /\ (i < k \/ i = k)
      OBVIOUS
    <3>1. page[i] \in Nat
      BY <1>2, <1>11
    <3>2. i < k => page[i] < page[k]
      BY <1>7, <1>8, <2>1
    <3>3. i < k \/ i = k
      BY <1>5
    <3> QED  BY <3>1, <3>2, <3>3
  <2>3. \A i \in 1..k : page[i] <= page[k]
    BY <2>1, <2>2
  <2> QED  BY <1>6, <1>10, <2>1, <2>2, <2>3
<1> HIDE DEF next, p
<1> QED  BY <1>1, <1>10, <1>12, <1>13, <1>14 DEF p

(* What a reload shows.                                                    *)
LEMMA WholeIs ==
    ASSUME CamerasInv, NEW f
    PROVE  LET p == Registry!Whole(f) IN Listing(registry_cameras, p.rows) /\ Answers(p.rows, f) /\ p.capped \in BOOLEAN
<1> DEFINE S == {id \in Cams : Registry!Matches(id, f)}
           all == Registry!Ascending(S)
           cut == RowLimit * ((MaxMapFeatures + RowLimit - 1) \div RowLimit)
           k == IF Len(all) > cut THEN cut ELSE Len(all)
           rows == [i \in 1..k |-> Registry!RowOf(all[i])]
           p == Registry!Whole(f)
<1>1. p = [rows |-> rows, capped |-> Len(all) > cut]
  BY DEF Registry!Whole, Cams
<1>2. S \in SUBSET Nat /\ IsFiniteSet(S) /\ S \subseteq Cams
  <2>1. PICK n \in Nat : Cams = 1..n
    BY LenProperties DEF CamerasInv, Cams
  <2>2. IsFiniteSet(Cams)
    BY <2>1, FS_Interval
  <2> QED  BY <2>1, <2>2, FS_Subset
<1> HIDE DEF S
<1>3. all \in Seq(S) /\ \A i, j \in DOMAIN all : i < j => all[i] < all[j]
  BY <1>2, AscendingIs
<1> HIDE DEF all
<1>4. Len(all) \in Nat /\ DOMAIN all = 1..Len(all) /\ \A i \in 1..Len(all) : all[i] \in S
  BY <1>3, LenProperties, ElementOfSeq
<1>5. cut \in Nat
  <2>1. RowLimit \in Nat /\ RowLimit > 0 /\ MaxMapFeatures \in Nat
    BY RegistryFacts
  <2> DEFINE d == (MaxMapFeatures + RowLimit - 1) \div RowLimit
  <2>2. d \in Nat
    BY <2>1
  <2> HIDE DEF d
  <2>3. RowLimit * d \in Nat
    BY <2>1, <2>2
  <2> QED  BY <2>3 DEF d
<1> HIDE DEF cut
<1>6. k \in Nat /\ k <= Len(all)
  BY <1>4, <1>5
<1> HIDE DEF k
<1>7. all \in Seq(Cams)
  BY <1>2, <1>3, SeqMonotonic
<1>8. rows = [i \in 1..k |-> Registry!RowOf(all[i])]
  OBVIOUS
<1> HIDE DEF rows
<1>9. /\ Listing(registry_cameras, rows) /\ DOMAIN rows = 1..k
      /\ \A i \in 1..k : rows[i].id = all[i] /\ rows[i].name = registry_cameras[all[i]].name
  BY <1>3, <1>6, <1>7, <1>8, RowsOfCameras
<1>10. \A i \in 1..k : all[i] \in S
  BY <1>4, <1>6
<1>11. Answers(rows, f)
  BY <1>9, <1>10 DEF Answers, S, Registry!Matches
<1>12. (Len(all) > cut) \in BOOLEAN
  OBVIOUS
<1> HIDE DEF p
<1> QED  BY <1>1, <1>9, <1>11, <1>12 DEF p

(* Cameras are added and removed, and keep their names.                    *)
Grown(cs, cs2) == DOMAIN cs \subseteq DOMAIN cs2 /\ \A c \in DOMAIN cs : cs2[c].name = cs[c].name

LEMMA GrownKeeps ==
    ASSUME NEW cs, NEW cs2, Grown(cs, cs2)
    PROVE  /\ \A r : Named(cs, r) => Named(cs2, r)
           /\ \A rows : Listing(cs, rows) => Listing(cs2, rows)
           /\ \A sel, q : Calls(cs, sel, q) => Calls(cs2, sel, q)
<1>1. \A r : Named(cs, r) => Named(cs2, r)
  BY DEF Named, Grown
<1>2. \A rows : Listing(cs, rows) => Listing(cs2, rows)
  BY <1>1 DEF Listing
<1>3. \A sel, q : CallOK(cs, sel, q) => CallOK(cs2, sel, q)
  <2> SUFFICES ASSUME NEW sel, NEW q, CallOK(cs, sel, q) PROVE CallOK(cs2, sel, q)
    OBVIOUS
  <2>1. CASE LoadOK(cs, q)
    BY <1>2, <2>1 DEF LoadOK, CallOK
  <2>2. CASE DetailOK(cs, sel, q)
    BY <2>2 DEF DetailOK, CallOK, Grown
  <2>3. CASE SaveOK(cs, q)
    BY <1>1, <2>3 DEF SaveOK, CallOK
  <2> QED  BY <2>1, <2>2, <2>3 DEF CallOK
<1>4. \A sel, q : Calls(cs, sel, q) => Calls(cs2, sel, q)
  BY <1>3 DEF Calls
<1> QED  BY <1>1, <1>2, <1>4

(* What appending a call, answering the first one and rewriting calls do   *)
(* to the queue.                                                           *)
LEMMA AppendedCalls ==
    ASSUME NEW cs, NEW sel, NEW q, Calls(cs, sel, q), NEW call, CallOK(cs, sel, call)
    PROVE  /\ Calls(cs, sel, Append(q, call))
           /\ Append(q, call) # <<>>
           /\ \A f, rows, bad : call.kind = "load" /\ call.filters = f => Covered(Append(q, call), f, rows, bad)
           /\ \A f, rows, bad : call.kind # "load" /\ Covered(q, f, rows, bad) => Covered(Append(q, call), f, rows, bad)
<1>1. PICK S0 : q \in Seq(S0)
  BY DEF Calls
<1> DEFINE S == S0 \cup {call}
           a == Append(q, call)
           n == Len(q)
<1>2. q \in Seq(S) /\ call \in S
  BY <1>1, SeqMonotonic
<1> HIDE DEF S
<1>3. a \in Seq(S) /\ a # <<>> /\ Len(a) = n + 1 /\ (\A i \in 1..n : a[i] = q[i]) /\ a[n + 1] = call
  BY <1>2, AppendProperties
<1>4. n \in Nat /\ DOMAIN q = 1..n /\ DOMAIN a = 1..(n + 1)
  BY <1>2, <1>3, LenProperties
<1> HIDE DEF a, n
<1>5. \A i \in 1..(n + 1) : (i \in 1..n /\ a[i] = q[i]) \/ (i = n + 1 /\ a[i] = call)
  BY <1>3, <1>4
<1>6. Calls(cs, sel, a)
  BY <1>3, <1>4, <1>5 DEF Calls
<1>7. ASSUME NEW f, NEW rows, NEW bad, call.kind = "load", call.filters = f
      PROVE  Covered(a, f, rows, bad)
  <2>1. n + 1 \in Loads(a)
    BY <1>3, <1>4, <1>7 DEF Loads
  <2>2. \A i \in Loads(a) : n + 1 <= i => i = n + 1
    BY <1>4 DEF Loads
  <2> QED  BY <1>3, <1>7, <2>1, <2>2 DEF Covered
<1>8. ASSUME NEW f, NEW rows, NEW bad, call.kind # "load", Covered(q, f, rows, bad)
      PROVE  Covered(a, f, rows, bad)
  <2>1. Loads(a) = Loads(q)
    BY <1>3, <1>4, <1>5, <1>8 DEF Loads
  <2>2. \A i \in Loads(q) : a[i] = q[i]
    BY <1>3, <1>4 DEF Loads
  <2> QED  BY <1>8, <2>1, <2>2 DEF Covered
<1> QED  BY <1>3, <1>6, <1>7, <1>8 DEF a

LEMMA AnsweredCalls ==
    ASSUME NEW cs, NEW sel, NEW q, Calls(cs, sel, q), q # <<>>
    PROVE  /\ Calls(cs, sel, Tail(q)) /\ CallOK(cs, sel, Head(q)) /\ Head(q) = q[1] /\ 1 \in DOMAIN q
           /\ \A f, rows, bad : Head(q).kind # "load" /\ Covered(q, f, rows, bad) => Covered(Tail(q), f, rows, bad)
           /\ \A f, rows, bad, rows2, bad2 :
                Head(q).kind = "load" /\ Covered(q, f, rows, bad)
                /\ (Head(q).filters = f /\ ~bad2 => Answers(rows2, f)) => Covered(Tail(q), f, rows2, bad2)
<1>1. PICK S : q \in Seq(S)
  BY DEF Calls
<1> DEFINE t == Tail(q)
           n == Len(q)
<1>2. t \in Seq(S) /\ Len(t) = n - 1 /\ (\A i \in 1..Len(t) : t[i] = q[i + 1]) /\ Head(q) = q[1]
  BY <1>1, HeadTailProperties
<1>3. n \in Nat \ {0} /\ DOMAIN q = 1..n /\ DOMAIN t = 1..(n - 1)
  BY <1>1, <1>2, LenProperties, EmptySeq
<1> HIDE DEF t, n
<1>4. /\ 1 \in DOMAIN q
      /\ \A i \in 1..(n - 1) : t[i] = q[i + 1] /\ i + 1 \in 1..n
      /\ \A i \in 1..n : i = 1 \/ (i - 1 \in 1..(n - 1) /\ t[i - 1] = q[i])
  <2>1. \A i \in 1..(n - 1) : t[i] = q[i + 1] /\ i + 1 \in 1..n
    BY <1>2, <1>3
  <2>2. \A i \in 1..n : i = 1 \/ (i - 1 \in 1..(n - 1) /\ (i - 1) + 1 = i)
    BY <1>3
  <2> QED  BY <1>3, <2>1, <2>2
<1>5. Calls(cs, sel, t) /\ CallOK(cs, sel, Head(q))
  BY <1>2, <1>3, <1>4 DEF Calls
<1>6. /\ \A i \in Loads(t) : i + 1 \in Loads(q) /\ t[i] = q[i + 1]
      /\ \A i \in Loads(q) : i = 1 \/ i - 1 \in Loads(t)
      /\ Loads(t) \subseteq Nat /\ Loads(q) \subseteq Nat \ {0}
  BY <1>3, <1>4 DEF Loads
<1>7. ASSUME NEW f, NEW rows, NEW bad, Covered(q, f, rows, bad), NEW i \in Loads(t), \A j \in Loads(t) : j <= i
      PROVE  t[i].filters = f
  <2>1. \A j \in Loads(q) : j <= i + 1
    BY <1>6, <1>7
  <2> QED  BY <1>6, <1>7, <2>1 DEF Covered
<1>8. ASSUME NEW f, NEW rows, NEW bad, Head(q).kind # "load", Covered(q, f, rows, bad)
      PROVE  Covered(t, f, rows, bad)
  <2>1. Loads(t) = {} => Loads(q) = {}
    BY <1>2, <1>6, <1>8 DEF Loads
  <2> QED  BY <1>7, <1>8, <2>1 DEF Covered
<1>9. ASSUME NEW f, NEW rows, NEW bad, NEW rows2, NEW bad2, Head(q).kind = "load", Covered(q, f, rows, bad),
             Head(q).filters = f /\ ~bad2 => Answers(rows2, f)
      PROVE  Covered(t, f, rows2, bad2)
  <2>1. ASSUME Loads(t) = {} PROVE Head(q).filters = f
    <3>1. 1 \in Loads(q) /\ \A j \in Loads(q) : j <= 1
      BY <1>2, <1>4, <1>6, <1>9, <2>1 DEF Loads
    <3> QED  BY <1>2, <1>9, <3>1 DEF Covered
  <2> QED  BY <1>7, <1>9, <2>1 DEF Covered
<1> QED  BY <1>2, <1>4, <1>5, <1>8, <1>9 DEF t

(* Forgetting the details under way.                                       *)
LEMMA ForgottenCalls ==
    ASSUME NEW cs, NEW sel, NEW q, Calls(cs, sel, q)
    PROVE  /\ \A s : Calls(cs, s, Registry!Forgotten(q))
           /\ \A f, rows, bad : Covered(q, f, rows, bad) => Covered(Registry!Forgotten(q), f, rows, bad)
<1> DEFINE g == Registry!Forgotten(q)
           G(x) == IF x.kind = "detail" THEN [x EXCEPT !.live = FALSE] ELSE x
<1>1. PICK n \in Nat : DOMAIN q = 1..n
  BY LenProperties DEF Calls
<1>2. g = [i \in 1..n |-> G(q[i])]
  BY <1>1 DEF Registry!Forgotten
<1> HIDE DEF g
<1>3. ASSUME NEW s, NEW x, CallOK(cs, sel, x)
      PROVE  CallOK(cs, s, G(x)) /\ G(x).kind = x.kind /\ (x.kind = "load" => G(x) = x)
  <2>1. CASE LoadOK(cs, x)
    <3>1. x.kind = "load"
      BY <2>1 DEF LoadOK
    <3> QED  BY <2>1, <3>1 DEF CallOK
  <2>2. CASE DetailOK(cs, sel, x)
    <3>1. G(x) = [kind |-> "detail", id |-> x.id, live |-> FALSE] /\ x.kind = "detail" /\ x.id \in DOMAIN cs
      <4>1. PICK d, l : x = [kind |-> "detail", id |-> d, live |-> l] /\ d \in DOMAIN cs
        BY <2>2 DEF DetailOK
      <4> QED  BY <4>1
    <3> HIDE DEF G
    <3> QED  BY <3>1 DEF CallOK, DetailOK
  <2>3. CASE SaveOK(cs, x)
    <3>1. x.kind = "save"
      BY <2>3 DEF SaveOK
    <3> QED  BY <2>3, <3>1 DEF CallOK
  <2> QED  BY <1>3, <2>1, <2>2, <2>3 DEF CallOK
<1> HIDE DEF G
<1>4. DOMAIN g = DOMAIN q /\ \A i \in DOMAIN q : g[i] = G(q[i]) /\ CallOK(cs, sel, q[i])
  BY <1>1, <1>2 DEF Calls
<1>5. g \in Seq({G(q[i]) : i \in 1..n})
  <2>1. g \in [1..n -> {G(q[i]) : i \in 1..n}]
    BY <1>2
  <2> QED  BY <1>1, <2>1, SequenceOf
<1>6. \A s : Calls(cs, s, g)
  BY <1>3, <1>4, <1>5 DEF Calls
<1>7. ASSUME NEW f, NEW rows, NEW bad, Covered(q, f, rows, bad)
      PROVE  Covered(g, f, rows, bad)
  <2>1. Loads(g) = Loads(q) /\ \A i \in Loads(q) : g[i] = q[i]
    BY <1>3, <1>4 DEF Loads
  <2> QED  BY <1>7, <2>1 DEF Covered
<1> QED  BY <1>6, <1>7 DEF g

Rewritten(q, call) == [q EXCEPT ![1] = call]

LEMMA RewrittenCalls ==
    ASSUME NEW cs, NEW sel, NEW q, Calls(cs, sel, q), 1 \in DOMAIN q, NEW call, CallOK(cs, sel, call),
           q[1].kind = "load", call.kind = "load", call.filters = q[1].filters,
           NEW f, NEW rows, NEW bad, Covered(q, f, rows, bad)
    PROVE  Calls(cs, sel, Rewritten(q, call)) /\ Covered(Rewritten(q, call), f, rows, bad)
<1> DEFINE q2 == Rewritten(q, call)
<1>0. q2 = [q EXCEPT ![1] = call]
  BY DEF Rewritten
<1> HIDE DEF q2
<1>1. PICK S : q \in Seq(S)
  BY DEF Calls
<1>2. PICK n \in Nat : DOMAIN q = 1..n /\ q \in [1..n -> S]
  BY <1>1, LenProperties
<1>3. q2 \in [1..n -> S \cup {call}]
  BY <1>0, <1>2
<1>4. q2 \in Seq(S \cup {call}) /\ DOMAIN q2 = 1..n
  BY <1>3, SequenceOf
<1>5. \A i \in 1..n : q2[i] = IF i = 1 THEN call ELSE q[i]
  BY <1>0, <1>2
<1>6. Calls(cs, sel, q2)
  BY <1>2, <1>4, <1>5 DEF Calls
<1>7. Loads(q2) = Loads(q) /\ \A i \in Loads(q) : q2[i].filters = q[i].filters
  BY <1>2, <1>4, <1>5 DEF Loads
<1>8. Covered(q2, f, rows, bad)
  BY <1>7 DEF Covered
<1> QED  BY <1>6, <1>8 DEF q2

LEMMA RegistryInit == registry_cameras \in Estates /\ Registry!Init => RegistryInv
<1> SUFFICES ASSUME registry_cameras \in Estates, Registry!Init PROVE RegistryInv
  OBVIOUS
<1>1. CamerasInv
  BY RegistryFacts DEF CamerasInv, Cams
<1> DEFINE p == Registry!Whole(Registry!NoFilter)
<1>2. Listing(registry_cameras, p.rows) /\ Answers(p.rows, Registry!NoFilter) /\ p.capped \in BOOLEAN
  BY <1>1, WholeIs
<1>3. registry_filters \in Texts /\ registry_viewport \in Registry!Boxes
  BY RegistryFacts DEF Registry!Init, Registry!NoFilter, Texts, Registry!Boxes
<1>4. Calls(registry_cameras, NA, <<>>)
  <2>1. <<>> \in Seq({}) /\ DOMAIN <<>> = {}
    OBVIOUS
  <2> QED  BY <2>1 DEF Calls
<1>5. Covered(<<>>, Registry!NoFilter, p.rows, FALSE)
  BY <1>2 DEF Covered, Loads
<1>6. MaxActs \in Nat /\ MaxChanges \in Nat
  BY RegistryFacts
<1> HIDE DEF p
<1>7. /\ registry_shown = p.rows /\ registry_capped = p.capped
  BY DEF Registry!Init, p
<1>8. /\ registry_filters = Registry!NoFilter /\ registry_failed = FALSE /\ registry_timer = FALSE
      /\ registry_selected = NA /\ registry_detail = NA /\ registry_detailLoading = FALSE
      /\ registry_editing = NA /\ registry_queue = <<>> /\ registry_acts = 0 /\ registry_changes = 0
  BY DEF Registry!Init
<1>9. /\ Calls(registry_cameras, registry_selected, registry_queue)
      /\ Covered(registry_queue, registry_filters, registry_shown, registry_failed)
      /\ Listing(registry_cameras, registry_shown) /\ registry_capped \in BOOLEAN
  BY <1>2, <1>4, <1>5, <1>7, <1>8
<1>10. registry_acts \in 0..MaxActs /\ registry_changes \in 0..MaxChanges
  BY <1>6, <1>8
<1> QED  BY <1>1, <1>3, <1>8, <1>9, <1>10 DEF RegistryInv

Quiet == UNCHANGED <<registry_cameras, registry_shown, registry_capped, registry_failed>>

(* What the officer does on the map and with the dialogs asks nothing.     *)
LEMMA QuietStep ==
    ASSUME RegistryInv, Quiet,
           UNCHANGED <<registry_filters, registry_selected, registry_detail, registry_detailLoading, registry_queue>>,
           registry_viewport' \in Registry!Boxes, registry_timer' \in BOOLEAN,
           registry_editing' # NA => registry_editing' \in Registry!Rows /\ Named(registry_cameras, registry_editing'),
           registry_acts' \in 0..MaxActs, registry_changes' \in 0..MaxChanges
    PROVE  RegistryInv'
  BY DEF RegistryInv, Quiet, CamerasInv, Cams

(* A load for the filters now on the screen is appended.                   *)
LEMMA RegistryAskStep ==
    ASSUME RegistryInv, Quiet, registry_filters' \in Texts,
           registry_queue' = Append(registry_queue, Registry!Load(registry_filters')),
           UNCHANGED <<registry_viewport, registry_selected, registry_detail, registry_detailLoading, registry_editing>>,
           registry_timer' \in BOOLEAN, registry_acts' \in 0..MaxActs, UNCHANGED registry_changes
    PROVE  RegistryInv'
<1> DEFINE load == Registry!Load(registry_filters')
<1>1. LoadOK(registry_cameras, load) /\ load.kind = "load" /\ load.filters = registry_filters'
  <2>1. load = [kind |-> "load", filters |-> registry_filters', got |-> <<>>, cursor |-> NA]
    BY DEF Registry!Load, Registry!Loading
  <2>2. Listing(registry_cameras, <<>>) /\ Answers(<<>>, registry_filters')
    BY DEF Listing, Rising, Answers
  <2> HIDE DEF load
  <2> QED  BY <2>1, <2>2 DEF LoadOK
<1> HIDE DEF load
<1>2. Calls(registry_cameras, registry_selected, registry_queue)
  BY DEF RegistryInv
<1>3. CallOK(registry_cameras, registry_selected, load)
  BY <1>1 DEF CallOK
<1>4. /\ Calls(registry_cameras, registry_selected, Append(registry_queue, load))
      /\ Covered(Append(registry_queue, load), registry_filters', registry_shown, registry_failed)
  BY <1>1, <1>2, <1>3, AppendedCalls
<1>5. registry_queue' = Append(registry_queue, load)
  BY DEF load
<1> QED  BY <1>4, <1>5 DEF RegistryInv, Quiet, CamerasInv, Cams

LEMMA ActsInRange ==
    ASSUME RegistryInv, Registry!Acting
    PROVE  registry_acts' \in 0..MaxActs /\ UNCHANGED <<registry_cameras, registry_changes>>
  BY RegistryFacts DEF Registry!Acting, RegistryInv

LEMMA FiltersStep ==
    ASSUME RegistryInv,
           \/ \E n \in Registry!Names \cup {NA} : Registry!PatchFilters(n)
           \/ Registry!Reset \/ Registry!DialogClosed \/ Registry!OnViewportChange
    PROVE  RegistryInv'
<1>0. registry_acts \in 0..MaxActs /\ registry_timer \in BOOLEAN /\ registry_filters \in Texts
      /\ registry_viewport \in Registry!Boxes /\ registry_changes \in 0..MaxChanges
  BY DEF RegistryInv
<1>1. CASE \E n \in Registry!Names \cup {NA} : Registry!PatchFilters(n)
  <2>1. PICK n \in Registry!Names \cup {NA} : Registry!PatchFilters(n)
    BY <1>1
  <2>2. registry_filters' \in Texts
    BY <1>0, <2>1 DEF Registry!PatchFilters, Registry!SetFilters, Texts
  <2> QED
    BY <1>0, <2>1, <2>2, ActsInRange, RegistryAskStep
    DEF Registry!PatchFilters, Registry!SetFilters, Registry!screen, Registry!map, Registry!drawer, Quiet
<1>2. CASE Registry!Reset
  <2>1. registry_filters' \in Texts
    BY <1>2 DEF Registry!Reset, Registry!SetFilters, Registry!NoFilter, Texts
  <2> QED
    BY <1>0, <1>2, <2>1, ActsInRange, RegistryAskStep
    DEF Registry!Reset, Registry!SetFilters, Registry!screen, Registry!map, Registry!drawer, Quiet
<1>3. CASE Registry!DialogClosed
  BY <1>0, <1>3, ActsInRange, RegistryAskStep
  DEF Registry!DialogClosed, Registry!screen, Registry!map, Registry!drawer, Quiet
<1>4. CASE Registry!OnViewportChange
  <2>1. registry_timer' = FALSE /\ Quiet
        /\ UNCHANGED <<registry_viewport, registry_selected, registry_detail, registry_detailLoading,
                       registry_editing, registry_acts, registry_changes>>
    BY <1>4 DEF Registry!OnViewportChange, Registry!screen, Registry!drawer, Quiet
  <2>2. CASE registry_capped
    <3>1. registry_filters' = [registry_filters EXCEPT !.bbox = registry_viewport]
          /\ registry_queue' = Append(registry_queue, Registry!Load(registry_filters'))
      BY <1>4, <2>2 DEF Registry!OnViewportChange, Registry!SetFilters
    <3>2. registry_filters' \in Texts
      BY <1>0, <3>1 DEF Texts
    <3> QED  BY <1>0, <2>1, <3>1, <3>2, RegistryAskStep
  <2>3. CASE ~registry_capped
    <3>1. UNCHANGED <<registry_filters, registry_queue>>
      BY <1>4, <2>3 DEF Registry!OnViewportChange
    <3>2. registry_editing' # NA => registry_editing' \in Registry!Rows /\ Named(registry_cameras, registry_editing')
      BY <2>1 DEF RegistryInv
    <3> QED  BY <1>0, <2>1, <3>1, <3>2, QuietStep
  <2> QED  BY <2>2, <2>3
<1> QED  BY <1>1, <1>2, <1>3, <1>4

LEMMA DialogStep ==
    ASSUME RegistryInv,
           \/ Registry!CloseEdit
           \/ \E v \in Registry!Boxes : Registry!Pan(v)
           \/ \E line \in Registry!ToSet(registry_shown) : Registry!OpenEdit(line)
    PROVE  RegistryInv'
<1>0. registry_timer \in BOOLEAN /\ registry_viewport \in Registry!Boxes /\ registry_changes \in 0..MaxChanges
      /\ (registry_editing # NA => registry_editing \in Registry!Rows /\ Named(registry_cameras, registry_editing))
  BY DEF RegistryInv
<1>1. CASE Registry!CloseEdit
  BY <1>0, <1>1, ActsInRange, QuietStep
  DEF Registry!CloseEdit, Registry!screen, Registry!map, Registry!drawer, Quiet
<1>2. CASE \E v \in Registry!Boxes : Registry!Pan(v)
  BY <1>0, <1>2, ActsInRange, QuietStep
  DEF Registry!Pan, Registry!screen, Registry!drawer, Quiet
<1>3. CASE \E line \in Registry!ToSet(registry_shown) : Registry!OpenEdit(line)
  <2>1. \A line \in Registry!ToSet(registry_shown) : line \in Registry!Rows /\ Named(registry_cameras, line)
    <3>1. \A i \in DOMAIN registry_shown : registry_shown[i] \in Registry!Rows
      BY LenProperties, ElementOfSeq DEF RegistryInv, Listing
    <3> QED  BY <3>1 DEF RegistryInv, Listing, Registry!ToSet
  <2> QED
    BY <1>0, <1>3, <2>1, ActsInRange, QuietStep
    DEF Registry!OpenEdit, Registry!screen, Registry!map, Registry!drawer, Quiet
<1> QED  BY <1>1, <1>2, <1>3

LEMMA RegistrySubmitStep ==
    ASSUME RegistryInv, NEW c \in Cells, Registry!Submit(c)
    PROVE  RegistryInv'
<1> DEFINE line == [registry_editing EXCEPT !.cell = c]
           save == [kind |-> "save", row |-> line]
<1>1. registry_editing \in Registry!Rows /\ Named(registry_cameras, registry_editing)
  BY DEF RegistryInv, Registry!Submit
<1>2. line \in Registry!Rows /\ Named(registry_cameras, line)
  BY <1>1 DEF Registry!Rows, Named
<1> HIDE DEF line
<1>3. CallOK(registry_cameras, registry_selected, save) /\ save.kind # "load"
  BY <1>2 DEF CallOK, SaveOK
<1>4. registry_queue' = Append(registry_queue, save)
  BY DEF Registry!Submit, Registry!SaveOf, line
<1> HIDE DEF save
<1>5. /\ Calls(registry_cameras, registry_selected, registry_queue)
      /\ Covered(registry_queue, registry_filters, registry_shown, registry_failed)
  BY DEF RegistryInv
<1>6. /\ Calls(registry_cameras, registry_selected, Append(registry_queue, save))
      /\ Covered(Append(registry_queue, save), registry_filters, registry_shown, registry_failed)
  BY <1>3, <1>5, AppendedCalls
<1>7. Registry!Acting /\ UNCHANGED <<registry_filters, registry_shown, registry_capped, registry_failed,
                          registry_viewport, registry_timer, registry_selected, registry_detail,
                          registry_detailLoading, registry_editing>>
  BY DEF Registry!Submit, Registry!screen, Registry!map, Registry!drawer
<1>8. registry_acts' \in 0..MaxActs /\ UNCHANGED <<registry_cameras, registry_changes>>
  BY <1>7, ActsInRange
<1> QED  BY <1>4, <1>6, <1>7, <1>8 DEF RegistryInv, CamerasInv, Cams

LEMMA RegistrySelectStep ==
    ASSUME RegistryInv, NEW id \in CameraIds \cup {NA}, Registry!Select(id)
    PROVE  RegistryInv'
<1> DEFINE g == Registry!Forgotten(registry_queue)
           call == Registry!LoadDetail(id)
<1>1. /\ Calls(registry_cameras, registry_selected, registry_queue)
      /\ Covered(registry_queue, registry_filters, registry_shown, registry_failed)
  BY DEF RegistryInv
<1>2. /\ Calls(registry_cameras, id, g)
      /\ Covered(g, registry_filters, registry_shown, registry_failed)
  BY <1>1, ForgottenCalls
<1>3. /\ Registry!Acting /\ registry_selected' = id
      /\ UNCHANGED <<registry_filters, registry_shown, registry_capped, registry_failed,
                     registry_viewport, registry_timer, registry_editing>>
  BY DEF Registry!Select, Registry!screen, Registry!map
<1>4. registry_acts' \in 0..MaxActs /\ UNCHANGED <<registry_cameras, registry_changes>>
  BY <1>3, ActsInRange
<1>5. CASE id = NA
  <2>1. registry_detail' = NA /\ registry_queue' = g /\ UNCHANGED registry_detailLoading
    BY <1>5 DEF Registry!Select
  <2> HIDE DEF g
  <2> QED  BY <1>2, <1>3, <1>4, <1>5, <2>1 DEF RegistryInv, CamerasInv, Cams
<1>6. CASE id # NA
  <2>1. registry_detailLoading' = TRUE /\ registry_queue' = Append(g, call) /\ UNCHANGED registry_detail
    BY <1>6 DEF Registry!Select
  <2>2. PICK i \in DOMAIN registry_shown : registry_shown[i].id = id
    BY <1>6 DEF Registry!Select
  <2>3. id \in DOMAIN registry_cameras
    BY <2>2 DEF RegistryInv, Listing, Named
  <2>4. CallOK(registry_cameras, id, call) /\ call.kind # "load"
    BY <2>3 DEF CallOK, DetailOK, Registry!LoadDetail
  <2> HIDE DEF g, call
  <2>5. /\ Calls(registry_cameras, id, Append(g, call))
        /\ Covered(Append(g, call), registry_filters, registry_shown, registry_failed)
    BY <1>2, <2>4, AppendedCalls
  <2> QED  BY <1>3, <1>4, <2>1, <2>3, <2>5 DEF RegistryInv, CamerasInv, Cams
<1> QED  BY <1>5, <1>6

LEMMA ReloadStep == RegistryInv /\ Registry!Reload => RegistryInv'
<1> SUFFICES ASSUME RegistryInv, Registry!Reload PROVE RegistryInv'
  OBVIOUS
<1> DEFINE p == Registry!Whole(registry_filters)
<1>1. Listing(registry_cameras, p.rows) /\ Answers(p.rows, registry_filters) /\ p.capped \in BOOLEAN
  BY WholeIs DEF RegistryInv
<1>2. /\ registry_shown' = p.rows /\ registry_capped' = p.capped /\ registry_failed' = FALSE
      /\ registry_viewport' = (IF registry_filters.bbox = NA THEN Cells ELSE registry_filters.bbox)
      /\ registry_timer' = FALSE /\ registry_editing' = NA /\ registry_detail' = NA
      /\ UNCHANGED <<registry_filters, registry_selected>> /\ Registry!Acting
  BY DEF Registry!Reload
<1>3. registry_acts' \in 0..MaxActs /\ UNCHANGED <<registry_cameras, registry_changes>>
  BY <1>2, ActsInRange
<1>4. registry_viewport' \in Registry!Boxes
  <2>1. registry_filters.bbox = NA \/ registry_filters.bbox \in Registry!Boxes
    BY DEF RegistryInv, Texts
  <2>2. Cells \in Registry!Boxes
    BY RegistryFacts DEF Registry!Boxes
  <2> QED  BY <1>2, <2>1, <2>2
<1> HIDE DEF p
<1>5. \/ registry_selected = NA /\ registry_detailLoading' = FALSE /\ registry_queue' = <<>>
      \/ registry_selected # NA /\ registry_detailLoading' = TRUE
         /\ registry_queue' = <<Registry!LoadDetail(registry_selected)>>
  BY DEF Registry!Reload
<1>6. registry_detailLoading' \in BOOLEAN /\ Calls(registry_cameras, registry_selected, registry_queue')
      /\ Loads(registry_queue') = {}
  <2>1. CASE registry_queue' = <<>>
    <3>1. <<>> \in Seq({}) /\ DOMAIN <<>> = {}
      OBVIOUS
    <3> QED  BY <1>5, <2>1, <3>1 DEF Calls, Loads
  <2>2. CASE registry_selected # NA /\ registry_queue' = <<Registry!LoadDetail(registry_selected)>>
    <3> DEFINE call == Registry!LoadDetail(registry_selected)
    <3>1. registry_selected \in DOMAIN registry_cameras
      BY <2>2 DEF RegistryInv, Cams
    <3>2. CallOK(registry_cameras, registry_selected, call) /\ call.kind # "load"
      BY <3>1 DEF CallOK, DetailOK, Registry!LoadDetail
    <3> HIDE DEF call
    <3>3. <<call>> \in Seq({call}) /\ DOMAIN <<call>> = {1} /\ <<call>>[1] = call
      OBVIOUS
    <3>4. registry_queue' = <<call>>
      BY <2>2 DEF call
    <3> QED  BY <1>5, <3>2, <3>3, <3>4 DEF Calls, Loads
  <2> QED  BY <1>5, <2>1, <2>2
<1>7. Covered(registry_queue', registry_filters, p.rows, FALSE)
  BY <1>1, <1>6 DEF Covered
<1> QED  BY <1>1, <1>2, <1>3, <1>4, <1>6, <1>7 DEF RegistryInv, CamerasInv, Cams

(* The walk of a load: the next page is of rows past the cursor.           *)
MadeOf(s, a, b) == \A k \in DOMAIN s : (\E i \in DOMAIN a : s[k] = a[i]) \/ (\E j \in DOMAIN b : s[k] = b[j])

LEMMA JoinedListing ==
    ASSUME NEW cs, NEW a, NEW b, Listing(cs, a), Listing(cs, b),
           \A i \in DOMAIN a, j \in DOMAIN b : a[i].id < b[j].id
    PROVE  /\ Listing(cs, a \o b)
           /\ \A f : Answers(a, f) /\ Answers(b, f) => Answers(a \o b, f)
           /\ MadeOf(a \o b, a, b)
<1> DEFINE s == a \o b
           m == Len(a)
           n == Len(b)
<1>1. a \in Seq(Registry!Rows) /\ b \in Seq(Registry!Rows)
  BY DEF Listing
<1>2. s \in Seq(Registry!Rows) /\ Len(s) = m + n
      /\ \A i \in 1..(m + n) : s[i] = IF i <= m THEN a[i] ELSE b[i - m]
  BY <1>1, ConcatProperties
<1>3. m \in Nat /\ n \in Nat /\ DOMAIN a = 1..m /\ DOMAIN b = 1..n /\ DOMAIN s = 1..(m + n)
  BY <1>1, <1>2, LenProperties
<1> HIDE DEF s, m, n
<1>4. \A k \in DOMAIN s : (k \in DOMAIN a /\ s[k] = a[k]) \/ (k > m /\ k - m \in DOMAIN b /\ s[k] = b[k - m])
  BY <1>2, <1>3
<1>5. Rising(s)
  <2> SUFFICES ASSUME NEW i \in DOMAIN s, NEW j \in DOMAIN s, i < j
               PROVE  s[i].id < s[j].id
    BY DEF Rising
  <2>1. CASE i \in DOMAIN a /\ s[i] = a[i] /\ j \in DOMAIN a /\ s[j] = a[j]
    BY <2>1 DEF Listing, Rising
  <2>2. CASE i \in DOMAIN a /\ s[i] = a[i] /\ j - m \in DOMAIN b /\ s[j] = b[j - m]
    BY <2>2
  <2>3. CASE i > m /\ i - m \in DOMAIN b /\ s[i] = b[i - m] /\ j - m \in DOMAIN b /\ s[j] = b[j - m]
    <3>1. i - m < j - m
      BY <1>3
    <3> QED  BY <2>3, <3>1 DEF Listing, Rising
  <2>4. CASE i > m /\ j \in DOMAIN a
    BY <1>3, <2>4
  <2> QED  BY <1>4, <2>1, <2>2, <2>3, <2>4
<1>6. \A i \in DOMAIN s : Named(cs, s[i])
  BY <1>4 DEF Listing
<1>7. \A f : Answers(a, f) /\ Answers(b, f) => Answers(s, f)
  BY <1>4 DEF Answers
<1>8. MadeOf(s, a, b)
  BY <1>4 DEF MadeOf
<1> QED  BY <1>2, <1>5, <1>6, <1>7, <1>8 DEF Listing, s

LEMMA PageStep == RegistryInv /\ Registry!PageAnswered => RegistryInv'
<1> SUFFICES ASSUME RegistryInv, Registry!PageAnswered PROVE RegistryInv'
  OBVIOUS
<1> DEFINE q == Head(registry_queue)
           p == Registry!Page(q.filters, q.cursor)
           got == q.got \o p.rows
           cap == p.next # NA /\ Len(got) >= MaxMapFeatures
           more == Registry!Loading(q.filters, got, p.next)
<1>1. /\ registry_queue # <<>> /\ q.kind = "load"
      /\ UNCHANGED <<registry_cameras, registry_selected, registry_detail, registry_detailLoading, registry_editing,
                     registry_filters, registry_viewport, registry_timer, registry_acts, registry_changes>>
      /\ IF p.next = NA \/ cap
         THEN registry_queue' = Tail(registry_queue) /\ registry_shown' = got
              /\ registry_capped' = cap /\ registry_failed' = FALSE
         ELSE /\ registry_queue' = [registry_queue EXCEPT ![1] = more]
              /\ UNCHANGED <<registry_shown, registry_capped, registry_failed>>
  BY DEF Registry!PageAnswered, Registry!Head1, Registry!Unasked, Registry!map, Registry!drawer, Registry!screen
<1>2. /\ Calls(registry_cameras, registry_selected, registry_queue)
      /\ Covered(registry_queue, registry_filters, registry_shown, registry_failed)
  BY DEF RegistryInv
<1>3. CallOK(registry_cameras, registry_selected, q) /\ q = registry_queue[1] /\ 1 \in DOMAIN registry_queue
  BY <1>1, <1>2, AnsweredCalls
<1>4. LoadOK(registry_cameras, q)
  BY <1>1, <1>3 DEF CallOK, DetailOK, SaveOK
<1>5. /\ Listing(registry_cameras, p.rows) /\ Answers(p.rows, q.filters)
      /\ \A i \in DOMAIN p.rows : Registry!After(p.rows[i].id, q.cursor)
      /\ p.next # NA => /\ p.next \in Nat /\ DOMAIN p.rows # {}
                        /\ \A i \in DOMAIN p.rows : p.rows[i].id <= p.next
  BY PageIs DEF RegistryInv
<1>6. (p.next = NA \/ cap) \in BOOLEAN /\ cap \in BOOLEAN
  OBVIOUS
<1> HIDE DEF p, cap
<1>7. \A i \in DOMAIN q.got, j \in DOMAIN p.rows : q.got[i].id < p.rows[j].id
  <2> SUFFICES ASSUME NEW i \in DOMAIN q.got, NEW j \in DOMAIN p.rows
               PROVE  q.got[i].id < p.rows[j].id
    OBVIOUS
  <2>1. q.got # <<>>
    OBVIOUS
  <2>2. q.cursor # NA /\ q.cursor \in Nat /\ q.got[i].id <= q.cursor
    BY <1>4, <2>1 DEF LoadOK
  <2>3. p.rows[j].id > q.cursor
    BY <1>5, <2>2 DEF Registry!After
  <2>4. q.got[i].id \in Nat /\ p.rows[j].id \in Nat
    <3>1. q.got[i].id \in DOMAIN registry_cameras /\ p.rows[j].id \in DOMAIN registry_cameras
      BY <1>4, <1>5 DEF LoadOK, Listing, Named
    <3> QED  BY <3>1, LenProperties DEF RegistryInv, CamerasInv
  <2> QED  BY <2>2, <2>3, <2>4
<1>8. /\ Listing(registry_cameras, got) /\ Answers(got, q.filters)
      /\ MadeOf(got, q.got, p.rows)
  <2>1. Listing(registry_cameras, q.got) /\ Answers(q.got, q.filters)
    BY <1>4 DEF LoadOK
  <2> DEFINE a == q.got
             b == p.rows
  <2>2. Listing(registry_cameras, b) /\ Answers(b, q.filters)
    BY <1>5
  <2>3. \A i \in DOMAIN a, j \in DOMAIN b : a[i].id < b[j].id
    BY <1>7
  <2>4. Listing(registry_cameras, a) /\ Answers(a, q.filters) /\ got = a \o b
    BY <2>1
  <2> HIDE DEF q, a, b, got
  <2>5. /\ Listing(registry_cameras, a \o b) /\ Answers(a \o b, q.filters)
        /\ MadeOf(a \o b, a, b)
    <3>1. Listing(registry_cameras, a \o b)
      BY <2>2, <2>3, <2>4, JoinedListing
    <3>2. \A f : Answers(a, f) /\ Answers(b, f) => Answers(a \o b, f)
      BY <2>2, <2>3, <2>4, JoinedListing
    <3>3. MadeOf(a \o b, a, b)
      BY <2>2, <2>3, <2>4, JoinedListing
    <3> QED BY <2>2, <2>4, <3>1, <3>2, <3>3
  <2> QED  BY <2>4, <2>5 DEF a, b
<1> HIDE DEF got
<1>9. CASE p.next = NA \/ cap
  <2>1. /\ registry_queue' = Tail(registry_queue) /\ registry_shown' = got
        /\ registry_capped' = cap /\ registry_failed' = FALSE
    BY <1>1, <1>9
  <2>2. /\ Calls(registry_cameras, registry_selected, Tail(registry_queue))
        /\ Covered(Tail(registry_queue), registry_filters, got, FALSE)
    BY <1>1, <1>2, <1>8, AnsweredCalls
  <2> HIDE DEF q
  <2> QED  BY <1>1, <1>6, <1>8, <2>1, <2>2 DEF RegistryInv, CamerasInv, Cams
<1>10. CASE ~(p.next = NA \/ cap)
  <2>1. /\ registry_queue' = [registry_queue EXCEPT ![1] = more]
        /\ UNCHANGED <<registry_shown, registry_capped, registry_failed>> /\ p.next # NA
    BY <1>1, <1>10
  <2>2. \A k \in DOMAIN got : got[k].id <= p.next
    <3> SUFFICES ASSUME NEW k \in DOMAIN got PROVE got[k].id <= p.next
      OBVIOUS
    <3>1. CASE \E j \in DOMAIN p.rows : got[k] = p.rows[j]
      BY <1>5, <2>1, <3>1
    <3>2. CASE \E i \in DOMAIN q.got : got[k] = q.got[i]
      <4>1. PICK i \in DOMAIN q.got : got[k] = q.got[i]
        BY <3>2
      <4>2. q.cursor # NA /\ q.cursor \in Nat /\ q.got[i].id <= q.cursor
        BY <1>4 DEF LoadOK
      <4>3. q.got[i].id \in Nat
        BY <1>4, LenProperties DEF LoadOK, Listing, Named, RegistryInv, CamerasInv
      <4>4. PICK j \in DOMAIN p.rows : TRUE
        BY <1>5, <2>1
      <4>5. q.got[i].id < p.rows[j].id /\ p.rows[j].id <= p.next /\ p.next \in Nat
        BY <1>5, <1>7, <2>1
      <4>6. p.rows[j].id \in Nat
        BY <1>5, LenProperties DEF Listing, Named, RegistryInv, CamerasInv
      <4> QED  BY <4>1, <4>3, <4>5, <4>6
    <3> QED  BY <1>8, <3>1, <3>2 DEF MadeOf
  <2>3. LoadOK(registry_cameras, more) /\ more.kind = "load" /\ more.filters = q.filters
    <3>1. q.filters \in Texts
      BY <1>4 DEF LoadOK
    <3>2. more = [kind |-> "load", filters |-> q.filters, got |-> got, cursor |-> p.next]
      BY DEF Registry!Loading
    <3> HIDE DEF more, q
    <3> QED  BY <1>5, <1>8, <2>1, <2>2, <3>1, <3>2 DEF LoadOK
  <2> HIDE DEF more
  <2>4. /\ Calls(registry_cameras, registry_selected, registry_queue')
        /\ Covered(registry_queue', registry_filters, registry_shown, registry_failed)
    <3>1. CallOK(registry_cameras, registry_selected, more)
      BY <2>3 DEF CallOK
    <3>2. registry_queue[1].kind = "load" /\ more.kind = "load" /\ more.filters = registry_queue[1].filters
      BY <1>1, <1>3, <2>3
    <3>3. Calls(registry_cameras, registry_selected, registry_queue) /\ 1 \in DOMAIN registry_queue
      BY <1>2, <1>3
    <3> HIDE DEF q
    <3>4. registry_queue' = Rewritten(registry_queue, more)
      BY <2>1 DEF Rewritten
    <3>6. /\ Calls(registry_cameras, registry_selected, Rewritten(registry_queue, more))
          /\ Covered(Rewritten(registry_queue, more), registry_filters, registry_shown, registry_failed)
      BY <1>2, <3>1, <3>2, <3>3, RewrittenCalls
    <3> QED  BY <3>4, <3>6
  <2> HIDE DEF q
  <2> QED  BY <1>1, <2>1, <2>4 DEF RegistryInv, CamerasInv, Cams
<1> QED  BY <1>9, <1>10

LEMMA LoadFailedStep == RegistryInv /\ Registry!LoadFailed => RegistryInv'
<1> SUFFICES ASSUME RegistryInv, Registry!LoadFailed PROVE RegistryInv'
  OBVIOUS
<1>1. /\ registry_queue # <<>> /\ Head(registry_queue).kind = "load"
      /\ registry_queue' = Tail(registry_queue) /\ registry_failed' = TRUE
      /\ UNCHANGED <<registry_cameras, registry_shown, registry_capped, registry_selected, registry_detail,
                     registry_detailLoading, registry_editing, registry_filters, registry_viewport, registry_timer,
                     registry_acts, registry_changes>>
  BY DEF Registry!LoadFailed, Registry!Head1, Registry!Unasked, Registry!map, Registry!drawer
<1>2. /\ Calls(registry_cameras, registry_selected, registry_queue)
      /\ Covered(registry_queue, registry_filters, registry_shown, registry_failed)
  BY DEF RegistryInv
<1>3. /\ Calls(registry_cameras, registry_selected, Tail(registry_queue))
      /\ Covered(Tail(registry_queue), registry_filters, registry_shown, TRUE)
  BY <1>1, <1>2, AnsweredCalls
<1> QED  BY <1>1, <1>3 DEF RegistryInv, CamerasInv, Cams

LEMMA DetailStep ==
    ASSUME RegistryInv, NEW ok \in BOOLEAN, Registry!DetailAnswered(ok)
    PROVE  RegistryInv'
<1> DEFINE q == Head(registry_queue)
<1>1. /\ registry_queue # <<>> /\ q.kind = "detail" /\ registry_queue' = Tail(registry_queue)
      /\ IF q.live
         THEN /\ registry_detailLoading' = FALSE
              /\ registry_detail' = IF ok /\ Registry!Listed(q.id) THEN Registry!RowOf(q.id) ELSE NA
         ELSE UNCHANGED <<registry_detail, registry_detailLoading>>
      /\ UNCHANGED <<registry_cameras, registry_shown, registry_capped, registry_failed, registry_selected,
                     registry_editing, registry_filters, registry_viewport, registry_timer,
                     registry_acts, registry_changes>>
  BY DEF Registry!DetailAnswered, Registry!Head1, Registry!Unasked, Registry!map, Registry!screen
<1>2. /\ Calls(registry_cameras, registry_selected, registry_queue)
      /\ Covered(registry_queue, registry_filters, registry_shown, registry_failed)
  BY DEF RegistryInv
<1>3. /\ Calls(registry_cameras, registry_selected, Tail(registry_queue))
      /\ Covered(Tail(registry_queue), registry_filters, registry_shown, registry_failed)
      /\ CallOK(registry_cameras, registry_selected, q)
  BY <1>1, <1>2, AnsweredCalls
<1>4. q.id \in DOMAIN registry_cameras /\ (q.live => q.id = registry_selected)
  BY <1>1, <1>3 DEF CallOK, LoadOK, DetailOK, SaveOK
<1>5. Registry!RowOf(q.id) \in Registry!Rows /\ Registry!RowOf(q.id).id = q.id
  <2>1. q.id \in CameraIds /\ registry_cameras[q.id] \in Registry!Stands
    BY <1>4, LenProperties, ElementOfSeq DEF RegistryInv, CamerasInv, Cams
  <2> HIDE DEF q
  <2> QED  BY <2>1 DEF Registry!RowOf, Registry!Rows, Registry!Stands
<1> HIDE DEF q
<1>6. CASE q.live
  BY <1>1, <1>3, <1>4, <1>5, <1>6 DEF RegistryInv, CamerasInv, Cams
<1>7. CASE ~q.live
  BY <1>1, <1>3, <1>7 DEF RegistryInv, CamerasInv, Cams
<1> QED  BY <1>6, <1>7

LEMMA SaveStep == RegistryInv /\ Registry!SaveAnswered => RegistryInv'
<1> SUFFICES ASSUME RegistryInv, Registry!SaveAnswered PROVE RegistryInv'
  OBVIOUS
<1> DEFINE q == Head(registry_queue)
           line == q.row
           cs2 == [registry_cameras EXCEPT ![line.id].cell = line.cell, ![line.id].name = line.name]
           rows2 == [i \in DOMAIN registry_shown |-> IF registry_shown[i].id = line.id THEN line ELSE registry_shown[i]]
<1>1. /\ registry_queue # <<>> /\ q.kind = "save" /\ registry_queue' = Tail(registry_queue)
      /\ IF Registry!Listed(line.id)
         THEN registry_cameras' = cs2 /\ registry_shown' = rows2 /\ registry_editing' = NA
         ELSE UNCHANGED <<registry_cameras, registry_shown, registry_editing>>
      /\ UNCHANGED <<registry_capped, registry_failed, registry_selected, registry_detail, registry_detailLoading,
                     registry_filters, registry_viewport, registry_timer, registry_acts, registry_changes>>
  BY DEF Registry!SaveAnswered, Registry!Head1, Registry!Unasked, Registry!map, Registry!drawer
<1>2. /\ Calls(registry_cameras, registry_selected, registry_queue)
      /\ Covered(registry_queue, registry_filters, registry_shown, registry_failed)
  BY DEF RegistryInv
<1>3. /\ Calls(registry_cameras, registry_selected, Tail(registry_queue))
      /\ Covered(Tail(registry_queue), registry_filters, registry_shown, registry_failed)
      /\ CallOK(registry_cameras, registry_selected, q)
  BY <1>1, <1>2, AnsweredCalls
<1>4. line \in Registry!Rows /\ Named(registry_cameras, line)
  BY <1>1, <1>3 DEF CallOK, LoadOK, DetailOK, SaveOK
<1>5. CASE ~Registry!Listed(line.id)
  <2>1. UNCHANGED <<registry_cameras, registry_shown, registry_editing>>
    BY <1>1, <1>5
  <2> HIDE DEF q, line
  <2> QED  BY <1>1, <1>3, <2>1 DEF RegistryInv, CamerasInv, Cams
<1>6. CASE Registry!Listed(line.id)
  <2>1. registry_cameras' = cs2 /\ registry_shown' = rows2 /\ registry_editing' = NA
    BY <1>1, <1>6
  <2>2. registry_cameras \in Seq(Registry!Stands) /\ Listing(registry_cameras, registry_shown)
        /\ DOMAIN registry_cameras \subseteq CameraIds
    BY DEF RegistryInv, CamerasInv, Cams
  <2> HIDE DEF q, line
  <2>3. cs2 \in Seq(Registry!Stands) /\ DOMAIN cs2 = DOMAIN registry_cameras /\ Grown(registry_cameras, cs2)
    <3> DEFINE c == line.id
               old == registry_cameras[c]
               new == [[old EXCEPT !.cell = line.cell] EXCEPT !.name = line.name]
    <3>1. c \in DOMAIN registry_cameras /\ line.name = old.name
      BY <1>4 DEF Named
    <3>2. \A i \in DOMAIN registry_cameras : registry_cameras[i] \in Registry!Stands
      BY <2>2, LenProperties, ElementOfSeq
    <3>3. new \in Registry!Stands /\ new.name = line.name
      BY <1>4, <3>1, <3>2 DEF Registry!Stands, Registry!Rows
    <3>4. cs2 = [registry_cameras EXCEPT ![c] = new]
      BY <2>2, <3>1, <3>2, LenProperties DEF Registry!Stands
    <3> HIDE DEF new, cs2, c, old
    <3>5. PICK n \in Nat : DOMAIN registry_cameras = 1..n /\ registry_cameras \in [1..n -> Registry!Stands]
      BY <2>2, LenProperties
    <3>6. cs2 \in [1..n -> Registry!Stands]
      BY <3>1, <3>3, <3>4, <3>5
    <3>7. cs2 \in Seq(Registry!Stands) /\ DOMAIN cs2 = 1..n
      BY <3>6, SequenceOf
    <3>8. \A x \in DOMAIN registry_cameras : cs2[x].name = registry_cameras[x].name
      BY <3>1, <3>3, <3>4, <3>5 DEF old
    <3> QED  BY <3>5, <3>7, <3>8 DEF Grown
  <2>4. /\ rows2 \in Seq(Registry!Rows) /\ DOMAIN rows2 = DOMAIN registry_shown
        /\ \A i \in DOMAIN rows2 : rows2[i].id = registry_shown[i].id /\ rows2[i].name = registry_shown[i].name
        /\ \A i \in DOMAIN rows2 : Named(registry_cameras, rows2[i])
    <3>1. PICK n \in Nat : DOMAIN registry_shown = 1..n /\ registry_shown \in [1..n -> Registry!Rows]
      BY <2>2, LenProperties DEF Listing
    <3>2. rows2 \in [1..n -> Registry!Rows]
      BY <1>4, <3>1
    <3>3. rows2 \in Seq(Registry!Rows) /\ DOMAIN rows2 = 1..n
      BY <3>2, SequenceOf
    <3>4. \A i \in 1..n : rows2[i] = IF registry_shown[i].id = line.id THEN line ELSE registry_shown[i]
      BY <3>1
    <3> HIDE DEF rows2
    <3> QED  BY <1>4, <2>2, <3>1, <3>3, <3>4 DEF Listing, Named
  <2> HIDE DEF cs2, rows2
  <2>5. Listing(registry_cameras, rows2)
    BY <2>2, <2>4 DEF Listing, Rising
  <2>6. Listing(cs2, rows2) /\ Calls(cs2, registry_selected, Tail(registry_queue))
    BY <1>3, <2>3, <2>5, GrownKeeps
  <2>7. Covered(Tail(registry_queue), registry_filters, rows2, registry_failed)
    BY <1>3, <2>4 DEF Covered, Answers
  <2> QED  BY <1>1, <2>1, <2>3, <2>6, <2>7 DEF RegistryInv, CamerasInv, Cams
<1> QED  BY <1>5, <1>6

(* The registry changes under the screen.                                  *)
LEMMA ChangeStep ==
    ASSUME RegistryInv,
           \/ \E c \in Cells \cup {NA}, n \in Registry!Names : Registry!Onboard(c, n)
           \/ \E id \in DOMAIN registry_cameras : Registry!Delete(id)
    PROVE  RegistryInv'
<1>1. /\ registry_changes' \in 0..MaxChanges
      /\ UNCHANGED <<registry_filters, registry_shown, registry_capped, registry_failed, registry_viewport,
                     registry_timer, registry_selected, registry_detail, registry_detailLoading, registry_editing,
                     registry_queue, registry_acts>>
  BY RegistryFacts DEF Registry!Onboard, Registry!Delete, Registry!Changing, Registry!screen, Registry!map,
     Registry!drawer, RegistryInv
<1>2. registry_cameras \in Seq(Registry!Stands) /\ DOMAIN registry_cameras \subseteq CameraIds
  BY DEF RegistryInv, CamerasInv, Cams
<1>3. PICK n \in Nat : DOMAIN registry_cameras = 1..n /\ registry_cameras \in [1..n -> Registry!Stands]
  BY <1>2, LenProperties
<1>4. /\ registry_cameras' \in Seq(Registry!Stands) /\ DOMAIN registry_cameras' \subseteq CameraIds
      /\ Grown(registry_cameras, registry_cameras')
  <2>1. CASE \E c \in Cells \cup {NA}, name \in Registry!Names : Registry!Onboard(c, name)
    <3>1. PICK c \in Cells \cup {NA}, name \in Registry!Names, id \in CameraIds :
             /\ DOMAIN registry_cameras = 1..(id - 1)
             /\ registry_cameras' = [x \in 1..id |-> IF x = id THEN [cell |-> c, name |-> name, deleted |-> FALSE]
                                                     ELSE registry_cameras[x]]
      BY <2>1 DEF Registry!Onboard
    <3>2. id \in Nat \ {0} /\ \A x \in 1..id : x = id \/ x \in 1..(id - 1)
      BY RegistryFacts
    <3>3. [cell |-> c, name |-> name, deleted |-> FALSE] \in Registry!Stands
      BY DEF Registry!Stands
    <3>4. \A x \in 1..(id - 1) : registry_cameras[x] \in Registry!Stands
      BY <1>3, <3>1
    <3>5. registry_cameras' \in [1..id -> Registry!Stands]
      BY <3>1, <3>2, <3>3, <3>4
    <3>6. registry_cameras' \in Seq(Registry!Stands) /\ DOMAIN registry_cameras' = 1..id
      BY <3>2, <3>5, SequenceOf
    <3>7. \A x \in 1..(id - 1) : registry_cameras'[x] = registry_cameras[x] /\ x \in 1..id
      BY <3>1, <3>2
    <3>8. 1..id \subseteq CameraIds
      BY <1>2, <3>1, <3>2
    <3> QED  BY <3>1, <3>6, <3>7, <3>8 DEF Grown
  <2>2. CASE \E id \in DOMAIN registry_cameras : Registry!Delete(id)
    <3>1. PICK id \in 1..n : registry_cameras' = [registry_cameras EXCEPT ![id].deleted = TRUE]
      BY <1>3, <2>2 DEF Registry!Delete
    <3> DEFINE gone == [registry_cameras[id] EXCEPT !.deleted = TRUE]
    <3>2. gone \in Registry!Stands /\ gone.name = registry_cameras[id].name
      BY <1>3 DEF Registry!Stands
    <3>3. registry_cameras' = [registry_cameras EXCEPT ![id] = gone]
      BY <3>1
    <3> HIDE DEF gone
    <3>4. registry_cameras' \in [1..n -> Registry!Stands]
      BY <1>3, <3>2, <3>3
    <3>5. registry_cameras' \in Seq(Registry!Stands) /\ DOMAIN registry_cameras' = 1..n
      BY <3>4, SequenceOf
    <3> QED  BY <1>2, <1>3, <3>2, <3>3, <3>5 DEF Grown
  <2> QED  BY <2>1, <2>2
<1>5. /\ Listing(registry_cameras', registry_shown)
      /\ Calls(registry_cameras', registry_selected, registry_queue)
      /\ registry_editing # NA => Named(registry_cameras', registry_editing)
      /\ registry_selected \in DOMAIN registry_cameras' \cup {NA}
  BY <1>4, GrownKeeps DEF RegistryInv, Grown, Cams
<1> QED  BY <1>1, <1>4, <1>5 DEF RegistryInv, CamerasInv, Cams

LEMMA RegistryStep == RegistryInv /\ Registry!Next => RegistryInv'
  BY FiltersStep, DialogStep, RegistrySubmitStep, RegistrySelectStep, ReloadStep, PageStep, LoadFailedStep, DetailStep,
     SaveStep, ChangeStep DEF Registry!Next

(* Whatever the officers and the registry do while loads, details and      *)
(* saves are out, a settled screen shows rows of its filters, no camera is *)
(* listed twice, and the drawer shows the camera selected (web/registry).  *)
THEOREM RegistryHolds == ConsoleSpec => []ScreenIsCurrent
<1>1. ConsoleInit => RegistryInv
  <2> SUFFICES ASSUME ConsoleInit PROVE RegistryInv
    OBVIOUS
  <2>1. registry_cameras \in Estates /\ Registry!Init
    BY RegistryFacts DEF ConsoleInit
  <2> QED  BY <2>1, RegistryInit
<1>2. RegistryInv /\ [ConsoleNext]_consoleVars => RegistryInv'
  <2> SUFFICES ASSUME RegistryInv, [ConsoleNext]_consoleVars PROVE RegistryInv'
    OBVIOUS
  <2>1. CASE UNCHANGED registryVars
    BY <2>1 DEF registryVars, RegistryInv, CamerasInv, Cams
  <2>2. CASE Registry!Next
    BY <2>2, RegistryStep
  <2> QED  BY <2>1, <2>2 DEF ConsoleNext, consoleVars
<1>3. RegistryInv => ScreenIsCurrent
  <2> SUFFICES ASSUME RegistryInv PROVE Registry!ScreenIsCurrent
    BY DEF ScreenIsCurrent
  <2>1. Registry!TypeOK
    BY DEF RegistryInv, CamerasInv, Cams, Listing, Texts, Registry!TypeOK
  <2>2. ASSUME NEW rows, Listing(registry_cameras, rows)
        PROVE  Registry!IsInjective([i \in DOMAIN rows |-> rows[i].id])
    <3>1. PICK n \in Nat : DOMAIN rows = 1..n
      BY <2>2, LenProperties DEF Listing
    <3>2. \A i \in 1..n : rows[i].id \in Nat
      BY <2>2, <3>1, LenProperties DEF Listing, Named, RegistryInv, CamerasInv
    <3>3. \A i, j \in 1..n : rows[i].id = rows[j].id => i = j
      <4> SUFFICES ASSUME NEW i \in 1..n, NEW j \in 1..n, rows[i].id = rows[j].id, i # j PROVE FALSE
        OBVIOUS
      <4>1. i < j \/ j < i
        OBVIOUS
      <4> QED  BY <2>2, <3>1, <3>2, <4>1 DEF Listing, Rising
    <3> QED  BY <3>1, <3>3 DEF Registry!IsInjective
  <2>3. Registry!EachListedOnce
    <3>1. ASSUME NEW i \in DOMAIN registry_queue, registry_queue[i].kind = "load"
          PROVE  Listing(registry_cameras, registry_queue[i].got)
      BY <3>1 DEF RegistryInv, Calls, CallOK, LoadOK, DetailOK, SaveOK
    <3> QED  BY <2>2, <3>1 DEF Registry!EachListedOnce, RegistryInv
  <2>4. Registry!DrawerShowsSelected
    BY DEF RegistryInv, Registry!DrawerShowsSelected
  <2>5. Registry!RowsAnswerFilters
    BY DEF RegistryInv, Covered, Loads, Answers, Registry!RowsAnswerFilters
  <2> QED  BY <2>1, <2>3, <2>4, <2>5 DEF Registry!ScreenIsCurrent
<1> QED  BY <1>1, <1>2, <1>3, PTL DEF ConsoleSpec

=============================================================================
