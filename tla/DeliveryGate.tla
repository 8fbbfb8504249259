---------------------------- MODULE DeliveryGate ----------------------------
(***************************************************************************)
(* The cap on how many alerts reach the operator per window, and the       *)
(* digest of the rest (DeliveryGate, packages/api/src/services/alerts.ts). *)
(* Each consumer process has a gate of its own in memory; alert_digests,   *)
(* keyed by the start of the window, is shared.                            *)
(***************************************************************************)
EXTENDS Naturals, Sequences, FiniteSets, Functions

CONSTANTS
    Engine,
    Severity,
    Cap,            \* deliveriesPerMinute
    MaxWindow,      \* bound of the model: last window of the clock
    MaxAlerts,      \* bound of the model: alerts raised
    MaxStops        \* bound of the model: stops, crashes and failed flushes

GateAssumption ==
    /\ IsFiniteSet(Engine) /\ IsFiniteSet(Severity)
    /\ Cap \in Nat \ {0} /\ MaxWindow \in Nat /\ MaxAlerts \in Nat /\ MaxStops \in Nat

VARIABLES
    clock,          \* windowStartAt(now()), in windows
    current,        \* each gate's draft of the window it counts
    ready,          \* its closed drafts that have suppression in them
    drained,        \* the drafts a flush has taken and not yet written
    up,             \* the engines running
    digests,        \* alert_digests, by window
    shown,          \* history: alerts delivered live, by window
    hidden,         \* history: alerts suppressed, by window and severity
    raised,         \* alerts so far
    stops

gates == <<current, ready, drained, up>>
history == <<shown, hidden>>
vars == <<clock, gates, digests, history, raised, stops>>

Windows == 0..MaxWindow
Breakdown == [Severity -> Nat]
Nothing == [s \in Severity |-> 0]
Total(b) == SumFunctionOnSet(b, Severity)
Draft == [window : Windows, delivered : Nat, suppressed : Breakdown]
EmptyDraft(w) == [window |-> w, delivered |-> 0, suppressed |-> Nothing]

(* A digest row keeps the total and the breakdown in columns of their own. *)
Digest == [delivered : Nat, suppressed : Nat, bySeverity : Breakdown]
NoDigest == [delivered |-> 0, suppressed |-> 0, bySeverity |-> Nothing]

TypeOK ==
    /\ clock \in Windows
    /\ current \in [Engine -> Draft]
    /\ ready \in [Engine -> Seq(Draft)]
    /\ drained \in [Engine -> Seq(Draft)]
    /\ up \subseteq Engine
    /\ digests \in [Windows -> Digest]
    /\ shown \in [Windows -> Nat]
    /\ hidden \in [Windows -> Breakdown]
    /\ raised \in 0..MaxAlerts
    /\ stops \in 0..MaxStops
    /\ \A e \in Engine : \A i \in 1..Len(ready[e]) :
          ready[e][i].window < current[e].window /\ Total(ready[e][i].suppressed) > 0

Init ==
    /\ clock = 0
    /\ current = [e \in Engine |-> EmptyDraft(0)]
    /\ ready = [e \in Engine |-> <<>>]
    /\ drained = [e \in Engine |-> <<>>]
    /\ up = {}
    /\ digests = [w \in Windows |-> NoDigest]
    /\ shown = [w \in Windows |-> 0]
    /\ hidden = [w \in Windows |-> Nothing]
    /\ raised = 0
    /\ stops = 0

-----------------------------------------------------------------------------
Tick ==
    /\ clock < MaxWindow
    /\ clock' = clock + 1
    /\ UNCHANGED <<gates, digests, history, raised, stops>>

(* An engine is constructed with an empty draft of the present window. *)
Start(e) ==
    /\ e \notin up
    /\ up' = up \union {e}
    /\ current' = [current EXCEPT ![e] = EmptyDraft(clock)]
    /\ ready' = [ready EXCEPT ![e] = <<>>]
    /\ drained' = [drained EXCEPT ![e] = <<>>]
    /\ UNCHANGED <<clock, digests, history, raised, stops>>

(* roll(): the gate notices only here that its window is over. *)
Rolled(e) ==
    IF current[e].window = clock
      THEN [now |-> current[e], closed |-> ready[e]]
      ELSE [now |-> EmptyDraft(clock),
            closed |-> IF Total(current[e].suppressed) > 0
                         THEN Append(ready[e], current[e]) ELSE ready[e]]

Idle(e) == e \in up /\ drained[e] = <<>>

(* Mutants of Admit: the cap is compared after counting; no roll first.    *)
AdmitOffByOne(e, s) ==
    LET r == Rolled(e) IN
    /\ Idle(e)
    /\ raised < MaxAlerts
    /\ raised' = raised + 1
    /\ ready' = [ready EXCEPT ![e] = r.closed]
    /\ IF r.now.delivered + 1 < Cap
         THEN /\ current' = [current EXCEPT ![e] = [r.now EXCEPT !.delivered = @ + 1]]
              /\ shown' = [shown EXCEPT ![clock] = @ + 1]
              /\ UNCHANGED hidden
         ELSE /\ current' = [current EXCEPT ![e] = [r.now EXCEPT !.suppressed[s] = @ + 1]]
              /\ hidden' = [hidden EXCEPT ![clock][s] = @ + 1]
              /\ UNCHANGED shown
    /\ UNCHANGED <<clock, drained, up, digests, stops>>

(* One alert of the batch: delivered live while the cap lasts, counted in  *)
(* the draft after that.                                                   *)
Admit(e, s) ==
    LET r == Rolled(e) IN
    /\ Idle(e)
    /\ raised < MaxAlerts
    /\ raised' = raised + 1
    /\ ready' = [ready EXCEPT ![e] = r.closed]
    /\ IF r.now.delivered < Cap
         THEN /\ current' = [current EXCEPT ![e] = [r.now EXCEPT !.delivered = @ + 1]]
              /\ shown' = [shown EXCEPT ![clock] = @ + 1]
              /\ UNCHANGED hidden
         ELSE /\ current' = [current EXCEPT ![e] = [r.now EXCEPT !.suppressed[s] = @ + 1]]
              /\ hidden' = [hidden EXCEPT ![clock][s] = @ + 1]
              /\ UNCHANGED shown
    /\ UNCHANGED <<clock, drained, up, digests, stops>>

(* Mutant of Drain: the running window's draft goes out with every batch   *)
(* and stays where it is.                                                  *)
DrainAll(e) ==
    LET r == Rolled(e) IN
    /\ Idle(e)
    /\ current' = [current EXCEPT ![e] = r.now]
    /\ ready' = [ready EXCEPT ![e] = <<>>]
    /\ drained' = [drained EXCEPT ![e] =
                     IF Total(r.now.suppressed) > 0 THEN Append(r.closed, r.now) ELSE r.closed]
    /\ UNCHANGED <<clock, up, digests, history, raised, stops>>

(* The end of a batch: the closed drafts leave the gate ... *)
Drain(e) ==
    LET r == Rolled(e) IN
    /\ Idle(e)
    /\ current' = [current EXCEPT ![e] = r.now]
    /\ ready' = [ready EXCEPT ![e] = <<>>]
    /\ drained' = [drained EXCEPT ![e] = r.closed]
    /\ UNCHANGED <<clock, up, digests, history, raised, stops>>

(* ON CONFLICT (window_start): the counts add up, the breakdown is the     *)
(* newcomer's.                                                             *)
Merged(row, d) ==
    [delivered |-> row.delivered + d.delivered,
     suppressed |-> row.suppressed + Total(d.suppressed),
     bySeverity |-> d.suppressed]

(* ... and are written one statement at a time. *)
WriteDigest(e) ==
    /\ e \in up /\ drained[e] # <<>>
    /\ LET d == Head(drained[e])
       IN  digests' = [digests EXCEPT ![d.window] = Merged(@, d)]
    /\ drained' = [drained EXCEPT ![e] = Tail(@)]
    /\ UNCHANGED <<clock, current, ready, up, history, raised, stops>>

(* An insert throws: the drafts not yet written were already taken.        *)
FlushFails(e) ==
    /\ e \in up /\ drained[e] # <<>>
    /\ stops < MaxStops
    /\ stops' = stops + 1
    /\ drained' = [drained EXCEPT ![e] = <<>>]
    /\ UNCHANGED <<clock, current, ready, up, digests, history, raised>>

(* The process ends, by SIGTERM between batches or by a crash anywhere.    *)
Stop(e) ==
    /\ e \in up
    /\ stops < MaxStops
    /\ stops' = stops + 1
    /\ up' = up \ {e}
    /\ current' = [current EXCEPT ![e] = EmptyDraft(clock)]
    /\ ready' = [ready EXCEPT ![e] = <<>>]
    /\ drained' = [drained EXCEPT ![e] = <<>>]
    /\ UNCHANGED <<clock, digests, history, raised>>

Next ==
    \/ Tick
    \/ \E e \in Engine :
          \/ Start(e) \/ Drain(e) \/ WriteDigest(e) \/ FlushFails(e) \/ Stop(e)
          \/ \E s \in Severity : Admit(e, s)

Spec == Init /\ [][Next]_vars

-----------------------------------------------------------------------------
(* The drafts a gate has in memory, and what they tell of window w: alerts *)
(* shown, or alerts hidden.                                                *)
Drafts(e) == {current[e]} \union Range(ready[e]) \union Range(drained[e])
Told(d, k) == IF k = "shown" THEN d.delivered ELSE Total(d.suppressed)
Held(k, D, w) == SumFunctionOnSet([d \in D |-> Told(d, k)], {d \in D : d.window = w})
Remembered(k, w) == SumFunctionOnSet([e \in Engine |-> Held(k, Drafts(e), w)], Engine)

(* "Nothing is dropped": a suppressed alert is in the digest of its window *)
(* or still counted by a gate that will write it.                          *)
NothingIsDropped ==
    \A w \in Windows : digests[w].suppressed + Remembered("hidden", w) = Total(hidden[w])

(* It holds for as long as no gate was stopped and no flush has failed.    *)
SuppressedIsAccountedFor == stops = 0 => NothingIsDropped

(* "In the 14:02 minute you were shown 120 and not shown 380": with one    *)
(* gate that was never stopped, the row of a window tells both numbers and *)
(* the breakdown exactly.                                                  *)
DigestReportsWindow ==
    stops = 0 /\ (\E e \in Engine : Engine = {e}) =>
        \A w \in Windows : digests[w] # NoDigest =>
            digests[w] = [delivered |-> shown[w],
                          suppressed |-> Total(hidden[w]),
                          bySeverity |-> hidden[w]]

(* Whatever fails or stops, no digest claims more than happened: at most   *)
(* what was suppressed, at most what was shown, and nothing was suppressed *)
(* in a window in which fewer alerts than the cap were shown.              *)
DigestNeverOverstates ==
    \A w \in Windows :
        /\ digests[w].suppressed <= Total(hidden[w])
        /\ digests[w].delivered <= shown[w]
        /\ hidden[w] # Nothing => shown[w] >= Cap

(* Without a stop, the digests are the whole story of what was held back.  *)
DigestsAreComplete == SuppressedIsAccountedFor /\ DigestReportsWindow

(* Both, whatever fails and whenever a gate is stopped (DeliveryGate.flush *)
(* and the upsert of alert_digests).                                       *)
DigestsAreHonest == TypeOK /\ DigestsAreComplete /\ DigestNeverOverstates
-----------------------------------------------------------------------------
(* The inductive invariant behind it.  A gate has one draft per window, in *)
(* the order of the windows; what was drained came before what is ready.   *)
Increasing(q, limit) ==
    /\ \A i \in 1..Len(q) : q[i].window < limit
    /\ \A i, j \in 1..Len(q) : i < j => q[i].window < q[j].window

GateInv ==
    \A e \in Engine :
        /\ current[e].window <= clock
        /\ Increasing(ready[e], current[e].window)
        /\ Increasing(drained[e], current[e].window)
        /\ drained[e] # <<>> => ready[e] = <<>>
        /\ e \notin up => /\ ready[e] = <<>> /\ drained[e] = <<>>
                         /\ current[e] = EmptyDraft(current[e].window)

(* What a window's row and the gates' drafts tell together never exceeds   *)
(* what happened; as long as nothing stopped, nothing hidden is missing.   *)
Row(k, w) == IF k = "shown" THEN digests[w].delivered ELSE digests[w].suppressed
Happened(k, w) == IF k = "shown" THEN shown[w] ELSE Total(hidden[w])

SumInv ==
    \A w \in Windows :
        /\ \A k \in {"shown", "hidden"} : Row(k, w) + Remembered(k, w) <= Happened(k, w)
        /\ stops = 0 => Row("hidden", w) + Remembered("hidden", w) = Happened("hidden", w)

CapInv ==
    /\ \A e \in Engine : \A d \in Drafts(e) : d.delivered <= shown[d.window]
    /\ \A w \in Windows : hidden[w] # Nothing => shown[w] >= Cap

(* A single gate, never stopped: its drafts tell their windows exactly,    *)
(* none of them is written yet, and nothing happened after its last.       *)
Untouched(w) == digests[w] = NoDigest /\ shown[w] = 0 /\ hidden[w] = Nothing

OneGateInv ==
    \A e \in Engine : stops = 0 /\ Engine = {e} =>
        /\ e \notin up => \A w \in Windows : Untouched(w)
        /\ \A d \in Drafts(e) : /\ digests[d.window] = NoDigest
                               /\ d.delivered = shown[d.window]
                               /\ d.suppressed = hidden[d.window]
        /\ \A w \in Windows : w > current[e].window => Untouched(w)

IInv == TypeOK /\ GateInv /\ SumInv /\ CapInv /\ OneGateInv /\ DigestReportsWindow
=============================================================================
