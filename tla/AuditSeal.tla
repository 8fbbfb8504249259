------------------------------ MODULE AuditSeal ------------------------------
(***************************************************************************)
(* verifyChain and sealChainEpoch (packages/api/src/services/audit.ts) on  *)
(* top of concurrent appends.  The oldest entries of the log predate the   *)
(* canonical digest and cannot be re-hashed; one chain.epoch entry records *)
(* where they end, and verification holds the chain to that record.        *)
(*                                                                         *)
(* A row's digest is abstracted to whether it matches: canonical is TRUE   *)
(* for a row whose stored hash is the digest of its contents.              *)
(***************************************************************************)
EXTENDS AuditChain, Sequences

CONSTANT NotEpoch       \* the epoch field of an ordinary entry

VARIABLE
    loaded              \* the rows a sealer read before it decided to seal

sealVars == <<vars, loaded>>

Ordinary == [canonical |-> TRUE, epoch |-> NotEpoch]
PreCanonical == [canonical |-> FALSE, epoch |-> NotEpoch]

(* loadChain: the walk order is seq order. *)
InSeqOrder(R) ==
    [k \in 1..Cardinality(R) |-> CHOOSE r \in R : Cardinality({q \in R : q.seq < r.seq}) = k - 1]

IsEpoch(r) == r.entry.epoch # NotEpoch

(* Length of the maximal leading run that fails the canonical digest. *)
Prologue(s) == Cardinality({i \in DOMAIN s : \A j \in 1..i : ~s[j].entry.canonical})

Boundary(s) == IF Prologue(s) = 0 THEN Genesis ELSE s[Prologue(s)].seq

Predecessor(s, i) == IF i = 1 THEN Genesis ELSE s[i - 1].seq

(* Mutant of Linked: the walk starts where the exemption ends. *)
LinkedAfterPrologue(s) ==
    \A i \in DOMAIN s : i > Prologue(s) + 1 => s[i].prev = Predecessor(s, i)

(* Linkage is checked for every entry, the prologue included. *)
Linked(s) == \A i \in DOMAIN s : s[i].prev = Predecessor(s, i)

(* The first epoch entry, when there is one, names the computed boundary;  *)
(* a prologue without an epoch entry is a break.                           *)
EpochAgrees(s) ==
    LET E == {i \in DOMAIN s : IsEpoch(s[i])}
    IN  IF E = {}
          THEN Prologue(s) = 0
          ELSE LET first == s[CHOOSE i \in E : \A j \in E : i <= j].entry.epoch
               IN  first.entries = Prologue(s) /\ first.boundary = Boundary(s)

(* Every entry after the prologue matches its digest. *)
BadEntriesLead(s) == \A i \in DOMAIN s : i > Prologue(s) => s[i].entry.canonical

(* verifyChain reports ok. *)
Verifies(R) ==
    LET s == InSeqOrder(R)
    IN  /\ EpochAgrees(s)
        /\ Linked(s)
        /\ BadEntriesLead(s)
        /\ \A q, r \in R : q.prev = r.prev => q = r

-----------------------------------------------------------------------------
(* sealChainEpoch refuses a chain that is sealed already, that needs no    *)
(* seal, or whose bad entries do not all lead.                             *)
Sealable(R) ==
    LET s == InSeqOrder(R)
    IN  /\ \A r \in R : ~IsEpoch(r)
        /\ Prologue(s) > 0
        /\ BadEntriesLead(s)

(* It reads the chain, and decides, outside any transaction ... *)
LoadForSeal(w) ==
    /\ pc[w] = "idle"
    /\ loaded[w] = {}
    /\ Sealable(rows)
    /\ loaded' = [loaded EXCEPT ![w] = rows]
    /\ UNCHANGED vars

(* Mutant of EpochEntry: seals whatever the chain ended with. *)
EpochEntryAtTip(R) ==
    LET s == InSeqOrder(R)
    IN  [canonical |-> TRUE,
         epoch |-> [entries |-> Len(s), boundary |-> s[Len(s)].seq]]

EpochEntry(R) ==
    LET s == InSeqOrder(R)
    IN  [canonical |-> TRUE,
         epoch |-> [entries |-> Prologue(s), boundary |-> Boundary(s)]]

(* What the log holds at first was written before there was any seal. *)
ASSUME SealAssumption ==
    /\ \A r \in Legacy : r.entry \in {Ordinary, PreCanonical}
    /\ {Ordinary, PreCanonical, EpochEntry(Legacy)} \subseteq Entry
    /\ NotEpoch # EpochEntry(Legacy).epoch

(* ... and appends the epoch entry like any other. *)
SealBegin(w) ==
    /\ loaded[w] # {}
    /\ Begin(w, EpochEntry(loaded[w]))
    /\ loaded' = [loaded EXCEPT ![w] = {}]

SealInit ==
    /\ Init
    /\ entry = [w \in Writer |-> Ordinary]
    /\ loaded = [w \in Writer |-> {}]

SealNext ==
    \E w \in Writer :
        \/ LoadForSeal(w)
        \/ SealBegin(w)
        \/ loaded[w] = {} /\ Begin(w, Ordinary) /\ UNCHANGED loaded
        \/ Step(w) /\ UNCHANGED loaded
        \/ Abort(w) /\ UNCHANGED loaded

SealSpec == SealInit /\ [][SealNext]_sealVars

(* The database answers; nobody has to start a call or to seal. *)
FairSealSpec == SealSpec /\ \A w \in Writer : WF_vars(Step(w))

-----------------------------------------------------------------------------
HasEpoch(R) == \E r \in R : IsEpoch(r)

(* A chain nobody touched verifies as soon as it is sealed, and from then  *)
(* on, whatever was appended between the sealer's read and its append.     *)
SealedChainVerifies == (HasEpoch(rows) \/ Legacy = {}) => Verifies(rows)

(* Removing any entry but the newest, exchanging two, or altering any      *)
(* entry outside the prologue is reported.                                 *)
Altered(r) == [r EXCEPT !.entry = PreCanonical]

TamperIsReported ==
    /\ \A r \in rows : ~IsTip(r.seq, rows) => ~Verifies(rows \ {r})
    /\ \A r \in rows : r.entry.canonical => ~Verifies((rows \ {r}) \union {Altered(r)})
    /\ \A q, r \in rows : q # r =>
          ~Verifies((rows \ {q, r}) \union {[q EXCEPT !.seq = r.seq], [r EXCEPT !.seq = q.seq]})

(* The inductive strengthening behind them.  What is appended matches its  *)
(* digest, so the prologue never grows: the boundary a sealer computed is  *)
(* still the boundary when its entry commits.                              *)
Seal == EpochEntry(Legacy)

Sound == BadEntriesLead(InSeqOrder(Legacy)) /\ Prologue(InSeqOrder(Legacy)) > 0

SealInv ==
    /\ loaded \in [Writer -> SUBSET Row]
    /\ Prologue(InSeqOrder(rows)) = Prologue(InSeqOrder(Legacy))
    /\ Boundary(InSeqOrder(rows)) = Boundary(InSeqOrder(Legacy))
    /\ BadEntriesLead(InSeqOrder(rows)) <=> BadEntriesLead(InSeqOrder(Legacy))
    /\ \A r \in rows : r \in Legacy \/ r.entry = Ordinary \/ (r.entry = Seal /\ Sound)
    /\ \A w \in Writer :
          /\ entry[w] = Ordinary \/ (entry[w] = Seal /\ Sound)
          /\ loaded[w] # {} => EpochEntry(loaded[w]) = Seal /\ Sound
=============================================================================
