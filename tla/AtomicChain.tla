---------------------------- MODULE AtomicChain ----------------------------
(***************************************************************************)
(* What the audit chain promises its readers: a table that grows one entry *)
(* at a time, each new entry numbered above every earlier one and linked   *)
(* to the newest of them.  AuditChain, where several transactions race for *)
(* the tip, implements it.                                                 *)
(***************************************************************************)
EXTENDS Naturals

CONSTANTS
    Entry,      \* what an entry records (action, actor, purpose, ...)
    Legacy      \* the entries already stored when the model starts

VARIABLE rows   \* the committed rows of audit_log

Row == [seq : Nat \ {0}, prev : Nat, entry : Entry]

(* A row is identified by its seq, which also stands for its hash: both    *)
(* are unique per row.  0 is GENESIS_HASH.                                 *)
Genesis == 0
Seqs(R) == {r.seq : r \in R}

(* t is the newest entry of R, or Genesis when R is empty. *)
IsTip(t, R) ==
    /\ t \in Seqs(R) \union {Genesis}
    /\ \A r \in R : r.seq <= t

Init == rows = Legacy

(* One entry joins the table, linked to the newest one and numbered above it. *)
Append(r) ==
    /\ r \in Row
    /\ IsTip(r.prev, rows)
    /\ r.seq > r.prev
    /\ rows' = rows \union {r}

Next == \E r \in rows' : Append(r)

Spec == Init /\ [][Next]_rows
=============================================================================
