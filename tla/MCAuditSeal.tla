---------------------------- MODULE MCAuditSeal ----------------------------
(* Small instance of AuditSeal: two pre-canonical entries, two writers. *)
EXTENDS AuditSeal

CONSTANTS w1, w2

MCWriters == {w1, w2}

MCEntry ==
    {Ordinary, PreCanonical} \union
    [canonical : {TRUE}, epoch : [entries : 0..8, boundary : 0..8]]

MCLegacy ==
    { [seq |-> 1, prev |-> 0, entry |-> PreCanonical],
      [seq |-> 2, prev |-> 1, entry |-> PreCanonical] }
=============================================================================
