---------------------------- MODULE MCStreamRelay ----------------------------
(* Small instance of StreamRelay for TLC. *)
EXTENDS StreamRelay

CONSTANTS t1, t2, t3, camA

MCThreeTiles == {t1, t2, t3}
MCOneCamera == {camA}

(* A playlist takes one byte; segments take one or two. *)
MCSize == [o \in Object |-> IF o[2] \in {0, 1} THEN 1 ELSE 2]
=============================================================================
