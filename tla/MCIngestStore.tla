----------------------------- MODULE MCIngestStore -----------------------------
(* Small instances of IngestStore: the process that opens and closes the     *)
(* session, and one that joins it.                                           *)
EXTENDS IngestStore

CONSTANTS c1, c2, open, a1, d1, close, a2

MCClientOf == [e \in Event |-> IF e = a2 THEN c2 ELSE c1]

MCTypeOf == [e \in Event |-> CASE e = open -> "open" [] e = close -> "close"
                               [] e = d1 -> "decision" [] OTHER -> "action"]

================================================================================
