----------------------------- MODULE MCSessionTrace -----------------------------
(* A small instance of SessionTrace: the session's owner and one more task.  *)
EXTENDS SessionTrace

CONSTANT t1    \* a task spawned in the session's body

================================================================================
