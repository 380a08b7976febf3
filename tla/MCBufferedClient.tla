---------------------------- MODULE MCBufferedClient ----------------------------
(* A small instance of BufferedClient: two tasks, the loop and the closer.   *)
EXTENDS BufferedClient

CONSTANTS t1, t2

================================================================================
