--------------------------- MODULE MCTimeoutQueue ---------------------------
(* Model-checking instance of the queue: two consumers that compete.       *)
EXTENDS TimeoutQueue

CONSTANTS c1, c2

MCConsumers == {c1, c2}
=============================================================================
