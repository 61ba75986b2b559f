---------------------------- MODULE MCSimServer -----------------------------
(* Model-checking instance of the simulation server: one client, prices    *)
(* that move by a tick, so that a quote can cross orders of                *)
(* the client and the simulator's own other side.                          *)
EXTENDS SimServer

CONSTANTS simulator, trader

MCOwners == {simulator, trader}
MCPrices == 1 .. 3
MCQuantities == {2}

TopAt(b) == [s \in Sides |-> IF s = "buy" THEN b ELSE b + 1]

MCTops == {TopAt(1), TopAt(2)}
=============================================================================
