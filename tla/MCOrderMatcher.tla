--------------------------- MODULE MCOrderMatcher ---------------------------
(* Model-checking instance of the matching engine.                         *)
EXTENDS OrderMatcher

CONSTANTS simulator, trader

MCOwners == {simulator, trader}
MCPrices == 1 .. 2
MCQuantities == 0 .. 2
MCWholeQuantities == 1 .. 2
=============================================================================
