-------------------------- MODULE MCMarketDataFeed --------------------------
(* Instances of the market data feed: tops that move by a tick, clients    *)
(* that ask for snapshots and subscriptions.                               *)
EXTENDS MarketDataFeed, TLC

CONSTANTS c1, c2, EURUSD

TwoClients == {c1, c2}
ClientSymmetry == Permutations(TwoClients)

OneSymbol == {EURUSD}

TwoTops == {[bid |-> b, ask |-> b + 1] : b \in 1 .. 2}

\* One price is truncated to the point below, as 1.23457 * 100000 may be.
Truncating == [p \in 1 .. 4 |-> IF p = 2 THEN 1 ELSE p]

AllKinds == {"snapshot", "updates", "disable"}
=============================================================================
