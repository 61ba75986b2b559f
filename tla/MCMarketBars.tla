---------------------------- MODULE MCMarketBars ----------------------------
(* Instances of the bars of a market: times that fall on the boundaries of *)
(* the bars and beside them.                                               *)
EXTENDS MarketBars

TwoPrices == 1 .. 2
AnyStep == 1 .. 3
TwoFroms == {9, 13}
=============================================================================
