----------------------------- MODULE MCLiveBars -----------------------------
(* Instances of the live bars: ticks of a few minutes and prices.          *)
EXTENDS LiveBars

FewMinutes == 1 .. 3
FewPrices == 1 .. 2
=============================================================================
