---------------------------- MODULE MCFxcmOrders ----------------------------
(* Model-checking instance of the order functions of the FXCM plugin.      *)
EXTENDS FxcmOrders

MCAmounts == 1 .. 2
=============================================================================
