--------------------------- MODULE MCFxcmSession ---------------------------
(* Instances of the FXCM session: two FIX sessions, positions that are     *)
(* opened and closed while the login is under way.                          *)
EXTENDS FxcmSession, TLC

CONSTANTS trading, marketdata, acc1, acc2, p1, p2

TwoSessions == {trading, marketdata}
TwoAccounts == {acc1, acc2}
TwoPositions == {p1, p2}

SessionSymmetry == Permutations(TwoAccounts) \cup Permutations(TwoPositions)
=============================================================================
