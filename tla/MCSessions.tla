----------------------------- MODULE MCSessions -----------------------------
(* Instances of Sessions for TLC.                                          *)
EXTENDS Sessions, TLC

CONSTANTS c1, c2

TwoConns == {c1, c2}
ConnSymmetry == Permutations(TwoConns)
=============================================================================
