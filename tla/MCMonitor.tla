----------------------------- MODULE MCMonitor -----------------------------
(* Instances of Monitor for TLC: who matches what. *)
EXTENDS Monitor, TLC
CONSTANTS m1, m2, t1, t2, fast, slow

BothRules == {<<t1, fast>>, <<t1, slow>>}
OneEach == {<<t1, fast>>, <<t2, slow>>}
OneFast == {<<t1, fast>>}
RunSymmetry == Permutations(Runs)
=============================================================================
