----------------------------- MODULE MCRelayer -----------------------------
(* Instances of Relayer for TLC: the ids, and who depends on whom. *)
EXTENDS Relayer, TLC
CONSTANTS p1, p2, f1, s1, s2

NoDependency == [t \in Payloads |-> NoTx]
SecondOnFirst == [t \in Payloads |-> IF t = p2 THEN p1 ELSE NoTx]

\* Overlapping sweeper runs are interchangeable.
SweeperSymmetry == Permutations(Sweepers)
=============================================================================
