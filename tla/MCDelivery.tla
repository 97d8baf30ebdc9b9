---------------------------- MODULE MCDelivery -----------------------------
(* Instances of Delivery for TLC: what the one stream record plans. *)
EXTENDS Delivery, TLC
CONSTANTS d1, d2, r1, s1, s2

PlanOne == [r \in Records |-> <<d1>>]
PlanTwo == [r \in Records |-> <<d1, d2>>]

\* Overlapping sender runs are interchangeable.
SenderSymmetry == Permutations(Senders)
=============================================================================
