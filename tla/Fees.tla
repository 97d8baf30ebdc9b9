-------------------------------- MODULE Fees ---------------------------------
(***************************************************************************)
(* How the relayer prices a signature: the first one takes the estimate as *)
(* far as the policy's cap lets it, and a replacement must raise both fees *)
(* by what a node asks for before it takes one transaction for another.    *)
(***************************************************************************)
EXTENDS Integers

CONSTANT priceBumpPercent  \* DEFAULT_PRICE_BUMP_PERCENT

Fee == [maxFeePerGas : Nat, maxPriorityFeePerGas : Nat]

ASSUME FeesAssumption == priceBumpPercent \in Nat

AtLeast(a, b) == IF a > b THEN a ELSE b
AtMost(a, b) == IF a < b THEN a ELSE b

nodeThreshold(old) == (old * (100 + priceBumpPercent)) \div 100

\* What a node asks of a replacement.
isAcceptedReplacement(previous, next) ==
  /\ next.maxFeePerGas > previous.maxFeePerGas
  /\ next.maxPriorityFeePerGas > previous.maxPriorityFeePerGas
  /\ next.maxFeePerGas >= nodeThreshold(previous.maxFeePerGas)
  /\ next.maxPriorityFeePerGas >= nodeThreshold(previous.maxPriorityFeePerGas)

least(old) == AtLeast(nodeThreshold(old), old + 1)

minReplacementFees(previous) ==
  [maxFeePerGas |-> least(previous.maxFeePerGas),
   maxPriorityFeePerGas |-> least(previous.maxPriorityFeePerGas)]

\* Mutant: the priority fee may come out above the whole fee.
ClampedApart(estimate, cap) ==
  [maxFeePerGas |-> AtMost(estimate.maxFeePerGas, cap.maxFeePerGas),
   maxPriorityFeePerGas |-> AtMost(estimate.maxPriorityFeePerGas, cap.maxPriorityFeePerGas)]

clampFees(estimate, cap) ==
  LET all == AtMost(estimate.maxFeePerGas, cap.maxFeePerGas)
  IN [maxFeePerGas |-> all,
      maxPriorityFeePerGas |->
        AtMost(AtMost(estimate.maxPriorityFeePerGas, cap.maxPriorityFeePerGas), all)]

\* An eighth more, rounded up, or what is asked now, or what the node insists on.
raise(old, estimated, required) ==
  AtLeast(AtLeast((old * 1125 + 999) \div 1000, estimated), required)

raises(next, previous) ==
  \/ next.maxFeePerGas > previous.maxFeePerGas
  \/ next.maxPriorityFeePerGas > previous.maxPriorityFeePerGas

bumpFees(previous, estimate, cap) ==
  LET required == minReplacementFees(previous)
      fees == clampFees(
        [maxFeePerGas |-> raise(previous.maxFeePerGas, estimate.maxFeePerGas,
                                required.maxFeePerGas),
         maxPriorityFeePerGas |-> raise(previous.maxPriorityFeePerGas,
                                        estimate.maxPriorityFeePerGas,
                                        required.maxPriorityFeePerGas)], cap)
  IN [ok |-> ~raises(required, fees), fees |-> fees]
=============================================================================
