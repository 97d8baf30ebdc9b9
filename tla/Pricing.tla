------------------------------- MODULE Pricing -------------------------------
(***************************************************************************)
(* The sweeper prices the signatures of one nonce, again and again, while  *)
(* the market moves and operators change the cap of the policy.            *)
(***************************************************************************)
EXTENDS Fees

CONSTANTS
  FirstFees,   \* bound: estimates for a first signature
  Estimates,   \* bound: what estimateFees answers
  Caps         \* bound: the policy's caps

ASSUME PricingAssumption ==
  FirstFees \subseteq Fee /\ Estimates \subseteq Fee /\ Caps \subseteq Fee

VARIABLES
  priced,   \* the fees of the newest signature at the nonce
  market,   \* the estimate
  feeCap    \* the policy's cap

pricingVars == <<priced, market, feeCap>>

PricingInit ==
  /\ market \in Estimates
  /\ feeCap \in Caps
  /\ priced \in {clampFees(f, feeCap) : f \in FirstFees}

MarketMoves ==
  /\ \E e \in Estimates : market' = e
  /\ UNCHANGED <<priced, feeCap>>

\* An operator sets the policy's cap anew.
CapMoves ==
  /\ \E c \in Caps : feeCap' = c
  /\ UNCHANGED <<priced, market>>

Reprice ==
  LET bump == bumpFees(priced, market, feeCap)
  IN /\ bump.ok
     /\ priced' = bump.fees
     /\ UNCHANGED <<market, feeCap>>

PricingNext == MarketMoves \/ CapMoves \/ Reprice

PricingSpec == PricingInit /\ [][PricingNext]_pricingVars

PricingTypeOK == priced \in Fee /\ market \in Fee /\ feeCap \in Fee

\* Fees that a transaction may carry at all, under a cap.
Payable(fees, cap) ==
  /\ fees.maxPriorityFeePerGas <= fees.maxFeePerGas
  /\ fees.maxFeePerGas <= cap.maxFeePerGas
  /\ fees.maxPriorityFeePerGas <= cap.maxPriorityFeePerGas

\* A replacement is refused just when the cap leaves no fees that a node would
\* take in place of the present ones, and the fees chosen are such fees
\* (fees.ts:40-42, "A cap under that minimum makes a replacement impossible").
BumpIsTaken ==
  LET bump == bumpFees(priced, market, feeCap)
      taken(f) == Payable(f, feeCap) /\ isAcceptedReplacement(priced, f)
  IN /\ bump.ok => taken(bump.fees)
     /\ ~bump.ok => \A m \in 0 .. feeCap.maxFeePerGas, p \in 0 .. feeCap.maxPriorityFeePerGas :
                      ~taken([maxFeePerGas |-> m, maxPriorityFeePerGas |-> p])
=============================================================================
