----------------------------- MODULE AttemptsProofs -----------------------------
(***************************************************************************)
(* Proofs about the fees of signatures (Pricing) and about the attempts of *)
(* one transaction under sweeps (Attempts).                                *)
(***************************************************************************)
EXTENDS Pricing, Attempts, FiniteSetTheorems, SequenceTheorems, WellFoundedInduction, TLAPS

(***************************************************************************)
(* Fees                                                                    *)
(***************************************************************************)
\* A product with a natural number keeps the order of its other factor.
LEMMA ProductOrder ==
  ASSUME NEW a \in Nat, NEW b \in Nat, NEW k \in Nat, a <= b
  PROVE  a * k <= b * k
<1>1. b - a \in Nat
  OBVIOUS
<1>2. b * k = a * k + (b - a) * k
  OBVIOUS
<1>3. (b - a) * k >= 0
  BY <1>1
<1> QED
  BY <1>1, <1>2, <1>3

\* What a node asks for is a number.
LEMMA ThresholdType ==
  ASSUME NEW old \in Nat
  PROVE  nodeThreshold(old) \in Nat
<1>1. old * (100 + priceBumpPercent) \in Nat
  BY FeesAssumption
<1> QED
  BY <1>1 DEF nodeThreshold

\* The lesser of two fees has the lesser minimum (minReplacementFees).
LEMMA LeastOrder ==
  ASSUME NEW a \in Nat, NEW b \in Nat, a <= b
  PROVE  least(a) \in Nat /\ least(b) \in Nat /\ least(a) <= least(b)
<1>1. a * (100 + priceBumpPercent) <= b * (100 + priceBumpPercent)
  BY ProductOrder, FeesAssumption
<1>2. a * (100 + priceBumpPercent) \in Nat /\ b * (100 + priceBumpPercent) \in Nat
  BY FeesAssumption
<1>3. nodeThreshold(a) <= nodeThreshold(b)
  BY <1>1, <1>2 DEF nodeThreshold
<1> QED
  BY <1>3, ThresholdType DEF least, AtLeast

\* Clamped fees are under the cap, and the priority fee under the whole fee.
LEMMA ClampedIsPayable ==
  ASSUME NEW estimate \in Fee, NEW cap \in Fee
  PROVE  clampFees(estimate, cap) \in Fee /\ Payable(clampFees(estimate, cap), cap)
  BY DEF clampFees, Payable, Fee, AtMost

\* A raised fee is a number, and what the node insists on at least.
LEMMA RaisedType ==
  ASSUME NEW old \in Nat, NEW estimated \in Nat, NEW required \in Nat
  PROVE  /\ raise(old, estimated, required) \in Nat
         /\ raise(old, estimated, required) >= required
<1>1. (old * 1125 + 999) \div 1000 \in Nat
  OBVIOUS
<1> QED
  BY <1>1 DEF raise, AtLeast

\* The fees that a bump clamps.
Wanted(previous, estimate) ==
  [maxFeePerGas |-> raise(previous.maxFeePerGas, estimate.maxFeePerGas,
                          least(previous.maxFeePerGas)),
   maxPriorityFeePerGas |-> raise(previous.maxPriorityFeePerGas, estimate.maxPriorityFeePerGas,
                                  least(previous.maxPriorityFeePerGas))]

LEMMA BumpIs ==
  ASSUME NEW previous \in Fee, NEW estimate \in Fee, NEW cap \in Fee
  PROVE  LET fees == clampFees(Wanted(previous, estimate), cap)
         IN /\ bumpFees(previous, estimate, cap).fees = fees
            /\ bumpFees(previous, estimate, cap).ok
                 <=> ~raises(minReplacementFees(previous), fees)
  BY DEF bumpFees, minReplacementFees, Wanted

LEMMA WantedType ==
  ASSUME NEW previous \in Fee, NEW estimate \in Fee
  PROVE  /\ Wanted(previous, estimate) \in Fee
         /\ Wanted(previous, estimate).maxFeePerGas >= least(previous.maxFeePerGas)
         /\ Wanted(previous, estimate).maxPriorityFeePerGas
              >= least(previous.maxPriorityFeePerGas)
<1>1. least(previous.maxFeePerGas) \in Nat /\ least(previous.maxPriorityFeePerGas) \in Nat
  BY LeastOrder DEF Fee
<1> QED
  BY <1>1, RaisedType DEF Wanted, Fee

(***************************************************************************)
(* The inductive invariant: without the first part a refused replacement   *)
(* could be one that a node takes, at a priority fee above the old fee.    *)
(***************************************************************************)
PayableInv == PricingTypeOK /\ priced.maxPriorityFeePerGas <= priced.maxFeePerGas

LEMMA PricedInit == PricingInit => PayableInv
  BY PricingAssumption, ClampedIsPayable DEF PricingInit, PayableInv, PricingTypeOK, Payable

LEMMA PricedNext == PayableInv /\ [PricingNext]_pricingVars => PayableInv'
<1> SUFFICES ASSUME PayableInv, [PricingNext]_pricingVars
             PROVE  PayableInv'
  OBVIOUS
<1>1. CASE MarketMoves
  BY <1>1, PricingAssumption DEF MarketMoves, PayableInv, PricingTypeOK
<1>2. CASE CapMoves
  BY <1>2, PricingAssumption DEF CapMoves, PayableInv, PricingTypeOK
<1>3. CASE Reprice
  <2>1. priced' = clampFees(Wanted(priced, market), feeCap)
    BY <1>3, BumpIs DEF Reprice, PayableInv, PricingTypeOK
  <2>2. priced' \in Fee /\ Payable(priced', feeCap)
    BY <2>1, WantedType, ClampedIsPayable DEF PayableInv, PricingTypeOK
  <2> QED
    BY <1>3, <2>2 DEF Reprice, PayableInv, PricingTypeOK, Payable
<1>4. CASE UNCHANGED pricingVars
  BY <1>4 DEF pricingVars, PayableInv, PricingTypeOK
<1> QED
  BY <1>1, <1>2, <1>3, <1>4 DEF PricingNext

(***************************************************************************)
(* What the invariant gives                                                *)
(***************************************************************************)
LEMMA ReplacementNeeds ==
  ASSUME NEW previous \in Fee, NEW next \in Fee
  PROVE  isAcceptedReplacement(previous, next)
           <=> ~raises(minReplacementFees(previous), next)
<1>1. /\ nodeThreshold(previous.maxFeePerGas) \in Nat
      /\ nodeThreshold(previous.maxPriorityFeePerGas) \in Nat
  BY ThresholdType DEF Fee
<1> QED
  BY <1>1 DEF isAcceptedReplacement, raises, minReplacementFees, least, AtLeast, Fee

LEMMA PricedIsTaken == PayableInv => BumpIsTaken
<1> SUFFICES ASSUME PayableInv
             PROVE  BumpIsTaken
  OBVIOUS
<1> DEFINE wanted == Wanted(priced, market)
           fees == clampFees(wanted, feeCap)
           required == minReplacementFees(priced)
<1>1. priced \in Fee /\ market \in Fee /\ feeCap \in Fee
  BY DEF PayableInv, PricingTypeOK
<1>2. /\ bumpFees(priced, market, feeCap).fees = fees
      /\ bumpFees(priced, market, feeCap).ok <=> ~raises(required, fees)
  BY <1>1, BumpIs
<1>3. wanted \in Fee /\ fees \in Fee /\ Payable(fees, feeCap)
  BY <1>1, WantedType, ClampedIsPayable
<1>4. ASSUME ~raises(required, fees)
      PROVE  Payable(fees, feeCap) /\ isAcceptedReplacement(priced, fees)
  BY <1>1, <1>3, <1>4, ReplacementNeeds
<1>5. ASSUME NEW m \in 0 .. feeCap.maxFeePerGas, NEW p \in 0 .. feeCap.maxPriorityFeePerGas,
             Payable([maxFeePerGas |-> m, maxPriorityFeePerGas |-> p], feeCap),
             isAcceptedReplacement(priced, [maxFeePerGas |-> m, maxPriorityFeePerGas |-> p])
      PROVE  ~raises(required, fees)
  <2> DEFINE other == [maxFeePerGas |-> m, maxPriorityFeePerGas |-> p]
  <2>1. other \in Fee
    BY <1>1 DEF Fee
  <2>2. m >= least(priced.maxFeePerGas) /\ p >= least(priced.maxPriorityFeePerGas)
    <3>1. ~raises(required, other)
      BY <1>1, <1>5, <2>1, ReplacementNeeds
    <3>2. least(priced.maxFeePerGas) \in Nat /\ least(priced.maxPriorityFeePerGas) \in Nat
      BY <1>1, LeastOrder DEF Fee
    <3> QED
      BY <3>1, <3>2, <2>1 DEF raises, minReplacementFees, Fee
  <2>3. least(priced.maxPriorityFeePerGas) <= least(priced.maxFeePerGas)
    BY <1>1, LeastOrder DEF PayableInv, Fee
  <2>4. wanted.maxFeePerGas >= least(priced.maxFeePerGas)
        /\ wanted.maxPriorityFeePerGas >= least(priced.maxPriorityFeePerGas)
    BY <1>1, WantedType
  <2>5. p <= m
    BY <1>5 DEF Payable
  <2>6. least(priced.maxFeePerGas) \in Nat /\ least(priced.maxPriorityFeePerGas) \in Nat
    BY <1>1, LeastOrder DEF Fee
  <2> HIDE DEF wanted
  <2>7. fees.maxFeePerGas >= least(priced.maxFeePerGas)
    BY <1>1, <1>3, <2>2, <2>4, <2>6 DEF clampFees, AtMost, Fee
  <2>8. fees.maxPriorityFeePerGas >= least(priced.maxPriorityFeePerGas)
    BY <1>1, <1>3, <2>2, <2>3, <2>4, <2>5, <2>6 DEF clampFees, AtMost, Fee
  <2> HIDE DEF fees
  <2> QED
    BY <1>3, <2>6, <2>7, <2>8 DEF raises, minReplacementFees, Fee
<1> QED
  BY <1>2, <1>3, <1>4, <1>5 DEF BumpIsTaken

(***************************************************************************)
(* The theorems                                                            *)
(***************************************************************************)
\* Fees are numbers, and a priority fee is never above the whole fee.
THEOREM PricesArePayable == PricingSpec => []PayableInv
  BY PricedInit, PricedNext, PTL DEF PricingSpec

\* Fees are numbers of wei through every bump, capped or not (fees.ts:40-70).
THEOREM PricingTypes == PricingSpec => []PricingTypeOK
<1>1. PayableInv => PricingTypeOK
  BY DEF PayableInv
<1> QED
  BY <1>1, PricesArePayable, PTL

\* For every price bump, market and cap: a replacement is refused just when no
\* fees under the cap would do, and a node takes the one that is chosen
\* (fees.ts:40-42).
THEOREM BumpAlwaysTaken == PricingSpec => []BumpIsTaken
  BY PricesArePayable, PricedIsTaken, PTL

(***************************************************************************)
(* Lists of attempts                                                       *)
(***************************************************************************)
LEMMA FunctionIsSeq ==
  ASSUME NEW S, NEW n \in Nat, NEW f \in [1 .. n -> S]
  PROVE  f \in Seq(S) /\ Len(f) = n /\ DOMAIN f = 1 .. n
OBVIOUS

LEMMA ListTypes ==
  ASSUME NEW a \in Seq(Stored)
  PROVE  /\ Len(a) \in Nat /\ DOMAIN a = 1 .. Len(a)
         /\ \A i \in 1 .. Len(a) : a[i] \in Stored
BY LenProperties, ElementOfSeq

\* The same signatures, of which no more are refused without their bytes and
\* no fewer are known as taken.
Marked(a, b) ==
  /\ b \in Seq(Stored) /\ Len(b) = Len(a)
  /\ \A i \in 1 .. Len(a) :
       /\ b[i].fees = a[i].fees /\ b[i].raw = a[i].raw
       /\ a[i].acceptedAt => b[i].acceptedAt
       /\ ~b[i].rejected => ~a[i].rejected \/ a[i].raw

LEMMA NotMarked == ASSUME NEW a \in Seq(Stored) PROVE Marked(a, a)
BY DEF Marked

LEMMA TakenMarked ==
  ASSUME NEW a \in Seq(Stored), NEW hash
  PROVE  /\ Marked(a, MarkTaken(a, hash))
         /\ \A i \in 1 .. Len(a) : /\ a[i].fees = hash => MarkTaken(a, hash)[i].acceptedAt
                                   /\ MarkTaken(a, hash)[i].rejected = a[i].rejected
<1> DEFINE b == MarkTaken(a, hash)
<1>1. Len(a) \in Nat /\ DOMAIN a = 1 .. Len(a) /\ \A i \in 1 .. Len(a) : a[i] \in Stored
  BY ListTypes
<1>2. ASSUME NEW i \in 1 .. Len(a)
      PROVE  /\ [a[i] EXCEPT !.acceptedAt = TRUE] \in Stored
             /\ [a[i] EXCEPT !.acceptedAt = TRUE].fees = a[i].fees
             /\ [a[i] EXCEPT !.acceptedAt = TRUE].raw = a[i].raw
             /\ [a[i] EXCEPT !.acceptedAt = TRUE].rejected = a[i].rejected
             /\ [a[i] EXCEPT !.acceptedAt = TRUE].acceptedAt
  BY <1>1 DEF Stored
<1>3. \A i \in 1 .. Len(a) :
        b[i] = IF a[i].fees = hash THEN [a[i] EXCEPT !.acceptedAt = TRUE] ELSE a[i]
  BY <1>1 DEF MarkTaken
<1>4. b \in [1 .. Len(a) -> Stored]
  BY <1>1, <1>2 DEF MarkTaken
<1> HIDE DEF b
<1>5. b \in Seq(Stored) /\ Len(b) = Len(a)
  BY <1>1, <1>4, FunctionIsSeq
<1> QED
  BY <1>2, <1>3, <1>5 DEF Marked, b

\* MarkRefused and the revival of refused bytes change one field.
LEMMA RejectedSet ==
  ASSUME NEW a \in Seq(Stored), NEW S, NEW said \in BOOLEAN,
         \A i \in 1 .. Len(a) : i \in S /\ ~said => a[i].raw
  PROVE  LET b == [i \in DOMAIN a |-> IF i \in S THEN [a[i] EXCEPT !.rejected = said] ELSE a[i]]
         IN /\ Marked(a, b)
            /\ \A i \in 1 .. Len(a) : b[i].rejected => a[i].rejected \/ (i \in S /\ said)
<1> DEFINE b == [i \in DOMAIN a |-> IF i \in S THEN [a[i] EXCEPT !.rejected = said] ELSE a[i]]
<1>1. Len(a) \in Nat /\ DOMAIN a = 1 .. Len(a) /\ \A i \in 1 .. Len(a) : a[i] \in Stored
  BY ListTypes
<1>2. ASSUME NEW i \in 1 .. Len(a)
      PROVE  /\ [a[i] EXCEPT !.rejected = said] \in Stored
             /\ [a[i] EXCEPT !.rejected = said].fees = a[i].fees
             /\ [a[i] EXCEPT !.rejected = said].raw = a[i].raw
             /\ [a[i] EXCEPT !.rejected = said].rejected = said
             /\ [a[i] EXCEPT !.rejected = said].acceptedAt = a[i].acceptedAt
  BY <1>1 DEF Stored
<1>3. \A i \in 1 .. Len(a) : b[i] = IF i \in S THEN [a[i] EXCEPT !.rejected = said] ELSE a[i]
  BY <1>1
<1>4. b \in [1 .. Len(a) -> Stored]
  BY <1>1, <1>2
<1> HIDE DEF b
<1>5. b \in Seq(Stored) /\ Len(b) = Len(a)
  BY <1>1, <1>4, FunctionIsSeq
<1>6. Marked(a, b)
  BY <1>2, <1>3, <1>5 DEF Marked
<1>7. \A i \in 1 .. Len(a) : b[i].rejected => a[i].rejected \/ (i \in S /\ said)
  BY <1>2, <1>3
<1> QED
  BY <1>6, <1>7 DEF b

LEMMA MarkedTwice ==
  ASSUME NEW a \in Seq(Stored), NEW b, NEW c, Marked(a, b), Marked(b, c)
  PROVE  Marked(a, c)
<1>1. Len(a) = Len(b) /\ Len(c) = Len(b) /\ c \in Seq(Stored)
  BY DEF Marked
<1>2. ASSUME NEW i \in 1 .. Len(a)
      PROVE  /\ c[i].fees = a[i].fees /\ c[i].raw = a[i].raw
             /\ a[i].acceptedAt => c[i].acceptedAt
             /\ ~c[i].rejected => ~a[i].rejected \/ a[i].raw
  BY <1>1 DEF Marked
<1> QED
  BY <1>1, <1>2 DEF Marked

(***************************************************************************)
(* What a row keeps                                                        *)
(***************************************************************************)
RawOf(a) == {i \in DOMAIN a : a[i].raw}

UnderCap(fees) ==
  fees.maxFeePerGas <= Cap.maxFeePerGas /\ fees.maxPriorityFeePerGas <= Cap.maxPriorityFeePerGas

\* That a node took a hash is noted at an attempt with that hash, or for the retired.
Noted(tx, hash) ==
  tx.retiredAccepted \/ \E i \in 1 .. Len(tx.attempts) :
                          tx.attempts[i].fees = hash /\ tx.attempts[i].acceptedAt

AttemptsFit(a) ==
  /\ \A i \in 1 .. Len(a) : (~a[i].rejected => a[i].raw) /\ UnderCap(a[i].fees)
  /\ Len(a) <= MAX_STORED_ATTEMPTS
  /\ Cardinality(RawOf(a)) <= MAX_SIGNED_ATTEMPTS

\* An attempt has the hash.
Among(tx, hash) == \E i \in 1 .. Len(tx.attempts) : tx.attempts[i].fees = hash

\* An attempt is refused because a node was heard to refuse it.
DenialsHeard(a, denied) == \A i \in 1 .. Len(a) : a[i].rejected => a[i].fees \in denied

Kept(tx, had) ==
  /\ tx \in TxState /\ had \in Told
  /\ AttemptsFit(tx.attempts)
  /\ Len(tx.retired) <= MAX_RETIRED_HASHES
  /\ had.hold \subseteq Hashes(tx)
  /\ \A h \in had.acked : Noted(tx, h)
  /\ \A h \in had.hold \ had.denied : Among(tx, h)
  /\ DenialsHeard(tx.attempts, had.denied)

LEMMA TxTypes ==
  ASSUME NEW tx \in TxState
  PROVE  /\ tx.attempts \in Seq(Stored) /\ tx.retired \in Seq(Fee)
         /\ tx.retiredAccepted \in BOOLEAN /\ tx.walk \in Walks /\ tx.index \in Nat
         /\ DOMAIN tx.attempts = 1 .. Len(tx.attempts) /\ Len(tx.attempts) \in Nat
         /\ \A i \in 1 .. Len(tx.attempts) : tx.attempts[i] \in Stored /\ tx.attempts[i].fees \in Fee
<1>1. /\ tx.attempts \in Seq(Stored) /\ tx.retired \in Seq(Fee)
      /\ tx.retiredAccepted \in BOOLEAN /\ tx.walk \in Walks /\ tx.index \in Nat
  BY DEF TxState
<1> QED
  BY <1>1, ListTypes DEF Stored

\* Rows with the same signatures in the same places.
SameList(tx, next) ==
  /\ Len(next.attempts) = Len(tx.attempts)
  /\ \A i \in 1 .. Len(tx.attempts) : next.attempts[i].fees = tx.attempts[i].fees
  /\ next.retired = tx.retired

LEMMA SameLists ==
  ASSUME NEW tx \in TxState, NEW next \in TxState, SameList(tx, next)
  PROVE  Hashes(next) = Hashes(tx) /\ receiptHashes(next) = receiptHashes(tx)
         /\ NewestFirst(next) = NewestFirst(tx)
<1>1. DOMAIN tx.attempts = 1 .. Len(tx.attempts) /\ DOMAIN next.attempts = 1 .. Len(tx.attempts)
  BY TxTypes DEF SameList
<1>2. {tx.attempts[i].fees : i \in DOMAIN tx.attempts}
        = {next.attempts[i].fees : i \in DOMAIN next.attempts}
  BY <1>1 DEF SameList
<1>3. [i \in DOMAIN tx.attempts |-> tx.attempts[i].fees]
        = [i \in DOMAIN next.attempts |-> next.attempts[i].fees]
  BY <1>1 DEF SameList
<1> QED
  BY <1>2, <1>3 DEF Hashes, NewestFirst, receiptHashes, SameList

LEMMA MarkedFits ==
  ASSUME NEW a \in Seq(Stored), NEW b, Marked(a, b), AttemptsFit(a)
  PROVE  AttemptsFit(b)
<1>1. DOMAIN a = 1 .. Len(a) /\ DOMAIN b = 1 .. Len(a) /\ Len(b) = Len(a)
  BY ListTypes DEF Marked
<1>2. RawOf(b) = RawOf(a)
  BY <1>1 DEF RawOf, Marked
<1>3. \A i \in 1 .. Len(b) : (~b[i].rejected => b[i].raw) /\ UnderCap(b[i].fees)
  BY <1>1 DEF Marked, AttemptsFit, UnderCap
<1> QED
  BY <1>1, <1>2, <1>3 DEF AttemptsFit

\* New marks change nothing that a row keeps, but note what a node took.
LEMMA MarkedKept ==
  ASSUME NEW tx \in TxState, NEW next \in TxState, NEW had, NEW has, Kept(tx, had),
         Marked(tx.attempts, next.attempts), next.retired = tx.retired,
         tx.retiredAccepted => next.retiredAccepted,
         has \in Told, has.hold \subseteq Hashes(tx), \A h \in has.acked \ had.acked : Noted(next, h),
         \A h \in has.hold \ has.denied : Among(tx, h), DenialsHeard(next.attempts, has.denied)
  PROVE  Kept(next, has) /\ SameList(tx, next)
<1>1. SameList(tx, next)
  BY DEF Marked, SameList
<1>2. Hashes(next) = Hashes(tx)
  BY <1>1, SameLists
<1>3. AttemptsFit(next.attempts)
  BY TxTypes, MarkedFits DEF Kept
<1>4. ASSUME NEW h, Noted(tx, h) PROVE Noted(next, h)
  BY <1>4 DEF Noted, Marked
<1>5. ASSUME NEW h, Among(tx, h) PROVE Among(next, h)
  BY <1>5 DEF Among, Marked
<1> QED
  BY <1>1, <1>2, <1>3, <1>4, <1>5 DEF Kept

LEMMA ChangedAttempts ==
  ASSUME NEW tx \in TxState, NEW b \in Seq(Stored)
  PROVE  LET n == [tx EXCEPT !.attempts = b]
         IN /\ n \in TxState
            /\ n.attempts = b /\ n.retired = tx.retired /\ n.retiredAccepted = tx.retiredAccepted
            /\ n.status = tx.status /\ n.walk = tx.walk /\ n.index = tx.index
            /\ n.minedHash = tx.minedHash
BY DEF TxState

(***************************************************************************)
(* Sending again, and refusals                                             *)
(***************************************************************************)
LEMMA RefusedMarked ==
  ASSUME NEW tx \in TxState, NEW hash
  PROVE  /\ MarkRefused(tx, hash) \in TxState
         /\ Marked(tx.attempts, MarkRefused(tx, hash).attempts)
         /\ MarkRefused(tx, hash).retired = tx.retired
         /\ MarkRefused(tx, hash).retiredAccepted = tx.retiredAccepted
         /\ MarkRefused(tx, hash).status = tx.status
         /\ MarkRefused(tx, hash).walk = tx.walk /\ MarkRefused(tx, hash).index = tx.index
         /\ \A i \in 1 .. Len(tx.attempts) :
              MarkRefused(tx, hash).attempts[i].rejected =>
                tx.attempts[i].rejected \/ tx.attempts[i].fees = hash
<1> DEFINE a == tx.attempts
           S == {i \in DOMAIN a : a[i].fees = hash}
           b == [i \in DOMAIN a |-> IF i \in S THEN [a[i] EXCEPT !.rejected = TRUE] ELSE a[i]]
<1>1. a \in Seq(Stored)
  BY TxTypes
<1>2. Marked(a, b) /\ \A i \in 1 .. Len(a) : b[i].rejected => a[i].rejected \/ i \in S
  <2> HIDE DEF a, S
  <2>1. \A i \in 1 .. Len(a) : i \in S /\ ~TRUE => a[i].raw
    OBVIOUS
  <2> QED
    BY <1>1, <2>1, RejectedSet
<1>3. [i \in DOMAIN a |-> IF a[i].fees = hash THEN [a[i] EXCEPT !.rejected = TRUE] ELSE a[i]] = b
  OBVIOUS
<1>4. MarkRefused(tx, hash) = [tx EXCEPT !.attempts = b]
  BY <1>3 DEF MarkRefused
<1> HIDE DEF b, a
<1>5. b \in Seq(Stored)
  BY <1>2 DEF Marked
<1> QED
  BY <1>2, <1>4, <1>5, ChangedAttempts DEF a

\* A row that is failed has no signature that a node was heard to have, and of the
\* others each but the last was refused.
LEMMA NobodyHasIt ==
  ASSUME NEW tx \in TxState, NEW had, Kept(tx, had), NEW hash, ~MayBeMined(tx, hash)
  PROVE  had.acked = {} /\ had.hold \subseteq had.denied \cup {hash}
<1>1. had.acked = {}
  BY TxTypes DEF MayBeMined, Kept, Noted
<1>2. ASSUME NEW h \in had.hold \ had.denied PROVE h = hash
  <2>1. PICK i \in 1 .. Len(tx.attempts) : tx.attempts[i].fees = h
    BY DEF Kept, Among
  <2>2. ~tx.attempts[i].rejected /\ i \in DOMAIN tx.attempts
    BY <1>2, <2>1, TxTypes DEF Kept, DenialsHeard
  <2> QED
    BY <2>1, <2>2 DEF MayBeMined
<1> QED
  BY <1>1, <1>2

LEMMA KeptSame ==
  ASSUME NEW tx \in TxState, NEW next \in TxState, NEW had, Kept(tx, had),
         next.attempts = tx.attempts, next.retired = tx.retired,
         next.retiredAccepted = tx.retiredAccepted
  PROVE  Kept(next, had) /\ SameList(tx, next)
BY DEF Kept, SameList, Hashes, Noted, Among

LEMMA StatusOnly ==
  ASSUME NEW tx \in TxState, NEW status \in {"submitted", "mined", "refused", "outside"}
  PROVE  LET n == [tx EXCEPT !.status = status]
         IN /\ n \in TxState /\ n.status = status
            /\ n.attempts = tx.attempts /\ n.retired = tx.retired
            /\ n.retiredAccepted = tx.retiredAccepted /\ n.walk = tx.walk /\ n.index = tx.index
BY DEF TxState

NeverHeard(had) == had.acked = {} /\ had.hold \subseteq had.denied

LEMMA SendsKept ==
  ASSUME NEW tx \in TxState, Kept(tx, nodes), NEW i \in 1 .. Len(tx.attempts), NEW again \in BOOLEAN,
         again => tx.attempts[i].raw, Sends(tx, i, again)
  PROVE  /\ Kept(record', nodes') /\ SameList(tx, record')
         /\ record'.walk = tx.walk /\ record'.index = tx.index
         /\ record'.status = tx.status \/ (record'.status = "refused" /\ NeverHeard(nodes'))
         /\ sweep' = NotSweeping
<1> DEFINE a == tx.attempts[i]
           R == {k \in DOMAIN tx.attempts : tx.attempts[k].fees = a.fees /\ tx.attempts[k].raw = a.raw}
           revived == [k \in DOMAIN tx.attempts |->
                         IF k \in R THEN [tx.attempts[k] EXCEPT !.rejected = FALSE] ELSE tx.attempts[k]]
           base == IF again /\ a.rejected THEN revived ELSE tx.attempts
           ok == IF again /\ ~a.rejected /\ a.acceptedAt THEN tx
                 ELSE [tx EXCEPT !.attempts = MarkTaken(base, a.fees)]
           no == MarkRefused(tx, a.fees)
           failed == [no EXCEPT !.status = "refused"]
           Sames(b) == \A k \in 1 .. Len(tx.attempts) : b[k].rejected => tx.attempts[k].rejected
<1>1. tx.attempts \in Seq(Stored) /\ a \in Stored /\ a.fees \in Hashes(tx) /\ a.fees \in Fee
      /\ Among(tx, a.fees)
  BY TxTypes DEF Hashes, Among
<1>2. Marked(tx.attempts, base) /\ Sames(base)
  <2>1. CASE again /\ a.rejected
    <3>1. \A k \in 1 .. Len(tx.attempts) : k \in R /\ ~FALSE => tx.attempts[k].raw
      BY <2>1
    <3> HIDE DEF R
    <3>2. Marked(tx.attempts, revived) /\ Sames(revived)
      BY <1>1, <3>1, RejectedSet
    <3> QED
      BY <2>1, <3>2
  <2>2. CASE ~(again /\ a.rejected)
    BY <1>1, <2>2, NotMarked
  <2> QED
    BY <2>1, <2>2
<1>3. /\ ok \in TxState /\ Marked(tx.attempts, ok.attempts) /\ Noted(ok, a.fees)
      /\ ok.retired = tx.retired /\ ok.retiredAccepted = tx.retiredAccepted
      /\ ok.status = tx.status /\ ok.walk = tx.walk /\ ok.index = tx.index
      /\ Sames(ok.attempts)
  <2>1. CASE again /\ ~a.rejected /\ a.acceptedAt
    BY <1>1, <2>1, NotMarked DEF Noted
  <2>2. CASE ~(again /\ ~a.rejected /\ a.acceptedAt)
    <3> DEFINE b == MarkTaken(base, a.fees)
    <3>1. base \in Seq(Stored) /\ Len(base) = Len(tx.attempts) /\ base[i].fees = a.fees
      BY <1>2 DEF Marked
    <3> HIDE DEF base, a
    <3>2. /\ Marked(base, b) /\ b[i].acceptedAt
          /\ \A k \in 1 .. Len(tx.attempts) : b[k].rejected = base[k].rejected
      BY <3>1, TakenMarked
    <3>3. Marked(tx.attempts, b) /\ b \in Seq(Stored) /\ Sames(b)
      BY <1>1, <1>2, <3>2, MarkedTwice DEF Marked
    <3>4. b[i].fees = a.fees /\ i \in 1 .. Len(b)
      BY <3>3 DEF Marked, a
    <3>5. ok = [tx EXCEPT !.attempts = b]
      BY <2>2 DEF a
    <3> HIDE DEF b, ok
    <3> QED
      BY <3>2, <3>3, <3>4, <3>5, ChangedAttempts DEF Noted
  <2> QED
    BY <2>1, <2>2
<1>4. /\ no \in TxState /\ Marked(tx.attempts, no.attempts) /\ no.retired = tx.retired
      /\ no.retiredAccepted = tx.retiredAccepted
      /\ no.status = tx.status /\ no.walk = tx.walk /\ no.index = tx.index
      /\ \A k \in 1 .. Len(tx.attempts) :
           no.attempts[k].rejected => tx.attempts[k].rejected \/ tx.attempts[k].fees = a.fees
  BY RefusedMarked
<1>5. PICK hold \in {nodes.hold, nodes.hold \cup {a.fees}} :
        \/ record' = ok /\ nodes' = [nodes EXCEPT !.hold = hold, !.acked = @ \cup {a.fees}]
        \/ /\ \/ record' = no
              \/ ~MayBeMined(tx, a.fees) /\ record' = failed
           /\ nodes' = [nodes EXCEPT !.hold = hold, !.denied = @ \cup {a.fees}]
        \/ record' = tx /\ nodes' = [nodes EXCEPT !.hold = hold]
  <2>1. [k \in DOMAIN tx.attempts |->
           IF tx.attempts[k].fees = a.fees /\ tx.attempts[k].raw = a.raw
           THEN [tx.attempts[k] EXCEPT !.rejected = FALSE] ELSE tx.attempts[k]] = revived
    OBVIOUS
  <2> QED
    BY <2>1 DEF Sends
<1>6. sweep' = NotSweeping
  BY DEF Sends, Ended, Goes
<1> HIDE DEF ok, no, base, R, a
<1>7. /\ nodes \in Told /\ hold \subseteq Fee /\ hold \subseteq Hashes(tx)
      /\ \A h \in hold \ nodes.denied : Among(tx, h)
      /\ DenialsHeard(tx.attempts, nodes.denied) /\ DOMAIN tx.attempts = 1 .. Len(tx.attempts)
  BY <1>1, TxTypes DEF Kept, Told
<1>8. CASE record' = ok /\ nodes' = [nodes EXCEPT !.hold = hold, !.acked = @ \cup {a.fees}]
  <2>1. /\ nodes' \in Told /\ nodes'.hold = hold /\ nodes'.denied = nodes.denied
        /\ nodes'.acked = nodes.acked \cup {a.fees}
    BY <1>1, <1>7, <1>8 DEF Told
  <2>2. DenialsHeard(ok.attempts, nodes'.denied)
    BY <1>3, <1>7, <2>1 DEF DenialsHeard, Marked
  <2>3. Kept(ok, nodes') /\ SameList(tx, ok)
    BY <1>3, <1>7, <2>1, <2>2, MarkedKept
  <2> QED
    BY <1>3, <1>6, <1>8, <2>3
<1>9. ASSUME nodes' = [nodes EXCEPT !.hold = hold, !.denied = @ \cup {a.fees}]
      PROVE  /\ Kept(no, nodes') /\ SameList(tx, no)
             /\ nodes'.hold = hold /\ nodes'.acked = nodes.acked
             /\ nodes'.denied = nodes.denied \cup {a.fees}
  <2>1. /\ nodes' \in Told /\ nodes'.hold = hold /\ nodes'.acked = nodes.acked
        /\ nodes'.denied = nodes.denied \cup {a.fees}
    BY <1>1, <1>7, <1>9 DEF Told
  <2>2. DenialsHeard(no.attempts, nodes'.denied)
    BY <1>4, <1>7, <2>1 DEF DenialsHeard, Marked
  <2> QED
    BY <1>4, <1>7, <2>1, <2>2, MarkedKept
<1>10. CASE record' = no /\ nodes' = [nodes EXCEPT !.hold = hold, !.denied = @ \cup {a.fees}]
  BY <1>4, <1>6, <1>9, <1>10
<1>11. CASE record' = tx /\ nodes' = [nodes EXCEPT !.hold = hold]
  <2>1. /\ nodes' \in Told /\ nodes'.hold = hold /\ nodes'.acked = nodes.acked
        /\ nodes'.denied = nodes.denied
    BY <1>7, <1>11 DEF Told
  <2>2. Kept(tx, nodes') /\ SameList(tx, tx)
    BY <1>1, <1>7, <2>1, NotMarked, MarkedKept
  <2> QED
    BY <1>6, <1>11, <2>2
<1>12. CASE /\ ~MayBeMined(tx, a.fees) /\ record' = failed
            /\ nodes' = [nodes EXCEPT !.hold = hold, !.denied = @ \cup {a.fees}]
  <2>1. nodes.acked = {} /\ nodes.hold \subseteq nodes.denied \cup {a.fees}
    BY <1>12, NobodyHasIt
  <2>2. NeverHeard(nodes')
    BY <1>9, <1>12, <2>1 DEF NeverHeard
  <2>3. /\ failed \in TxState /\ failed.status = "refused" /\ failed.attempts = no.attempts
        /\ failed.retired = no.retired /\ failed.retiredAccepted = no.retiredAccepted
        /\ failed.walk = no.walk /\ failed.index = no.index
    BY <1>4, StatusOnly
  <2> HIDE DEF failed
  <2>4. Kept(failed, nodes') /\ SameList(no, failed)
    BY <1>4, <1>9, <1>12, <2>3, KeptSame
  <2>5. SameList(tx, failed)
    BY <1>9, <1>12, <2>4 DEF SameList
  <2> QED
    BY <1>4, <1>6, <1>12, <2>2, <2>3, <2>4, <2>5
<1> QED
  BY <1>5, <1>8, <1>10, <1>11, <1>12

(***************************************************************************)
(* Making room                                                             *)
(***************************************************************************)
LEMMA CountBound ==
  ASSUME NEW S, NEW T, IsFiniteSet(T), NEW f \in [S -> T], \A x, y \in S : f[x] = f[y] => x = y
  PROVE  IsFiniteSet(S) /\ Cardinality(S) <= Cardinality(T)
<1>1. f \in Injection(S, T)
  BY DEF Injection, IsInjective
<1> QED
  BY <1>1, FS_Injection

LEMMA DisjointCount ==
  ASSUME NEW S, NEW T, IsFiniteSet(S), IsFiniteSet(T), S \cap T = {}
  PROVE  /\ IsFiniteSet(S \cup T)
         /\ Cardinality(S \cup T) = Cardinality(S) + Cardinality(T)
         /\ Cardinality(S) \in Nat /\ Cardinality(T) \in Nat
<1>1. Cardinality(S) \in Nat /\ Cardinality(T) \in Nat
  BY FS_CardinalityType
<1>2. /\ IsFiniteSet(S \cup T)
      /\ Cardinality(S \cup T) = Cardinality(S) + Cardinality(T) - Cardinality(S \cap T)
  BY FS_Union
<1>3. Cardinality(S \cap T) = 0
  BY FS_EmptySet
<1> QED
  BY <1>1, <1>2, <1>3

Rank(H, i) == Cardinality({j \in H : j < i})

LEMMA RankOrder ==
  ASSUME NEW n \in Nat, NEW H \in SUBSET (1 .. n)
  PROVE  /\ IsFiniteSet(H) /\ Cardinality(H) \in Nat
         /\ \A i \in H : Rank(H, i) \in Nat /\ Rank(H, i) < Cardinality(H)
         /\ \A i, k \in H : Rank(H, i) = Rank(H, k) => i = k
<1>1. IsFiniteSet(H) /\ Cardinality(H) \in Nat
  <2>1. IsFiniteSet(1 .. n)
    BY FS_Interval
  <2>2. IsFiniteSet(H)
    BY <2>1, FS_Subset
  <2> QED
    BY <2>2, FS_CardinalityType
<1>2. ASSUME NEW S \in SUBSET H, NEW T \in SUBSET S, NEW i \in S \ T
      PROVE  /\ Cardinality(T) \in Nat /\ Cardinality(S) \in Nat
             /\ Cardinality(T) < Cardinality(S)
  <2>1. IsFiniteSet(S)
    BY <1>1, FS_Subset
  <2>2. IsFiniteSet(T) /\ Cardinality(T) <= Cardinality(S) /\ Cardinality(S) # Cardinality(T)
    BY <1>2, <2>1, FS_Subset
  <2>3. Cardinality(T) \in Nat /\ Cardinality(S) \in Nat
    BY <2>1, <2>2, FS_CardinalityType
  <2> QED
    BY <2>2, <2>3
<1>3. ASSUME NEW i \in H
      PROVE  Rank(H, i) \in Nat /\ Rank(H, i) < Cardinality(H)
  <2>1. {j \in H : j < i} \in SUBSET H /\ i \in H \ {j \in H : j < i}
    OBVIOUS
  <2> QED
    BY <1>2, <2>1 DEF Rank
<1>4. ASSUME NEW i \in H, NEW k \in H, i < k
      PROVE  Rank(H, i) < Rank(H, k) /\ Rank(H, i) \in Nat /\ Rank(H, k) \in Nat
  <2>1. /\ {j \in H : j < k} \in SUBSET H /\ {j \in H : j < i} \in SUBSET {j \in H : j < k}
        /\ i \in {j \in H : j < k} \ {j \in H : j < i}
    <3>1. \A j \in H : j < i => j < k
      BY <1>4
    <3>2. ~(i < i)
      OBVIOUS
    <3> QED
      BY <1>4, <3>1, <3>2
  <2> QED
    BY <1>2, <2>1 DEF Rank
<1>5. ASSUME NEW i \in H, NEW k \in H, Rank(H, i) = Rank(H, k) PROVE i = k
  <2>1. i \in Nat /\ k \in Nat
    OBVIOUS
  <2>2. ~(i < k) /\ ~(k < i)
    BY <1>4, <1>5
  <2> QED
    BY <2>1, <2>2
<1> QED
  BY <1>1, <1>3, <1>5

\* All but the first s members of a set of indexes.
LEMMA LaterMembers ==
  ASSUME NEW n \in Nat, NEW H \in SUBSET (1 .. n), NEW s \in Nat
  PROVE  LET K == {i \in H : Rank(H, i) >= s}
         IN /\ IsFiniteSet(K) /\ Cardinality(K) \in Nat
            /\ Cardinality(H) >= s => Cardinality(K) <= Cardinality(H) - s
            /\ Cardinality(H) < s => Cardinality(K) = 0
<1> DEFINE K == {i \in H : Rank(H, i) >= s}
           h == Cardinality(H)
           rank == [i \in K |-> Rank(H, i)]
<1>1. /\ IsFiniteSet(H) /\ h \in Nat
      /\ \A i \in H : Rank(H, i) \in Nat /\ Rank(H, i) < h
      /\ \A i, k \in H : Rank(H, i) = Rank(H, k) => i = k
  BY RankOrder
<1>2. rank \in [K -> s .. h - 1] /\ \A i, k \in K : rank[i] = rank[k] => i = k
  <2>1. \A i \in K : Rank(H, i) \in s .. h - 1
    BY <1>1
  <2> QED
    BY <1>1, <2>1
<1> HIDE DEF rank, K, h
<1>3. IsFiniteSet(s .. h - 1) /\ Cardinality(s .. h - 1) = IF s > h - 1 THEN 0 ELSE h - 1 - s + 1
  BY <1>1, FS_Interval
<1>4. IsFiniteSet(K) /\ Cardinality(K) <= Cardinality(s .. h - 1)
  BY <1>2, <1>3, CountBound
<1>5. Cardinality(K) \in Nat
  BY <1>4, FS_CardinalityType
<1>6. h >= s => Cardinality(K) <= h - s
  BY <1>1, <1>3, <1>4, <1>5
<1>7. h < s => Cardinality(K) = 0
  BY <1>1, <1>3, <1>4, <1>5
<1> QED
  BY <1>4, <1>5, <1>6, <1>7 DEF K, h

LEMMA LimitTypes ==
  /\ MAX_ATTEMPTS \in Nat \ {0} /\ MAX_SIGNED_ATTEMPTS \in Nat /\ MAX_STORED_ATTEMPTS \in Nat
  /\ MAX_RETIRED_HASHES \in Nat /\ MAX_SIGNED_ATTEMPTS >= MAX_ATTEMPTS
  /\ MAX_STORED_ATTEMPTS >= MAX_SIGNED_ATTEMPTS /\ Cap \in Fee
BY AttemptsAssumption

UnrefusedOf(a) == {i \in DOMAIN a : ~a[i].rejected}

\* Room is made for one more signed attempt, and only refused ones pay for it.
LEMMA RoomMade ==
  ASSUME NEW a \in Seq(Stored), \A i \in 1 .. Len(a) : ~a[i].rejected => a[i].raw,
         Cardinality(UnrefusedOf(a)) < MAX_SIGNED_ATTEMPTS
  PROVE  /\ makeRoom(a) \in Seq(Stored) /\ Len(makeRoom(a)) = Len(a)
         /\ \A i \in 1 .. Len(a) :
              /\ makeRoom(a)[i].fees = a[i].fees /\ makeRoom(a)[i].acceptedAt = a[i].acceptedAt
              /\ makeRoom(a)[i].rejected = a[i].rejected
              /\ ~makeRoom(a)[i].rejected => makeRoom(a)[i].raw
         /\ IsFiniteSet(RawOf(makeRoom(a))) /\ Cardinality(RawOf(makeRoom(a))) < MAX_SIGNED_ATTEMPTS
<1> DEFINE n == Len(a)
           H == {i \in DOMAIN a : a[i].raw /\ a[i].rejected}
           U == UnrefusedOf(a)
           s == StripCount(a)
           b == makeRoom(a)
           stripped(i) == [a[i] EXCEPT !.raw = FALSE]
<1>1. n \in Nat /\ DOMAIN a = 1 .. n /\ \A i \in 1 .. n : a[i] \in Stored
  BY ListTypes
<1>2. ASSUME NEW i \in 1 .. n
      PROVE  /\ stripped(i) \in Stored /\ stripped(i).fees = a[i].fees
             /\ stripped(i).acceptedAt = a[i].acceptedAt /\ stripped(i).rejected = a[i].rejected
             /\ ~stripped(i).raw
  BY <1>1 DEF Stored
<1>3. b = [i \in 1 .. n |-> IF i \in H /\ Rank(H, i) < s THEN stripped(i) ELSE a[i]]
  BY <1>1 DEF makeRoom, Rank
<1> HIDE DEF b, stripped
<1>4. b \in [1 .. n -> Stored]
  BY <1>1, <1>2, <1>3
<1>5. b \in Seq(Stored) /\ Len(b) = n /\ DOMAIN b = 1 .. n
  BY <1>1, <1>4, FunctionIsSeq
<1>6. \A i \in 1 .. n : b[i] = IF i \in H /\ Rank(H, i) < s THEN stripped(i) ELSE a[i]
  BY <1>3
<1>7. \A i \in 1 .. n : b[i].fees = a[i].fees /\ b[i].acceptedAt = a[i].acceptedAt
                        /\ b[i].rejected = a[i].rejected
                        /\ (~b[i].rejected => b[i].raw)
  BY <1>2, <1>6
<1>8. H \in SUBSET (1 .. n) /\ U \in SUBSET (1 .. n) /\ RawOf(a) = H \cup U /\ H \cap U = {}
  BY <1>1 DEF UnrefusedOf, RawOf
<1> HIDE DEF n, H, U
<1>9. /\ IsFiniteSet(H) /\ IsFiniteSet(U) /\ Cardinality(H) \in Nat /\ Cardinality(U) \in Nat
      /\ \A i \in H : Rank(H, i) \in Nat
  BY <1>1, <1>8, RankOrder
<1>10. Cardinality(RawOf(a)) = Cardinality(H) + Cardinality(U)
  BY <1>8, <1>9, DisjointCount
<1>11. s = Cardinality(H) + Cardinality(U) + 1 - MAX_SIGNED_ATTEMPTS /\ s \in Int
  BY <1>9, <1>10, LimitTypes DEF StripCount, RawOf
<1> HIDE DEF s
<1> DEFINE K == {i \in H : Rank(H, i) >= s}
<1>12. RawOf(b) = U \cup K
  <2>1. \A i \in 1 .. n : b[i].raw <=> i \in U \/ i \in K
    <3> TAKE i \in 1 .. n
    <3>1. CASE i \in H /\ Rank(H, i) < s
      <4>1. ~b[i].raw /\ i \notin U /\ i \notin K
        BY <1>2, <1>6, <1>8, <1>9, <1>11, <3>1
      <4> QED
        BY <4>1
    <3>2. CASE ~(i \in H /\ Rank(H, i) < s)
      <4>1. b[i] = a[i] /\ (a[i].raw <=> i \in H \cup U)
        BY <1>1, <1>6, <1>8, <3>2 DEF RawOf
      <4>2. i \in H => i \in K
        BY <1>9, <1>11, <3>2
      <4> QED
        BY <4>1, <4>2
    <3> QED
      BY <3>1, <3>2
  <2> QED
    BY <1>5, <1>8, <2>1 DEF RawOf
<1>13. IsFiniteSet(U \cup K) /\ Cardinality(U \cup K) < MAX_SIGNED_ATTEMPTS
  <2>1. Cardinality(U) < MAX_SIGNED_ATTEMPTS
    BY DEF U
  <2>2. CASE s >= 0
    <3>1. /\ IsFiniteSet(K) /\ Cardinality(K) \in Nat
          /\ Cardinality(H) >= s => Cardinality(K) <= Cardinality(H) - s
          /\ Cardinality(H) < s => Cardinality(K) = 0
      <4>1. s \in Nat
        BY <1>11, <2>2
      <4> QED
        BY <1>1, <1>8, <4>1, LaterMembers DEF n
    <3>2. IsFiniteSet(U \cup K) /\ Cardinality(U \cup K) = Cardinality(U) + Cardinality(K)
      <4>1. U \cap K = {}
        BY <1>8
      <4> HIDE DEF K
      <4> QED
        BY <1>9, <3>1, <4>1, DisjointCount
    <3> HIDE DEF K
    <3> QED
      BY <1>9, <1>11, <2>1, <3>1, <3>2, LimitTypes
  <2>3. CASE s < 0
    <3>1. U \cup K \in SUBSET (H \cup U) /\ IsFiniteSet(H \cup U)
          /\ Cardinality(H \cup U) = Cardinality(H) + Cardinality(U)
      BY <1>8, <1>9, DisjointCount
    <3> HIDE DEF K
    <3>2. IsFiniteSet(U \cup K) /\ Cardinality(U \cup K) <= Cardinality(H) + Cardinality(U)
      BY <3>1, FS_Subset
    <3>3. Cardinality(U \cup K) \in Nat
      BY <3>2, FS_CardinalityType
    <3> QED
      BY <1>9, <1>11, <2>3, <3>2, <3>3, LimitTypes
  <2> QED
    BY <1>11, <2>2, <2>3
<1> QED
  BY <1>5, <1>7, <1>12, <1>13 DEF b, n

LEMMA OldestIs ==
  ASSUME NEW S \in SUBSET Nat, S # {}
  PROVE  Oldest(S) \in S /\ \A j \in S : Oldest(S) <= j
<1> DEFINE less == OpToRel(<, Nat)
<1>1. \E i \in S : \A j \in S : <<j, i>> \notin less
  <2> HIDE DEF less
  <2>1. IsWellFoundedOn(less, Nat)
    BY NatLessThanWellFounded DEF less
  <2> QED
    BY <2>1, WFMin
<1>2. PICK i \in S : \A j \in S : <<j, i>> \notin less
  BY <1>1
<1>3. \A j \in S : i <= j
  <2> TAKE j \in S
  <2>1. i \in Nat /\ j \in Nat
    OBVIOUS
  <2>2. ~(j < i)
    BY <1>2, <2>1 DEF OpToRel
  <2> QED
    BY <2>1, <2>2
<1> QED
  BY <1>3 DEF Oldest

\* The list without one attempt: those after it move up.
LEMMA WithoutOne ==
  ASSUME NEW a \in Seq(Stored), NEW g \in 1 .. Len(a)
  PROVE  /\ RemoveAt(a, g) \in Seq(Stored) /\ Len(RemoveAt(a, g)) = Len(a) - 1
         /\ \A i \in 1 .. Len(a) - 1 :
              RemoveAt(a, g)[i] = IF i < g THEN a[i] ELSE a[i + 1]
<1> DEFINE b == SubSeq(a, 1, g - 1)
           c == SubSeq(a, g + 1, Len(a))
<1>1. Len(a) \in Nat /\ \A i \in 1 .. Len(a) : a[i] \in Stored
  BY ListTypes
<1>2. b \in Seq(Stored) /\ Len(b) = g - 1 /\ \A i \in 1 .. g - 1 : b[i] = a[i]
  <2>1. g - 1 \in Int /\ \A i \in 1 .. g - 1 : a[i] \in Stored
    BY <1>1
  <2>2. /\ b \in Seq(Stored) /\ Len(b) = IF 1 <= g - 1 THEN (g - 1) - 1 + 1 ELSE 0
        /\ \A i \in 1 .. (g - 1) - 1 + 1 : b[i] = a[1 + i - 1]
    BY <2>1, SubSeqProperties
  <2>3. \A i \in 1 .. g - 1 : (1 + i) - 1 = i /\ 1 + (i - 1) = i /\ i \in 1 .. (g - 1) - 1 + 1
    BY <1>1
  <2>4. Len(b) = g - 1
    BY <1>1, <2>2
  <2> QED
    BY <2>2, <2>3, <2>4
<1>3. c \in Seq(Stored) /\ Len(c) = Len(a) - g /\ \A i \in 1 .. Len(a) - g : c[i] = a[g + i]
  <2>1. g + 1 \in Int /\ Len(a) \in Int /\ \A i \in g + 1 .. Len(a) : a[i] \in Stored
    BY <1>1
  <2>2. /\ c \in Seq(Stored) /\ Len(c) = IF g + 1 <= Len(a) THEN Len(a) - (g + 1) + 1 ELSE 0
        /\ \A i \in 1 .. Len(a) - (g + 1) + 1 : c[i] = a[(g + 1) + i - 1]
    BY <2>1, SubSeqProperties
  <2>3. \A i \in 1 .. Len(a) - g : /\ ((g + 1) + i) - 1 = g + i /\ (g + 1) + (i - 1) = g + i
                                   /\ i \in 1 .. Len(a) - (g + 1) + 1
    BY <1>1
  <2>4. Len(c) = Len(a) - g
    BY <1>1, <2>2
  <2> QED
    BY <2>2, <2>3, <2>4
<1> HIDE DEF b, c
<1>4. /\ b \o c \in Seq(Stored) /\ Len(b \o c) = Len(b) + Len(c)
      /\ \A i \in 1 .. Len(b) + Len(c) : (b \o c)[i] = IF i <= Len(b) THEN b[i] ELSE c[i - Len(b)]
  BY <1>2, <1>3, ConcatProperties
<1>5. Len(b) + Len(c) = Len(a) - 1
  BY <1>1, <1>2, <1>3
<1>6. ASSUME NEW i \in 1 .. Len(a) - 1
      PROVE  (b \o c)[i] = IF i < g THEN a[i] ELSE a[i + 1]
  <2>1. CASE i < g
    <3>1. i <= Len(b) /\ i \in 1 .. g - 1 /\ i \in 1 .. Len(b) + Len(c)
      BY <1>1, <1>2, <1>5, <2>1
    <3> QED
      BY <1>2, <1>4, <2>1, <3>1
  <2>2. CASE ~(i < g)
    <3>1. /\ ~(i <= Len(b)) /\ i - (g - 1) \in 1 .. Len(a) - g /\ i \in 1 .. Len(b) + Len(c)
          /\ g + (i - (g - 1)) = i + 1
      BY <1>1, <1>2, <1>5, <2>2
    <3> QED
      BY <1>2, <1>3, <1>4, <2>2, <3>1
  <2> QED
    BY <2>1, <2>2
<1>7. RemoveAt(a, g) = b \o c
  BY DEF RemoveAt, b, c
<1> QED
  BY <1>4, <1>5, <1>6, <1>7

LEMMA ShiftCount ==
  ASSUME NEW n \in Nat, NEW g \in 1 .. n, NEW S \in SUBSET (1 .. n - 1), NEW T \in SUBSET (1 .. n),
         \A i \in S : (IF i < g THEN i ELSE i + 1) \in T
  PROVE  Cardinality(S) <= Cardinality(T) /\ Cardinality(S) \in Nat /\ Cardinality(T) \in Nat
<1> DEFINE f == [i \in S |-> IF i < g THEN i ELSE i + 1]
<1>1. IsFiniteSet(T)
  <2>1. IsFiniteSet(1 .. n)
    BY FS_Interval
  <2> QED
    BY <2>1, FS_Subset
<1>2. \A i, k \in S : f[i] = f[k] => i = k
  <2>1. \A i \in S : i \in Nat
    OBVIOUS
  <2> QED
    BY <2>1
<1>3. f \in [S -> T]
  OBVIOUS
<1> HIDE DEF f
<1>4. IsFiniteSet(S) /\ Cardinality(S) <= Cardinality(T)
  BY <1>1, <1>2, <1>3, CountBound
<1> QED
  BY <1>1, <1>4, FS_CardinalityType

LEMMA RetiredIs ==
  ASSUME NEW tx \in TxState, NEW g \in 1 .. Len(tx.attempts)
  PROVE  /\ Retired(tx, g) \in Seq(Fee) /\ Len(Retired(tx, g)) <= Len(tx.retired) + 1
         /\ ToSet(tx.retired) \subseteq ToSet(Retired(tx, g))
         /\ \/ tx.attempts[g].fees \in ToSet(Retired(tx, g))
            \/ \E i \in (1 .. Len(tx.attempts)) \ {g} : tx.attempts[i].fees = tx.attempts[g].fees
<1> DEFINE hash == tx.attempts[g].fees
           r == tx.retired
           s == Append(r, hash)
<1>1. r \in Seq(Fee) /\ hash \in Fee /\ DOMAIN tx.attempts = 1 .. Len(tx.attempts)
  BY TxTypes
<1>2. Len(r) \in Nat /\ DOMAIN r = 1 .. Len(r)
  BY <1>1, LenProperties
<1>3. CASE Retired(tx, g) = r /\ hash \in ToSet(r)
  BY <1>1, <1>2, <1>3
<1>4. CASE /\ Retired(tx, g) = r
           /\ \E i \in (1 .. Len(tx.attempts)) \ {g} : tx.attempts[i].fees = hash
  BY <1>1, <1>2, <1>4
<1>5. CASE Retired(tx, g) = s
  <2> HIDE DEF hash, r
  <2>1. /\ s \in Seq(Fee) /\ Len(s) = Len(r) + 1 /\ \A i \in 1 .. Len(r) : s[i] = r[i]
        /\ s[Len(r) + 1] = hash
    BY <1>1, AppendProperties
  <2> HIDE DEF s
  <2>2. DOMAIN s = 1 .. Len(r) + 1
    BY <2>1, LenProperties
  <2>3. ToSet(r) \subseteq ToSet(s) /\ hash \in ToSet(s)
    BY <1>2, <2>1, <2>2 DEF ToSet
  <2> QED
    BY <1>2, <1>5, <2>1, <2>3 DEF hash, r
<1> QED
  BY <1>1, <1>3, <1>4, <1>5 DEF Retired

\* A refused attempt that makes room leaves its hash, and what was known of it.
LEMMA DroppedKept ==
  ASSUME NEW tx \in TxState, NEW had, Kept(tx, had), NEW g \in 1 .. Len(tx.attempts),
         tx.attempts[g].rejected, Len(tx.retired) < MAX_RETIRED_HASHES
  PROVE  LET n == Dropped(tx, g)
         IN /\ Kept(n, had) /\ Len(n.attempts) = Len(tx.attempts) - 1
            /\ Cardinality(UnrefusedOf(n.attempts)) <= Cardinality(UnrefusedOf(tx.attempts))
            /\ Cardinality(UnrefusedOf(n.attempts)) \in Nat
            /\ Cardinality(UnrefusedOf(tx.attempts)) \in Nat
            /\ n.status = tx.status /\ n.walk = tx.walk /\ n.index = tx.index
<1> DEFINE n == Dropped(tx, g)
           a == tx.attempts
           b == RemoveAt(a, g)
           r == Retired(tx, g)
           taken1 == AcceptedKept(tx, g)
           at(i) == IF i < g THEN i ELSE i + 1
<1>1. /\ a \in Seq(Stored) /\ Len(a) \in Nat /\ DOMAIN a = 1 .. Len(a)
      /\ tx.retired \in Seq(Fee) /\ tx.retiredAccepted \in BOOLEAN
      /\ \A i \in 1 .. Len(a) : a[i] \in Stored
  BY TxTypes
<1>2. /\ b \in Seq(Stored) /\ Len(b) = Len(a) - 1 /\ DOMAIN b = 1 .. Len(a) - 1
      /\ \A i \in 1 .. Len(a) - 1 : b[i] = a[at(i)] /\ at(i) \in 1 .. Len(a)
  <2>1. /\ b \in Seq(Stored) /\ Len(b) = Len(a) - 1
        /\ \A i \in 1 .. Len(a) - 1 : b[i] = IF i < g THEN a[i] ELSE a[i + 1]
    BY <1>1, WithoutOne
  <2>2. DOMAIN b = 1 .. Len(a) - 1
    BY <2>1, LenProperties
  <2>3. \A i \in 1 .. Len(a) - 1 : at(i) \in 1 .. Len(a)
    BY <1>1
  <2> QED
    BY <2>1, <2>2, <2>3
<1>3. /\ r \in Seq(Fee) /\ Len(r) <= Len(tx.retired) + 1 /\ ToSet(tx.retired) \subseteq ToSet(r)
      /\ a[g].fees \in ToSet(r) \/ \E i \in (1 .. Len(a)) \ {g} : a[i].fees = a[g].fees
  BY RetiredIs
<1>4. taken1 \in BOOLEAN /\ (tx.retiredAccepted => taken1) /\ (a[g].acceptedAt => taken1)
  BY <1>1 DEF AcceptedKept, Stored
<1>5. n = [tx EXCEPT !.attempts = b, !.retired = r, !.retiredAccepted = taken1]
  BY DEF Dropped
<1>0. g \in 1 .. Len(a)
  OBVIOUS
<1> HIDE DEF a, b, r, taken1
<1>6. /\ n \in TxState /\ n.attempts = b /\ n.retired = r /\ n.retiredAccepted = taken1
      /\ n.status = tx.status /\ n.walk = tx.walk /\ n.index = tx.index
  BY <1>2, <1>3, <1>4, <1>5 DEF TxState
<1> HIDE DEF n
<1>7. /\ AttemptsFit(a) /\ had \in Told /\ had.hold \subseteq Hashes(tx)
      /\ \A h \in had.acked : Noted(tx, h)
      /\ \A h \in had.hold \ had.denied : Among(tx, h)
      /\ DenialsHeard(a, had.denied) /\ a[g].rejected
  BY DEF Kept, a
\* every other attempt has its place in the new list
<1>8. \A i \in (1 .. Len(a)) \ {g} : \E k \in 1 .. Len(b) : at(k) = i /\ b[k] = a[i]
  <2> TAKE i \in (1 .. Len(a)) \ {g}
  <2>1. CASE i < g
    <3>1. i \in 1 .. Len(b) /\ at(i) = i /\ i \in 1 .. Len(a) - 1
      BY <1>0, <1>1, <1>2, <2>1
    <3> QED
      BY <1>2, <3>1
  <2>2. CASE ~(i < g)
    <3>1. i - 1 \in 1 .. Len(b) /\ at(i - 1) = i /\ i - 1 \in 1 .. Len(a) - 1
      BY <1>1, <1>2, <2>2
    <3> QED
      BY <1>2, <3>1
  <2> QED
    BY <2>1, <2>2
<1>9. ASSUME NEW S \in SUBSET (1 .. Len(b)), NEW T \in SUBSET (1 .. Len(a)), \A i \in S : at(i) \in T
      PROVE  Cardinality(S) <= Cardinality(T) /\ Cardinality(S) \in Nat /\ Cardinality(T) \in Nat
  <2>1. S \in SUBSET (1 .. Len(a) - 1) /\ g \in 1 .. Len(a)
    BY <1>0, <1>2
  <2> QED
    BY <1>1, <1>9, <2>1, ShiftCount
<1>10. Cardinality(RawOf(b)) <= Cardinality(RawOf(a)) /\ Cardinality(RawOf(b)) \in Nat
       /\ Cardinality(RawOf(a)) \in Nat
  <2>1. /\ RawOf(b) \in SUBSET (1 .. Len(b)) /\ RawOf(a) \in SUBSET (1 .. Len(a))
        /\ \A i \in RawOf(b) : at(i) \in RawOf(a)
    BY <1>1, <1>2 DEF RawOf
  <2> QED
    BY <1>9, <2>1
<1>11. /\ Cardinality(UnrefusedOf(b)) <= Cardinality(UnrefusedOf(a))
       /\ Cardinality(UnrefusedOf(b)) \in Nat /\ Cardinality(UnrefusedOf(a)) \in Nat
  <2>1. /\ UnrefusedOf(b) \in SUBSET (1 .. Len(b)) /\ UnrefusedOf(a) \in SUBSET (1 .. Len(a))
        /\ \A i \in UnrefusedOf(b) : at(i) \in UnrefusedOf(a)
    BY <1>1, <1>2 DEF UnrefusedOf
  <2> QED
    BY <1>9, <2>1
<1>12. AttemptsFit(b)
  <2>1. \A i \in 1 .. Len(b) : (~b[i].rejected => b[i].raw) /\ UnderCap(b[i].fees)
    <3>1. \A i \in 1 .. Len(a) : (~a[i].rejected => a[i].raw) /\ UnderCap(a[i].fees)
      BY <1>7 DEF AttemptsFit
    <3> QED
      BY <1>2, <3>1
  <2>2. Len(b) <= MAX_STORED_ATTEMPTS /\ Cardinality(RawOf(b)) <= MAX_SIGNED_ATTEMPTS
    <3>1. Len(a) <= MAX_STORED_ATTEMPTS /\ Cardinality(RawOf(a)) <= MAX_SIGNED_ATTEMPTS
      BY <1>7 DEF AttemptsFit
    <3> QED
      BY <1>1, <1>2, <1>10, <3>1, LimitTypes
  <2> QED
    BY <2>1, <2>2 DEF AttemptsFit
<1>13. Len(r) <= MAX_RETIRED_HASHES
  <2>1. Len(r) \in Nat /\ Len(tx.retired) \in Nat
    BY <1>1, <1>3, LenProperties
  <2> QED
    BY <1>3, <2>1, LimitTypes
<1>14. Hashes(tx) \subseteq Hashes(n)
  <2>1. \A i \in (1 .. Len(a)) \ {g} : a[i].fees \in Hashes(n)
    <3> TAKE i \in (1 .. Len(a)) \ {g}
    <3>1. PICK k \in 1 .. Len(b) : b[k] = a[i]
      BY <1>8
    <3>2. k \in DOMAIN n.attempts /\ n.attempts[k].fees = a[i].fees
      BY <1>2, <1>6, <3>1
    <3> QED
      BY <3>2 DEF Hashes
  <2>2. ToSet(r) \subseteq Hashes(n)
    BY <1>6 DEF Hashes
  <2>3. a[g].fees \in Hashes(n)
    BY <1>3, <2>1, <2>2
  <2> QED
    BY <1>1, <1>3, <2>1, <2>2, <2>3 DEF Hashes, a
<1>15. ASSUME NEW h \in had.acked PROVE Noted(n, h)
  <2>1. CASE tx.retiredAccepted
    BY <1>4, <1>6, <2>1 DEF Noted
  <2>2. ASSUME NEW i \in 1 .. Len(a), a[i].fees = h, a[i].acceptedAt
        PROVE  Noted(n, h)
    <3>1. CASE i = g
      BY <1>4, <1>6, <2>2, <3>1 DEF Noted
    <3>2. CASE i # g
      <4>1. PICK k \in 1 .. Len(b) : b[k] = a[i]
        BY <1>8, <3>2
      <4> QED
        BY <1>6, <2>2, <4>1 DEF Noted
    <3> QED
      BY <3>1, <3>2
  <2> QED
    BY <1>7, <2>1, <2>2 DEF Noted, a
<1>16. DenialsHeard(b, had.denied)
  BY <1>2, <1>7 DEF DenialsHeard
<1>17. ASSUME NEW h \in had.hold \ had.denied PROVE Among(n, h)
  <2>1. PICK i \in 1 .. Len(a) : a[i].fees = h
    BY <1>7 DEF Among, a
  <2>2. i # g
    BY <1>7, <2>1 DEF DenialsHeard
  <2>3. PICK k \in 1 .. Len(b) : b[k] = a[i]
    BY <1>8, <2>2
  <2> QED
    BY <1>6, <2>1, <2>3 DEF Among
<1> QED
  BY <1>2, <1>6, <1>7, <1>11, <1>12, <1>13, <1>14, <1>15, <1>16, <1>17 DEF Kept, n, a

\* A new signature takes the room that was made.
LEMMA SignedKept ==
  ASSUME NEW tx \in TxState, NEW had, Kept(tx, had), Len(tx.attempts) < MAX_STORED_ATTEMPTS,
         Cardinality(UnrefusedOf(tx.attempts)) < MAX_SIGNED_ATTEMPTS,
         NEW fees \in Fee, UnderCap(fees)
  PROVE  LET n == [tx EXCEPT !.attempts = Append(makeRoom(@), Signature(fees))]
         IN /\ Kept(n, had) /\ Len(n.attempts) = Len(tx.attempts) + 1
            /\ n.status = tx.status /\ n.walk = tx.walk /\ n.index = tx.index
<1> DEFINE a == tx.attempts
           m == makeRoom(a)
           sig == Signature(fees)
           b == Append(m, sig)
           n == [tx EXCEPT !.attempts = b]
<1>1. /\ a \in Seq(Stored) /\ Len(a) \in Nat /\ DOMAIN a = 1 .. Len(a)
      /\ AttemptsFit(a) /\ had \in Told /\ DenialsHeard(a, had.denied)
      /\ \A h \in had.acked : Noted(tx, h)
      /\ \A h \in had.hold \ had.denied : Among(tx, h)
  BY TxTypes DEF Kept
<1>2. sig \in Stored /\ sig.fees = fees /\ sig.raw /\ ~sig.rejected
  BY DEF Signature, Stored
<1>3. /\ m \in Seq(Stored) /\ Len(m) = Len(a)
      /\ \A i \in 1 .. Len(a) : /\ m[i].fees = a[i].fees /\ m[i].acceptedAt = a[i].acceptedAt
                                /\ m[i].rejected = a[i].rejected
                                /\ ~m[i].rejected => m[i].raw
      /\ IsFiniteSet(RawOf(m)) /\ Cardinality(RawOf(m)) < MAX_SIGNED_ATTEMPTS
  <2>1. \A i \in 1 .. Len(a) : ~a[i].rejected => a[i].raw
    BY <1>1 DEF AttemptsFit
  <2> QED
    BY <1>1, <2>1, RoomMade
<1> HIDE DEF m, sig
<1>4. /\ b \in Seq(Stored) /\ Len(b) = Len(a) + 1 /\ b[Len(a) + 1] = sig
      /\ \A i \in 1 .. Len(a) : b[i] = m[i]
  BY <1>2, <1>3, AppendProperties
<1> HIDE DEF b
<1>5. /\ n \in TxState /\ n.attempts = b /\ n.retired = tx.retired
      /\ n.retiredAccepted = tx.retiredAccepted
      /\ n.status = tx.status /\ n.walk = tx.walk /\ n.index = tx.index
  BY <1>4, ChangedAttempts
<1>6. n = [tx EXCEPT !.attempts = Append(makeRoom(@), Signature(fees))]
  BY DEF b, m, sig
<1> HIDE DEF n, a
<1>7. DOMAIN b = 1 .. Len(a) + 1 /\ DOMAIN m = 1 .. Len(a)
  BY <1>3, <1>4, LenProperties
<1>8. Cardinality(RawOf(b)) <= MAX_SIGNED_ATTEMPTS
  <2>1. RawOf(b) = RawOf(m) \cup {Len(a) + 1}
    <3>1. \A i \in 1 .. Len(a) + 1 : i = Len(a) + 1 \/ i \in 1 .. Len(a)
      BY <1>1
    <3>2. 1 .. Len(a) \subseteq 1 .. Len(a) + 1 /\ Len(a) + 1 \in 1 .. Len(a) + 1
      BY <1>1
    <3> QED
      BY <1>2, <1>4, <1>7, <3>1, <3>2 DEF RawOf
  <2>2. Cardinality(RawOf(m)) \in Nat
    BY <1>3, FS_CardinalityType
  <2>3. Cardinality(RawOf(b)) <= Cardinality(RawOf(m)) + 1
    <3>1. Cardinality(RawOf(b))
            = IF Len(a) + 1 \in RawOf(m) THEN Cardinality(RawOf(m)) ELSE Cardinality(RawOf(m)) + 1
      BY <1>3, <2>1, FS_AddElement
    <3> QED
      BY <2>2, <3>1
  <2>4. Cardinality(RawOf(b)) \in Nat
    BY <1>3, <2>1, FS_AddElement, FS_CardinalityType
  <2> QED
    BY <1>3, <2>2, <2>3, <2>4, LimitTypes
<1>9. \A i \in 1 .. Len(b) : (~b[i].rejected => b[i].raw) /\ UnderCap(b[i].fees)
  <2> TAKE i \in 1 .. Len(b)
  <2>1. i = Len(a) + 1 \/ i \in 1 .. Len(a)
    BY <1>1, <1>4
  <2>2. \A k \in 1 .. Len(a) : UnderCap(a[k].fees)
    BY <1>1 DEF AttemptsFit
  <2>3. \A k \in 1 .. Len(a) : UnderCap(m[k].fees)
    BY <1>3, <2>2
  <2> QED
    BY <1>2, <1>3, <1>4, <2>1, <2>3
<1>10. Len(b) <= MAX_STORED_ATTEMPTS
  BY <1>1, <1>4, LimitTypes DEF a
<1>11. Hashes(tx) \subseteq Hashes(n)
  <2>1. \A i \in 1 .. Len(a) : i \in DOMAIN n.attempts /\ n.attempts[i].fees = a[i].fees
    BY <1>1, <1>3, <1>4, <1>5, <1>7
  <2> QED
    BY <1>1, <1>5, <2>1 DEF Hashes, a
<1>12. ASSUME NEW h \in had.acked PROVE Noted(n, h)
  <2>1. \A i \in 1 .. Len(a) : /\ i \in 1 .. Len(n.attempts) /\ n.attempts[i].fees = a[i].fees
                               /\ n.attempts[i].acceptedAt = a[i].acceptedAt
    BY <1>1, <1>3, <1>4, <1>5
  <2>2. Noted(tx, h)
    BY <1>1
  <2> QED
    BY <1>5, <2>1, <2>2 DEF Noted, a
<1>13. ASSUME NEW h \in had.hold \ had.denied PROVE Among(n, h)
  <2>1. PICK i \in 1 .. Len(a) : a[i].fees = h
    BY <1>1 DEF Among, a
  <2> QED
    BY <1>1, <1>3, <1>4, <1>5, <2>1 DEF Among
<1>14. DenialsHeard(b, had.denied)
  <2> SUFFICES ASSUME NEW i \in 1 .. Len(b), b[i].rejected
               PROVE  b[i].fees \in had.denied
    BY DEF DenialsHeard
  <2>1. i \in 1 .. Len(a)
    BY <1>1, <1>2, <1>4
  <2> QED
    BY <1>1, <1>3, <1>4, <2>1 DEF DenialsHeard
<1> QED
  BY <1>1, <1>4, <1>5, <1>6, <1>8, <1>9, <1>10, <1>11, <1>12, <1>13, <1>14 DEF Kept, AttemptsFit, a

LEMMA NewestIs ==
  ASSUME NEW n \in Nat, NEW S \in SUBSET (1 .. n), S # {}
  PROVE  Newest(S) \in S /\ \A j \in S : j <= Newest(S)
<1> DEFINE T == {n - i : i \in S}
<1>1. T \in SUBSET Nat /\ T # {}
  <2>1. \A i \in S : n - i \in Nat
    OBVIOUS
  <2> QED
    BY <2>1
<1> HIDE DEF T
<1>2. Oldest(T) \in T /\ \A t \in T : Oldest(T) <= t
  BY <1>1, OldestIs
<1>3. PICK i \in S : Oldest(T) = n - i
  BY <1>2 DEF T
<1>4. \A j \in S : j <= i
  <2> TAKE j \in S
  <2>1. n - i <= n - j
    BY <1>2, <1>3 DEF T
  <2>2. i \in 1 .. n /\ j \in 1 .. n
    OBVIOUS
  <2> QED
    BY <2>1, <2>2
<1> QED
  BY <1>4 DEF Newest

LEMMA HighestIs ==
  ASSUME NEW tx \in TxState, NEW S \in SUBSET (1 .. Len(tx.attempts)), S # {},
         AttemptsFit(tx.attempts)
  PROVE  Highest(tx, S) \in S
<1> DEFINE f(i) == tx.attempts[i].fees.maxFeePerGas
           p(i) == tx.attempts[i].fees.maxPriorityFeePerGas
           F == Cap.maxFeePerGas
           P == Cap.maxPriorityFeePerGas
<1>1. \A i \in S : f(i) \in Nat /\ p(i) \in Nat /\ F - f(i) \in Nat /\ P - p(i) \in Nat
  <2>1. F \in Nat /\ P \in Nat
    BY LimitTypes DEF Fee
  <2> TAKE i \in S
  <2>2. f(i) \in Nat /\ p(i) \in Nat
    BY TxTypes DEF Fee
  <2>3. f(i) <= F /\ p(i) <= P
    BY DEF AttemptsFit, UnderCap
  <2> QED
    BY <2>1, <2>2, <2>3
<1>2. F \in Nat /\ P \in Nat
  BY LimitTypes DEF Fee
<1> HIDE DEF f, p, F, P
<1> DEFINE T == {F - f(i) : i \in S}
<1>3. T \in SUBSET Nat /\ T # {}
  BY <1>1
<1> HIDE DEF T
<1>4. Oldest(T) \in T /\ \A t \in T : Oldest(T) <= t
  BY <1>3, OldestIs
<1>5. PICK m \in S : Oldest(T) = F - f(m)
  BY <1>4 DEF T
<1>6. \A j \in S : f(j) <= f(m)
  <2> TAKE j \in S
  <2>1. F - f(m) <= F - f(j)
    BY <1>4, <1>5 DEF T
  <2> QED
    BY <1>1, <1>2, <2>1, SMTT(60)
<1> DEFINE Q == {i \in S : f(i) = f(m)}
           U == {P - p(i) : i \in Q}
<1>7. U \in SUBSET Nat /\ U # {}
  BY <1>1
<1> HIDE DEF U
<1>8. Oldest(U) \in U /\ \A t \in U : Oldest(U) <= t
  BY <1>7, OldestIs
<1>9. PICK k \in Q : Oldest(U) = P - p(k)
  BY <1>8 DEF U
<1>10. \A j \in Q : p(j) <= p(k)
  <2> TAKE j \in Q
  <2>1. P - p(k) <= P - p(j)
    BY <1>8, <1>9 DEF U
  <2> QED
    BY <1>1, <1>2, <2>1, SMTT(60)
<1>11. \A j \in S : f(k) > f(j) \/ (f(k) = f(j) /\ p(k) >= p(j))
  <2> TAKE j \in S
  <2>1. CASE f(j) = f(m)
    <3>1. p(j) <= p(k) /\ f(k) = f(m) /\ k \in S
      BY <1>9, <1>10, <2>1
    <3> QED
      BY <1>1, <2>1, <3>1
  <2>2. CASE f(j) # f(m)
    <3>1. f(j) <= f(m) /\ f(k) = f(m)
      BY <1>6, <1>9
    <3> QED
      BY <1>1, <2>2, <3>1
  <2> QED
    BY <2>1, <2>2
<1>12. k \in S
  BY <1>9
<1> QED
  BY <1>11, <1>12 DEF Highest, f, p

\* No room is made, or a signature is stored and then sent.
LEMMA SignNewKept ==
  ASSUME Kept(record, nodes), NEW fees \in Fee, UnderCap(fees),
         Cardinality(UnrefusedOf(record.attempts)) < MAX_SIGNED_ATTEMPTS,
         SignNew(record, fees), UNCHANGED nodes
  PROVE  /\ Kept(record', nodes')
         /\ record'.status = record.status
         /\ record'.walk = record.walk /\ record'.index = record.index
         /\ \/ record' = record /\ sweep' = NotSweeping
            \/ Len(record'.attempts) # 0 /\ sweep' = [sweep EXCEPT !.pc = "send"]
<1> DEFINE a == record.attempts
           gone == dropIndex(record)
           signed(kept) == [kept EXCEPT !.attempts = Append(makeRoom(@), Signature(fees))]
           send == sweep' = [sweep EXCEPT !.pc = "send"]
<1>1. /\ record \in TxState /\ Len(a) \in Nat /\ DOMAIN a = 1 .. Len(a)
      /\ Len(a) <= MAX_STORED_ATTEMPTS
  BY TxTypes DEF Kept, AttemptsFit
<1>2. CASE record' = record /\ sweep' = NotSweeping
  BY <1>2
<1>3. CASE Len(a) < MAX_STORED_ATTEMPTS /\ record' = signed(record) /\ send
  <2> DEFINE m == signed(record)
  <2>1. /\ Kept(m, nodes) /\ Len(m.attempts) = Len(a) + 1 /\ m.status = record.status
        /\ m.walk = record.walk /\ m.index = record.index
    BY <1>1, <1>3, SignedKept
  <2>2. record' = m
    BY <1>3
  <2> HIDE DEF m
  <2>3. Len(record'.attempts) # 0 /\ send
    BY <1>1, <1>3, <2>1, <2>2
  <2>4. Kept(record', nodes')
    BY <2>1, <2>2
  <2> QED
    BY <2>1, <2>2, <2>3, <2>4
<1>4. ASSUME NEW i \in gone, Len(record.retired) < MAX_RETIRED_HASHES,
             record' = signed(Dropped(record, i)), send
      PROVE  /\ Kept(record', nodes')
             /\ record'.status = record.status
             /\ record'.walk = record.walk /\ record'.index = record.index
             /\ Len(record'.attempts) # 0
  <2>1. i \in 1 .. Len(a) /\ a[i].rejected
    <3> DEFINE from == IF {k \in Rejected(record) : ~a[k].raw} # {}
                       THEN {k \in Rejected(record) : ~a[k].raw} ELSE Rejected(record)
    <3>1. /\ from \in SUBSET (1 .. Len(a)) /\ from # {} /\ i = Oldest(from)
          /\ \A k \in from : a[k].rejected
      BY <1>1, <1>4 DEF dropIndex, Rejected
    <3> HIDE DEF from
    <3>2. from \in SUBSET Nat
      BY <3>1
    <3> QED
      BY <3>1, <3>2, OldestIs
  <2> DEFINE d == Dropped(record, i)
             m == signed(d)
  <2>2. /\ Kept(d, nodes) /\ Len(d.attempts) = Len(a) - 1
        /\ Cardinality(UnrefusedOf(d.attempts)) <= Cardinality(UnrefusedOf(a))
        /\ Cardinality(UnrefusedOf(d.attempts)) \in Nat /\ Cardinality(UnrefusedOf(a)) \in Nat
        /\ d.status = record.status /\ d.walk = record.walk /\ d.index = record.index
    BY <1>1, <1>4, <2>1, DroppedKept
  <2> HIDE DEF d
  <2>3. /\ d \in TxState /\ Len(d.attempts) < MAX_STORED_ATTEMPTS
        /\ Cardinality(UnrefusedOf(d.attempts)) < MAX_SIGNED_ATTEMPTS
    BY <1>1, <2>2, LimitTypes DEF Kept
  <2>4. /\ Kept(m, nodes) /\ Len(m.attempts) = Len(d.attempts) + 1 /\ m.status = d.status
        /\ m.walk = d.walk /\ m.index = d.index
    BY <2>2, <2>3, SignedKept
  <2>5. record' = m
    BY <1>4 DEF d
  <2>6. Len(d.attempts) \in Nat
    BY <2>3, TxTypes
  <2> HIDE DEF m
  <2> QED
    BY <2>2, <2>4, <2>5, <2>6
<1>5. \/ record' = record /\ sweep' = NotSweeping
      \/ Len(a) < MAX_STORED_ATTEMPTS /\ record' = signed(record) /\ send
      \/ \E i \in gone : /\ Len(record.retired) < MAX_RETIRED_HASHES
                         /\ record' = signed(Dropped(record, i)) /\ send
  <2>1. Len(record.retired) \in Nat
    <3>1. record.retired \in Seq(Fee)
      BY <1>1, TxTypes
    <3> QED
      BY <3>1, LenProperties
  <2> QED
    BY <1>1, <2>1, LimitTypes DEF SignNew, Ended, Goes
<1> QED
  BY <1>2, <1>3, <1>4, <1>5

(***************************************************************************)
(* The hashes that a walk asks for                                         *)
(***************************************************************************)
LEMMA ReverseIs ==
  ASSUME NEW S, NEW s \in Seq(S)
  PROVE  /\ Reverse(s) \in Seq(S) /\ Len(Reverse(s)) = Len(s)
         /\ \A j \in 1 .. Len(s) : /\ Reverse(s)[j] = s[(Len(s) - j) + 1]
                                   /\ (Len(s) - j) + 1 \in 1 .. Len(s)
<1> DEFINE b == Reverse(s)
<1>1. Len(s) \in Nat /\ \A i \in 1 .. Len(s) : s[i] \in S
  BY LenProperties, ElementOfSeq
<1>2. \A j \in 1 .. Len(s) : (Len(s) - j) + 1 \in 1 .. Len(s)
  BY <1>1
<1>3. b = [j \in 1 .. Len(s) |-> s[(Len(s) - j) + 1]]
  BY DEF Reverse
<1> HIDE DEF b
<1>4. b \in [1 .. Len(s) -> S]
  BY <1>1, <1>2, <1>3
<1>5. b \in Seq(S) /\ Len(b) = Len(s)
  BY <1>1, <1>4, FunctionIsSeq
<1>6. \A j \in 1 .. Len(s) : b[j] = s[(Len(s) - j) + 1]
  BY <1>3
<1> QED
  BY <1>2, <1>5, <1>6 DEF b

LEMMA NewestFirstIs ==
  ASSUME NEW tx \in TxState
  PROVE  LET L == Len(tx.attempts)
             N == NewestFirst(tx)
         IN /\ N \in Seq(Fee) /\ Len(N) = L
            /\ \A j \in 1 .. L : N[j] = tx.attempts[(L - j) + 1].fees
            /\ \A i \in 1 .. L : (L - i) + 1 \in 1 .. L /\ N[(L - i) + 1] = tx.attempts[i].fees
<1> DEFINE L == Len(tx.attempts)
           N == NewestFirst(tx)
           f == [i \in DOMAIN tx.attempts |-> tx.attempts[i].fees]
<1>1. /\ DOMAIN tx.attempts = 1 .. L /\ L \in Nat
      /\ \A i \in 1 .. L : tx.attempts[i].fees \in Fee
  BY TxTypes
<1>2. f \in [1 .. L -> Fee] /\ \A i \in 1 .. L : f[i] = tx.attempts[i].fees
  BY <1>1
<1>3. N = Reverse(f)
  BY DEF NewestFirst
<1> HIDE DEF f, N, L
<1>4. f \in Seq(Fee) /\ Len(f) = L
  BY <1>1, <1>2, FunctionIsSeq
<1>5. /\ N \in Seq(Fee) /\ Len(N) = L
      /\ \A j \in 1 .. L : N[j] = f[(L - j) + 1] /\ (L - j) + 1 \in 1 .. L
  BY <1>3, <1>4, ReverseIs
<1>6. \A j \in 1 .. L : N[j] = tx.attempts[(L - j) + 1].fees
  BY <1>2, <1>5
<1>7. ASSUME NEW i \in 1 .. L
      PROVE  (L - i) + 1 \in 1 .. L /\ N[(L - i) + 1] = tx.attempts[i].fees
  <2>1. (L - i) + 1 \in 1 .. L /\ (L - ((L - i) + 1)) + 1 = i
    BY <1>1
  <2> QED
    BY <1>6, <2>1
<1> QED
  BY <1>5, <1>6, <1>7 DEF N, L

\* Every hash of the row is asked for, the stored attempts first.
LEMMA ReceiptHashesIs ==
  ASSUME NEW tx \in TxState
  PROVE  LET L == Len(tx.attempts)
             N == NewestFirst(tx)
             R == receiptHashes(tx)
         IN /\ R \in Seq(Fee) /\ Len(R) \in Nat /\ L \in Nat /\ L <= Len(R)
            /\ \A j \in 1 .. L : j \in 1 .. Len(R) /\ R[j] = N[j]
            /\ \A h \in Hashes(tx) : \E j \in 1 .. Len(R) : R[j] = h
<1> DEFINE L == Len(tx.attempts)
           N == NewestFirst(tx)
           R == receiptHashes(tx)
           r == tx.retired
           B == Reverse(r)
           K == Len(r)
<1>1. /\ r \in Seq(Fee) /\ DOMAIN tx.attempts = 1 .. L /\ L \in Nat
  BY TxTypes
<1>2. /\ N \in Seq(Fee) /\ Len(N) = L
      /\ \A i \in 1 .. L : (L - i) + 1 \in 1 .. L /\ N[(L - i) + 1] = tx.attempts[i].fees
  BY NewestFirstIs
<1>3. K \in Nat /\ DOMAIN r = 1 .. K
  BY <1>1, LenProperties
<1>4. /\ B \in Seq(Fee) /\ Len(B) = K
      /\ \A j \in 1 .. K : B[j] = r[(K - j) + 1] /\ (K - j) + 1 \in 1 .. K
  BY <1>1, ReverseIs
<1>5. R = N \o B
  BY DEF receiptHashes
<1>6. Hashes(tx) = {tx.attempts[i].fees : i \in 1 .. L} \cup ToSet(r)
  BY <1>1 DEF Hashes
<1> HIDE DEF N, R, B, L, K, r
<1>7. /\ R \in Seq(Fee) /\ Len(R) = L + K
      /\ \A j \in 1 .. L + K : R[j] = IF j <= L THEN N[j] ELSE B[j - L]
  <2>1. /\ N \o B \in Seq(Fee) /\ Len(N \o B) = Len(N) + Len(B)
        /\ \A j \in 1 .. Len(N) + Len(B) : (N \o B)[j] = IF j <= Len(N) THEN N[j] ELSE B[j - Len(N)]
    <3>1. N \in Seq(Fee) /\ B \in Seq(Fee)
      BY <1>2, <1>4
    <3> QED
      BY <3>1, ConcatProperties
  <2> QED
    BY <1>2, <1>4, <1>5, <2>1
<1>8. \A j \in 1 .. L : j \in 1 .. Len(R) /\ R[j] = N[j]
  <2> TAKE j \in 1 .. L
  <2>1. j \in 1 .. L + K /\ j <= L
    BY <1>1, <1>3
  <2> QED
    BY <1>7, <2>1
<1>9. \A i \in 1 .. L : \E j \in 1 .. Len(R) : R[j] = tx.attempts[i].fees
  <2> TAKE i \in 1 .. L
  <2>1. (L - i) + 1 \in 1 .. L /\ N[(L - i) + 1] = tx.attempts[i].fees
    BY <1>2
  <2>2. (L - i) + 1 \in 1 .. Len(R) /\ R[(L - i) + 1] = tx.attempts[i].fees
    BY <1>8, <2>1
  <2> QED
    BY <2>2
<1>10. \A h \in ToSet(r) : \E j \in 1 .. Len(R) : R[j] = h
  <2> TAKE h \in ToSet(r)
  <2>1. PICK i \in 1 .. K : r[i] = h
    BY <1>3 DEF ToSet
  <2>2. (K - i) + 1 \in 1 .. K /\ (K - ((K - i) + 1)) + 1 = i
    BY <1>3
  <2>3. B[(K - i) + 1] = h
    BY <1>4, <2>1, <2>2
  <2>4. /\ L + ((K - i) + 1) \in 1 .. L + K /\ ~(L + ((K - i) + 1) <= L)
        /\ (L + ((K - i) + 1)) - L = (K - i) + 1
    BY <1>1, <1>3
  <2> QED
    BY <1>7, <2>3, <2>4
<1>11. Len(R) \in Nat /\ L <= Len(R)
  BY <1>1, <1>3, <1>7
<1>12. \A h \in Hashes(tx) : \E j \in 1 .. Len(R) : R[j] = h
  BY <1>6, <1>9, <1>10
<1> QED
  BY <1>1, <1>7, <1>8, <1>11, <1>12 DEF L, N, R

LEMMA AsksIs ==
  ASSUME NEW tx \in TxState, NEW from \in Nat
  PROVE  LET L == Len(tx.attempts)
             N == NewestFirst(tx)
             R == receiptHashes(tx)
             A == Asks(tx, from)
         IN /\ A \in Seq(Fee) /\ Len(A) = (IF from > 0 THEN Len(R) + L ELSE Len(R))
            /\ \A j \in 1 .. Len(R) : j \in 1 .. Len(A) /\ A[j] = R[j]
            /\ from > 0 => \A j \in 1 .. L : Len(R) + j \in 1 .. Len(A) /\ A[Len(R) + j] = N[j]
<1> DEFINE L == Len(tx.attempts)
           N == NewestFirst(tx)
           R == receiptHashes(tx)
           A == Asks(tx, from)
<1>1. N \in Seq(Fee) /\ Len(N) = L /\ R \in Seq(Fee) /\ Len(R) \in Nat /\ L \in Nat
  BY NewestFirstIs, ReceiptHashesIs
<1>2. A = R \o (IF from > 0 THEN N ELSE << >>)
  BY DEF Asks
<1> HIDE DEF N, R, A, L
<1>3. CASE from > 0
  <2>1. /\ A \in Seq(Fee) /\ Len(A) = Len(R) + L
        /\ \A j \in 1 .. Len(R) + L : A[j] = IF j <= Len(R) THEN R[j] ELSE N[j - Len(R)]
    BY <1>1, <1>2, <1>3, ConcatProperties
  <2>2. \A j \in 1 .. Len(R) : j \in 1 .. Len(A) /\ A[j] = R[j]
    BY <1>1, <2>1
  <2>3. \A j \in 1 .. L : Len(R) + j \in 1 .. Len(A) /\ A[Len(R) + j] = N[j]
    <3> TAKE j \in 1 .. L
    <3>1. /\ Len(R) + j \in 1 .. Len(R) + L /\ ~(Len(R) + j <= Len(R))
          /\ (Len(R) + j) - Len(R) = j
      BY <1>1
    <3> QED
      BY <2>1, <3>1
  <2> QED
    BY <1>3, <2>1, <2>2, <2>3 DEF A, N, R, L
<1>4. CASE ~(from > 0)
  <2>1. A = R \o << >>
    BY <1>2, <1>4
  <2>2. A = R
    BY <1>1, <2>1, EmptySeq, ConcatEmptySeq
  <2> QED
    BY <1>1, <1>4, <2>2 DEF A, N, R, L
<1> QED
  BY <1>3, <1>4

(***************************************************************************)
(* The inductive invariant                                                 *)
(***************************************************************************)
\* A walk over all nodes that began at from and has come to index has not met
\* hash on its way, if all nodes knew its block before (every), or before it
\* turned to the stored attempts for the last time (again).
Clear(tx, from, index, hash, every, again) ==
  LET L == Len(tx.attempts)
      N == NewestFirst(tx)
      R == receiptHashes(tx)
  IN /\ every => \A j \in 1 .. Len(R) : j <= index => R[j] # hash
     /\ again /\ from > 0 => \A j \in 1 .. L : Len(R) + j <= index => N[j] # hash
     /\ again /\ from = 0 => \A j \in 1 .. L : j <= index => N[j] # hash

\* The row that a sweep works on is under way, and has a signature.
SweepFits ==
  /\ sweep.pc # "idle" => record.status = "submitted"
  /\ Len(record.attempts) # 0
  /\ sweep.pc \in {"act", "send"} => record.walk = "none"

\* Nodes know of a block when there is one.
KnownFits ==
  /\ known = "none" <=> onChain = NoHash
  /\ walkKnown \/ checkKnown => known = "all"

\* All nodes are asked once the wait is over, and a stored place is one that
\* the walk had come to.
WalkFits ==
  /\ record.walk = "all-urls" =>
       ripe /\ Clear(record, record.index, record.index, onChain, walkKnown, checkKnown)
  /\ sweep.pc \in {"walk", "nonce"} /\ sweep.walk = "all-urls" =>
       ripe /\ Clear(record, sweep.from, sweep.index, onChain, walkKnown, checkKnown)

AttemptsInv ==
  /\ AttemptsTypeOK /\ Kept(record, nodes) /\ SweepFits /\ KnownFits /\ WalkFits
  /\ RefusedUnheard /\ OutsideUnknown

LEMMA ClearSame ==
  ASSUME NEW tx \in TxState, NEW next \in TxState, SameList(tx, next), NEW from, NEW index,
         NEW hash, NEW every, NEW again, Clear(tx, from, index, hash, every, again)
  PROVE  Clear(next, from, index, hash, every, again)
<1>1. receiptHashes(next) = receiptHashes(tx) /\ NewestFirst(next) = NewestFirst(tx)
  BY SameLists
<1>2. Len(next.attempts) = Len(tx.attempts)
  BY DEF SameList
<1> QED
  BY <1>1, <1>2 DEF Clear

LEMMA ClearUnknown ==
  ASSUME NEW tx, NEW from, NEW index, NEW hash
  PROVE  Clear(tx, from, index, hash, FALSE, FALSE)
BY DEF Clear

\* A walk that goes on from its place keeps what it knew, and learns at its start.
LEMMA ClearAtStart ==
  ASSUME NEW tx \in TxState, NEW index \in Nat, NEW hash,
         NEW every \in BOOLEAN, NEW again \in BOOLEAN, NEW every1 \in BOOLEAN, NEW again1 \in BOOLEAN,
         index = 0 \/ (every1 => every), index <= Len(receiptHashes(tx)) \/ (again1 => again),
         index = 0 \/ Clear(tx, index, index, hash, every, again)
  PROVE  Clear(tx, index, index, hash, every1, again1)
<1> DEFINE L == Len(tx.attempts)
           N == NewestFirst(tx)
           R == receiptHashes(tx)
<1>1. L \in Nat /\ Len(R) \in Nat
  BY ReceiptHashesIs
<1>2. every1 => \A j \in 1 .. Len(R) : j <= index => R[j] # hash
  <2>1. CASE index = 0
    BY <1>1, <2>1
  <2>2. CASE index # 0
    BY <2>2 DEF Clear
  <2> QED
    BY <2>1, <2>2
<1>3. again1 /\ index > 0 => \A j \in 1 .. L : Len(R) + j <= index => N[j] # hash
  <2>1. CASE index <= Len(R)
    <3>1. \A j \in 1 .. L : ~(Len(R) + j <= index)
      BY <1>1, <2>1
    <3> QED
      BY <3>1
  <2>2. CASE ~(index <= Len(R)) /\ index > 0
    <3>1. index # 0
      BY <2>2
    <3> QED
      BY <2>2, <3>1 DEF Clear
  <2> QED
    BY <2>1, <2>2
<1>4. again1 /\ index = 0 => \A j \in 1 .. L : j <= index => N[j] # hash
  BY <1>1
<1> QED
  BY <1>2, <1>3, <1>4 DEF Clear

\* A node had no receipt of the next hash.
LEMMA ClearNext ==
  ASSUME NEW tx \in TxState, NEW from \in Nat, NEW index \in Nat, NEW hash,
         NEW every \in BOOLEAN, NEW again \in BOOLEAN, Clear(tx, from, index, hash, every, again),
         (every \/ again) => Asks(tx, from)[index + 1] # hash
  PROVE  Clear(tx, from, index + 1, hash, every, again)
<1> DEFINE L == Len(tx.attempts)
           N == NewestFirst(tx)
           R == receiptHashes(tx)
           A == Asks(tx, from)
<1>1. /\ L \in Nat /\ Len(R) \in Nat
      /\ \A j \in 1 .. L : j \in 1 .. Len(R) /\ R[j] = N[j]
  BY ReceiptHashesIs
<1>2. /\ \A j \in 1 .. Len(R) : A[j] = R[j]
      /\ from > 0 => \A j \in 1 .. L : A[Len(R) + j] = N[j]
  BY AsksIs
<1>3. /\ every => \A j \in 1 .. Len(R) : j <= index => R[j] # hash
      /\ again /\ from > 0 => \A j \in 1 .. L : Len(R) + j <= index => N[j] # hash
      /\ again /\ from = 0 => \A j \in 1 .. L : j <= index => N[j] # hash
  BY DEF Clear
<1>4. (every \/ again) => A[index + 1] # hash
  OBVIOUS
<1> HIDE DEF L, N, R, A
<1>5. ASSUME every, NEW j \in 1 .. Len(R), j <= index + 1 PROVE R[j] # hash
  <2>1. j <= index \/ j = index + 1
    BY <1>5
  <2> QED
    BY <1>2, <1>3, <1>4, <1>5, <2>1
<1>6. ASSUME again, from > 0, NEW j \in 1 .. L, Len(R) + j <= index + 1 PROVE N[j] # hash
  <2>1. Len(R) + j <= index \/ Len(R) + j = index + 1
    BY <1>1, <1>6
  <2> QED
    BY <1>2, <1>3, <1>4, <1>6, <2>1
<1>7. ASSUME again, from = 0, NEW j \in 1 .. L, j <= index + 1 PROVE N[j] # hash
  <2>1. j <= index \/ j = index + 1
    BY <1>7
  <2>2. A[j] = N[j]
    BY <1>1, <1>2
  <2> QED
    BY <1>3, <1>4, <1>7, <2>1, <2>2
<1> QED
  BY <1>5, <1>6, <1>7 DEF Clear, L, N, R

\* The place at which a walk stops says as much as the walk did.
LEMMA ClearStop ==
  ASSUME NEW tx \in TxState, NEW from \in Nat, NEW index \in Nat, NEW hash,
         NEW every \in BOOLEAN, NEW again \in BOOLEAN, Clear(tx, from, index, hash, every, again),
         index < Len(Asks(tx, from))
  PROVE  Clear(tx, index, index, hash, every, again)
<1> DEFINE L == Len(tx.attempts)
           N == NewestFirst(tx)
           R == receiptHashes(tx)
<1>1. L \in Nat /\ Len(R) \in Nat
  BY ReceiptHashesIs
<1>2. Len(Asks(tx, from)) = IF from > 0 THEN Len(R) + L ELSE Len(R)
  BY AsksIs
<1>3. CASE from > 0
  <2>1. /\ every => \A j \in 1 .. Len(R) : j <= index => R[j] # hash
        /\ again => \A j \in 1 .. L : Len(R) + j <= index => N[j] # hash
    BY <1>3 DEF Clear
  <2>2. index = 0 => \A j \in 1 .. L : ~(j <= index)
    BY <1>1
  <2> QED
    BY <2>1, <2>2 DEF Clear
<1>4. CASE from = 0
  <2>1. every => \A j \in 1 .. Len(R) : j <= index => R[j] # hash
    BY DEF Clear
  <2>2. \A j \in 1 .. L : ~(Len(R) + j <= index)
    BY <1>1, <1>2, <1>4
  <2>3. index = 0 => \A j \in 1 .. L : ~(j <= index)
    BY <1>1
  <2> QED
    BY <2>1, <2>2, <2>3 DEF Clear
<1> QED
  BY <1>3, <1>4

\* A walk that came to its end has asked for everything.
LEMMA ClearEnd ==
  ASSUME NEW tx \in TxState, NEW from \in Nat, NEW index \in Nat, NEW hash,
         NEW every \in BOOLEAN, NEW again \in BOOLEAN, Clear(tx, from, index, hash, every, again),
         index >= Len(Asks(tx, from))
  PROVE  /\ every => hash \notin Hashes(tx)
         /\ again => \A i \in DOMAIN tx.attempts : tx.attempts[i].fees # hash
<1> DEFINE L == Len(tx.attempts)
           N == NewestFirst(tx)
           R == receiptHashes(tx)
<1>1. /\ L \in Nat /\ Len(R) \in Nat /\ L <= Len(R)
      /\ \A h \in Hashes(tx) : \E j \in 1 .. Len(R) : R[j] = h
  BY ReceiptHashesIs
<1>2. Len(Asks(tx, from)) = IF from > 0 THEN Len(R) + L ELSE Len(R)
  BY AsksIs
<1>3. DOMAIN tx.attempts = 1 .. L
      /\ \A i \in 1 .. L : (L - i) + 1 \in 1 .. L /\ N[(L - i) + 1] = tx.attempts[i].fees
  BY TxTypes, NewestFirstIs
<1>4. /\ every => \A j \in 1 .. Len(R) : j <= index => R[j] # hash
      /\ again /\ from > 0 => \A j \in 1 .. L : Len(R) + j <= index => N[j] # hash
      /\ again /\ from = 0 => \A j \in 1 .. L : j <= index => N[j] # hash
  BY DEF Clear
<1>5. index >= IF from > 0 THEN Len(R) + L ELSE Len(R)
  BY <1>2
<1> HIDE DEF L, N, R
<1>6. \A j \in 1 .. Len(R) : j <= index
  BY <1>1, <1>5
<1>7. \A j \in 1 .. L : j <= index /\ (from > 0 => Len(R) + j <= index)
  BY <1>1, <1>5
<1>8. again => \A j \in 1 .. L : N[j] # hash
  <2>1. from > 0 \/ from = 0
    OBVIOUS
  <2> QED
    BY <1>4, <1>7, <2>1
<1> QED
  BY <1>1, <1>3, <1>4, <1>6, <1>8 DEF L

\* Fees that are clamped are under the cap; so are those of a replacement.
LEMMA ClampedUnder ==
  ASSUME NEW q \in Fee
  PROVE  clampFees(q, Cap) \in Fee /\ UnderCap(clampFees(q, Cap))
BY LimitTypes, ClampedIsPayable DEF Payable, UnderCap

LEMMA BumpedUnder ==
  ASSUME NEW old \in Fee, NEW q \in Fee
  PROVE  bumpFees(old, q, Cap).fees \in Fee /\ UnderCap(bumpFees(old, q, Cap).fees)
<1>1. bumpFees(old, q, Cap).fees = clampFees(Wanted(old, q), Cap)
  BY LimitTypes, BumpIs
<1> QED
  BY <1>1, WantedType, ClampedUnder

LEMMA InvFacts ==
  ASSUME AttemptsInv
  PROVE  /\ record \in TxState /\ record.attempts \in Seq(Stored) /\ record.retired \in Seq(Fee)
         /\ Len(record.attempts) \in Nat \ {0} /\ record.index \in Nat
         /\ DOMAIN record.attempts = 1 .. Len(record.attempts)
         /\ \A i \in 1 .. Len(record.attempts) :
              record.attempts[i] \in Stored /\ record.attempts[i].fees \in Fee
         /\ sweep \in Sweep /\ sweep.from \in Nat /\ sweep.index \in Nat
         /\ walkKnown \in BOOLEAN /\ checkKnown \in BOOLEAN /\ ripe \in BOOLEAN
         /\ onChain \in Fee \cup {NoHash, Outside} /\ known \in {"none", "some", "all"}
         /\ blocks \in Nat /\ nodes \in Told /\ nodes.hold \subseteq Fee
         /\ Kept(record, nodes) /\ SweepFits /\ KnownFits /\ WalkFits
<1>1. record \in TxState /\ sweep \in Sweep /\ AttemptsTypeOK
  BY DEF AttemptsInv, AttemptsTypeOK
<1>2. sweep.from \in Nat /\ sweep.index \in Nat
  BY <1>1 DEF Sweep
<1>3. Len(record.attempts) # 0 /\ Kept(record, nodes) /\ SweepFits /\ KnownFits /\ WalkFits
  BY DEF AttemptsInv, SweepFits
<1>4. nodes.hold \subseteq Fee
  BY <1>1 DEF AttemptsTypeOK, Told
<1> QED
  BY <1>1, <1>2, <1>3, <1>4, TxTypes DEF AttemptsTypeOK

LEMMA HashesAreFees ==
  ASSUME NEW tx \in TxState
  PROVE  Hashes(tx) \subseteq Fee
<1>1. tx.retired \in Seq(Fee) /\ DOMAIN tx.attempts = 1 .. Len(tx.attempts)
      /\ \A i \in 1 .. Len(tx.attempts) : tx.attempts[i].fees \in Fee
  BY TxTypes
<1>2. ToSet(tx.retired) \subseteq Fee
  <2>1. DOMAIN tx.retired = 1 .. Len(tx.retired) /\ \A i \in 1 .. Len(tx.retired) : tx.retired[i] \in Fee
    BY <1>1, LenProperties, ElementOfSeq
  <2> QED
    BY <2>1 DEF ToSet
<1> QED
  BY <1>1, <1>2 DEF Hashes

LEMMA NotSweepingIs == NotSweeping \in Sweep /\ NotSweeping.pc = "idle"
BY DEF NotSweeping, Sweep, Walks

\* The sweep is over or about to send, and the row has the walk that it had.
LEMMA RowSame ==
  ASSUME AttemptsInv, Kept(record', nodes'), SameList(record, record'),
         record'.walk = record.walk, record'.index = record.index,
         record'.status = "outside" => UNCHANGED record,
         record'.status = "refused" => NeverHeard(nodes'),
         UNCHANGED ripe, UNCHANGED chainState, UNCHANGED knowledge,
         sweep' \in Sweep, sweep'.pc = "idle"
  PROVE  AttemptsInv'
<1>1. record' \in TxState /\ nodes' \in Told
  BY DEF Kept
<1>2. AttemptsTypeOK'
  BY <1>1, InvFacts DEF AttemptsTypeOK, chainState, knowledge
<1>3. SweepFits'
  BY InvFacts DEF SweepFits, SameList
<1>4. KnownFits'
  BY InvFacts DEF KnownFits, chainState, knowledge
<1>5. WalkFits'
  <2>1. ASSUME record'.walk = "all-urls"
        PROVE  ripe' /\ Clear(record', record'.index, record'.index, onChain', walkKnown', checkKnown')
    <3>1. ripe /\ Clear(record, record.index, record.index, onChain, walkKnown, checkKnown)
      BY <2>1, InvFacts DEF WalkFits
    <3>2. Clear(record', record.index, record.index, onChain, walkKnown, checkKnown)
      BY <1>1, <3>1, InvFacts, ClearSame
    <3> QED
      BY <3>1, <3>2 DEF chainState, knowledge
  <2> QED
    BY <2>1 DEF WalkFits
<1>6. RefusedUnheard'
  BY DEF RefusedUnheard, NeverHeard
<1>7. OutsideUnknown'
  BY DEF AttemptsInv, OutsideUnknown, chainState, knowledge
<1> QED
  BY <1>2, <1>3, <1>4, <1>5, <1>6, <1>7 DEF AttemptsInv

\* The row has no walk to go on with.
LEMMA RowRests ==
  ASSUME AttemptsInv, Kept(record', nodes'), Len(record'.attempts) # 0, record'.walk = "none",
         sweep' \in Sweep, sweep'.pc \in {"idle", "act", "send"},
         sweep'.pc # "idle" => record'.status = "submitted",
         ripe' \in BOOLEAN, UNCHANGED chainState, UNCHANGED knowledge, RefusedUnheard', OutsideUnknown'
  PROVE  AttemptsInv'
<1>1. record' \in TxState /\ nodes' \in Told
  BY DEF Kept
<1>2. AttemptsTypeOK'
  BY <1>1, InvFacts DEF AttemptsTypeOK, chainState, knowledge
<1>3. SweepFits'
  BY DEF SweepFits
<1>4. KnownFits'
  BY InvFacts DEF KnownFits, chainState, knowledge
<1>5. WalkFits'
  BY DEF WalkFits
<1> QED
  BY <1>2, <1>3, <1>4, <1>5 DEF AttemptsInv

\* The sweep moves on over the row, and may learn what nodes know.
LEMMA SweepMoves ==
  ASSUME AttemptsInv, record.status = "submitted",
         UNCHANGED record, UNCHANGED ripe, UNCHANGED nodes, UNCHANGED chainState,
         sweep' \in Sweep, sweep'.pc \in {"walk", "nonce"},
         walkKnown' \in BOOLEAN, checkKnown' \in BOOLEAN, walkKnown' \/ checkKnown' => known = "all",
         record.walk = "all-urls" =>
           Clear(record, record.index, record.index, onChain, walkKnown', checkKnown'),
         sweep'.walk = "all-urls" =>
           ripe /\ Clear(record, sweep'.from, sweep'.index, onChain, walkKnown', checkKnown')
  PROVE  AttemptsInv'
<1>1. AttemptsTypeOK'
  BY InvFacts DEF AttemptsTypeOK, chainState
<1>2. SweepFits' /\ Kept(record, nodes)'
  BY InvFacts DEF SweepFits
<1>3. KnownFits'
  BY InvFacts DEF KnownFits, chainState
<1>4. WalkFits'
  BY InvFacts DEF WalkFits, chainState
<1>5. RefusedUnheard' /\ OutsideUnknown'
  BY DEF RefusedUnheard, OutsideUnknown
<1> QED
  BY <1>1, <1>2, <1>3, <1>4, <1>5 DEF AttemptsInv

LEMMA AttemptsInvInit == AttemptsInit => AttemptsInv
<1> SUFFICES ASSUME AttemptsInit PROVE AttemptsInv
  OBVIOUS
<1>1. PICK q \in Quotes, sent, heard \in BOOLEAN :
        LET first == [Signature(clampFees(q, Cap)) EXCEPT !.acceptedAt = heard]
            hash(said) == IF said THEN {first.fees} ELSE {}
        IN /\ record = [status |-> "submitted", attempts |-> <<first>>, retired |-> << >>,
                        retiredAccepted |-> FALSE, nonceUsed |-> FALSE, walk |-> "none", index |-> 0,
                        minedHash |-> NoHash]
           /\ nodes = [hold |-> hash(sent), acked |-> hash(heard), denied |-> {}]
  BY DEF AttemptsInit
<1> DEFINE fees == clampFees(q, Cap)
           first == [Signature(fees) EXCEPT !.acceptedAt = heard]
           a == <<first>>
<1>2. fees \in Fee /\ UnderCap(fees)
  <2>1. q \in Fee
    BY AttemptsAssumption
  <2> QED
    BY <2>1, ClampedUnder
<1>3. /\ record = [status |-> "submitted", attempts |-> a, retired |-> << >>,
                   retiredAccepted |-> FALSE, nonceUsed |-> FALSE, walk |-> "none", index |-> 0,
                   minedHash |-> NoHash]
      /\ nodes.hold \subseteq {first.fees} /\ nodes.denied = {}
      /\ nodes.acked = IF heard THEN {first.fees} ELSE {}
      /\ nodes = [hold |-> nodes.hold, acked |-> nodes.acked, denied |-> nodes.denied]
  BY <1>1
<1> HIDE DEF fees
<1>4. /\ first \in Stored /\ first.fees = fees /\ first.raw /\ ~first.rejected
      /\ first.acceptedAt = heard
  BY <1>2 DEF Signature, Stored
<1> HIDE DEF first
<1>5. a \in Seq(Stored) /\ Len(a) = 1 /\ DOMAIN a = 1 .. 1 /\ a[1] = first
  BY <1>4
<1> HIDE DEF a
<1>6. record \in TxState
  BY <1>3, <1>5 DEF TxState, Walks
<1>7. /\ record.attempts = a /\ record.retired = << >> /\ record.walk = "none"
      /\ record.status = "submitted"
  BY <1>3
<1>8. AttemptsFit(a)
  <2>1. \A i \in 1 .. 1 : i = 1
    OBVIOUS
  <2>2. \A i \in 1 .. Len(a) : (~a[i].rejected => a[i].raw) /\ UnderCap(a[i].fees)
    BY <1>2, <1>4, <1>5, <2>1
  <2>3. RawOf(a) = {1}
    BY <1>4, <1>5, <2>1 DEF RawOf
  <2>4. Cardinality({1}) = 1
    BY FS_Singleton
  <2> QED
    BY <1>5, <2>2, <2>3, <2>4, LimitTypes DEF AttemptsFit
<1>9. /\ nodes.hold \subseteq Hashes(record) /\ \A h \in nodes.acked : Noted(record, h)
      /\ \A h \in nodes.hold : Among(record, h)
  <2>1. (\A h \in nodes.hold : h = first.fees) /\ (\A h \in nodes.acked : h = first.fees /\ heard)
    BY <1>3
  <2>2. 1 \in DOMAIN record.attempts /\ record.attempts[1] = first /\ 1 \in 1 .. Len(record.attempts)
    <3>1. 1 \in DOMAIN a /\ a[1] = first /\ 1 \in 1 .. Len(a)
      BY <1>5
    <3> QED
      BY <1>7, <3>1
  <2> QED
    BY <1>4, <2>1, <2>2 DEF Hashes, Noted, Among
<1>10. Kept(record, nodes)
  <2>1. Len(record.retired) = 0
    BY <1>7
  <2>2. nodes \in Told
    BY <1>2, <1>3, <1>4 DEF Told
  <2>3. DenialsHeard(record.attempts, nodes.denied)
    <3>1. \A i \in 1 .. 1 : i = 1
      OBVIOUS
    <3> QED
      BY <1>4, <1>5, <1>7, <3>1 DEF DenialsHeard
  <2> QED
    BY <1>6, <1>7, <1>8, <1>9, <2>1, <2>2, <2>3, LimitTypes DEF Kept
<1>11. AttemptsTypeOK
  <2>1. nodes \in Told
    BY <1>10 DEF Kept
  <2> QED
    BY <1>6, <2>1, NotSweepingIs DEF AttemptsInit, AttemptsTypeOK
<1>12. SweepFits /\ KnownFits /\ WalkFits /\ RefusedUnheard /\ OutsideUnknown
  BY <1>5, <1>7, NotSweepingIs
     DEF AttemptsInit, SweepFits, KnownFits, WalkFits, RefusedUnheard, OutsideUnknown
<1> QED
  BY <1>10, <1>11, <1>12 DEF AttemptsInv

LEMMA ChainMoves ==
  ASSUME AttemptsInv, UseNonce \/ AllLearn \/ GiveUpBlock \/ Ripen
  PROVE  AttemptsInv'
<1>1. ASSUME UNCHANGED record, UNCHANGED sweep, UNCHANGED nodes, ripe' \in BOOLEAN, ripe => ripe',
             onChain' \in Fee \cup {NoHash, Outside}, known' \in {"none", "some", "all"}, blocks' \in Nat,
             known' = "none" <=> onChain' = NoHash,
             \/ walkKnown' = FALSE /\ checkKnown' = FALSE
             \/ UNCHANGED <<onChain, walkKnown, checkKnown>> /\ (known = "all" => known' = "all")
      PROVE  AttemptsInv'
  <2>1. AttemptsTypeOK'
    BY <1>1, InvFacts DEF AttemptsTypeOK
  <2>2. Kept(record, nodes)' /\ SweepFits'
    BY <1>1, InvFacts DEF SweepFits
  <2>3. KnownFits'
    BY <1>1, InvFacts DEF KnownFits
  <2>4. WalkFits'
    BY <1>1, InvFacts, ClearUnknown DEF WalkFits
  <2>5. RefusedUnheard'
    BY <1>1 DEF AttemptsInv, RefusedUnheard
  <2>6. OutsideUnknown'
    BY <1>1 DEF AttemptsInv, OutsideUnknown
  <2> QED
    BY <2>1, <2>2, <2>3, <2>4, <2>5, <2>6 DEF AttemptsInv
<1>2. CASE UseNonce
  <2>1. onChain' \in Fee \cup {Outside} /\ walkKnown' = FALSE /\ checkKnown' = FALSE
    BY <1>2, InvFacts DEF UseNonce, KnownFits
  <2>2. onChain' # NoHash
    BY <2>1 DEF Fee, Outside, NoHash
  <2>3. blocks' \in Nat
    BY <1>2, InvFacts DEF UseNonce
  <2>4. /\ UNCHANGED record /\ UNCHANGED sweep /\ UNCHANGED nodes /\ UNCHANGED ripe
        /\ known' = "some" /\ ripe \in BOOLEAN
    BY <1>2, InvFacts DEF UseNonce
  <2> QED
    BY <1>1, <2>1, <2>2, <2>3, <2>4
<1>3. CASE AllLearn
  BY <1>1, <1>3, InvFacts DEF AllLearn, KnownFits
<1>4. CASE GiveUpBlock
  BY <1>1, <1>4, InvFacts DEF GiveUpBlock
<1>5. CASE Ripen
  BY <1>1, <1>5, InvFacts DEF Ripen, chainState, knowledge, KnownFits
<1> QED
  BY <1>2, <1>3, <1>4, <1>5

LEMMA SweepStarts ==
  ASSUME AttemptsInv, StartSweep
  PROVE  AttemptsInv'
<1> DEFINE walk == IF ripe THEN "all-urls" ELSE "receipts"
           from == CursorOf(record, walk)
           next == [pc |-> IF ripe THEN "nonce" ELSE "walk", walk |-> walk,
                    from |-> from, index |-> from, used |-> FALSE]
<1>1. /\ record.status = "submitted" /\ sweep' = next
      /\ walkKnown' = IF walk = "all-urls" /\ record.walk = walk /\ record.index > 0
                      THEN walkKnown ELSE known = "all"
      /\ checkKnown' = IF walk = "all-urls" /\ record.walk = walk
                          /\ record.index > Len(receiptHashes(record))
                       THEN checkKnown ELSE known = "all"
      /\ UNCHANGED record /\ UNCHANGED ripe /\ UNCHANGED nodes /\ UNCHANGED chainState
  BY DEF StartSweep, Goes
<1>2. from \in Nat /\ Len(receiptHashes(record)) \in Nat
  BY InvFacts, ReceiptHashesIs DEF CursorOf
<1>3. /\ sweep' \in Sweep /\ sweep'.pc \in {"walk", "nonce"} /\ sweep'.walk = walk
      /\ sweep'.from = from /\ sweep'.index = from
  BY <1>1, <1>2 DEF Sweep, Walks
<1>4. walkKnown' \in BOOLEAN /\ checkKnown' \in BOOLEAN /\ (walkKnown' \/ checkKnown' => known = "all")
  BY <1>1, InvFacts DEF KnownFits
<1>5. ASSUME record.walk = "all-urls"
      PROVE  /\ ripe /\ from = record.index
             /\ Clear(record, record.index, record.index, onChain, walkKnown', checkKnown')
  <2>1. ripe /\ Clear(record, record.index, record.index, onChain, walkKnown, checkKnown)
    BY <1>5, InvFacts DEF WalkFits
  <2>2. /\ record.index = 0 \/ (walkKnown' => walkKnown)
        /\ record.index <= Len(receiptHashes(record)) \/ (checkKnown' => checkKnown)
    <3>1. /\ record.index > 0 => walkKnown' = walkKnown
          /\ record.index > Len(receiptHashes(record)) => checkKnown' = checkKnown
      BY <1>1, <1>5, <2>1
    <3>2. record.index \in Nat
      BY InvFacts
    <3> QED
      BY <1>2, <3>1, <3>2
  <2>3. Clear(record, record.index, record.index, onChain, walkKnown', checkKnown')
    BY <1>4, <2>1, <2>2, InvFacts, ClearAtStart
  <2> QED
    BY <1>5, <2>1, <2>3 DEF CursorOf
<1>6. ASSUME record.walk # "all-urls", ripe
      PROVE  from = 0 /\ Clear(record, 0, 0, onChain, walkKnown', checkKnown')
  <2>1. from = 0
    BY <1>6 DEF CursorOf
  <2>2. 0 <= Len(receiptHashes(record))
    BY <1>2
  <2>3. Clear(record, 0, 0, onChain, walkKnown', checkKnown')
    BY <1>4, <2>2, InvFacts, ClearAtStart
  <2> QED
    BY <2>1, <2>3
<1>7. sweep'.walk = "all-urls" =>
        ripe /\ Clear(record, sweep'.from, sweep'.index, onChain, walkKnown', checkKnown')
  BY <1>3, <1>5, <1>6
<1> HIDE DEF next, from, walk
<1> QED
  BY <1>1, <1>3, <1>4, <1>5, <1>7, SweepMoves

LEMMA ReachIs ==
  ASSUME AttemptsInv, sweep.pc = "walk", sweep.index < Reach
  PROVE  sweep.index < Len(Asks(record, sweep.from)) /\ Asked \in Fee
<1> DEFINE A == Asks(record, sweep.from)
<1>1. A \in Seq(Fee) /\ Len(A) \in Nat /\ sweep.index \in Nat
  BY InvFacts, AsksIs, LenProperties
<1>2. Reach <= Len(A)
  <2>1. /\ Len(A) = (IF sweep.from > 0 THEN Len(receiptHashes(record)) + Len(record.attempts)
                     ELSE Len(receiptHashes(record)))
        /\ Len(receiptHashes(record)) \in Nat /\ Len(record.attempts) \in Nat
        /\ Len(record.attempts) <= Len(receiptHashes(record))
    BY InvFacts, AsksIs, ReceiptHashesIs
  <2> HIDE DEF A
  <2>2. Reach = Len(A) \/ Reach = Len(receiptHashes(record)) \/ Reach = Len(record.attempts)
    BY DEF Reach, A
  <2> QED
    BY <2>1, <2>2
<1>3. Reach \in Int
  BY <1>1, InvFacts, ReceiptHashesIs DEF Reach
<1> HIDE DEF A
<1>4. sweep.index < Len(A) /\ sweep.index + 1 \in 1 .. Len(A)
  BY <1>1, <1>2, <1>3
<1>5. A[sweep.index + 1] \in Fee
  BY <1>1, <1>4, ElementOfSeq
<1> QED
  BY <1>4, <1>5 DEF A, Asked

LEMMA WalkMoves ==
  ASSUME AttemptsInv, AskNothing \/ AttemptsAsked \/ NonceRead
  PROVE  AttemptsInv'
<1>1. sweep \in Sweep /\ sweep.pc \in {"walk", "nonce"} /\ record.status = "submitted"
  BY InvFacts DEF AskNothing, AttemptsAsked, NonceRead, SweepFits
<1>2. record.walk = "all-urls" =>
        Clear(record, record.index, record.index, onChain, walkKnown, checkKnown)
  BY InvFacts DEF WalkFits
<1>3. sweep.walk = "all-urls" =>
        ripe /\ Clear(record, sweep.from, sweep.index, onChain, walkKnown, checkKnown)
  BY <1>1, InvFacts DEF WalkFits
<1>4. CASE AskNothing
  <2> DEFINE s == [sweep EXCEPT !.index = @ + 1]
  <2>1. s \in Sweep /\ s.pc = sweep.pc /\ s.walk = sweep.walk /\ s.from = sweep.from
        /\ s.index = sweep.index + 1
    BY <1>1 DEF Sweep
  <2>2. sweep' = s
    BY <1>4 DEF AskNothing, Goes
  <2> HIDE DEF s
  <2>3. (walkKnown \/ checkKnown) => Asks(record, sweep.from)[sweep.index + 1] # onChain
    BY <1>4, InvFacts DEF AskNothing, Asked, KnownFits
  <2>4. sweep.walk = "all-urls" =>
          Clear(record, sweep.from, sweep.index + 1, onChain, walkKnown, checkKnown)
    BY <1>3, <2>3, InvFacts, ClearNext
  <2>5. /\ UNCHANGED record /\ UNCHANGED ripe /\ UNCHANGED nodes /\ UNCHANGED chainState
        /\ UNCHANGED walkKnown /\ UNCHANGED checkKnown
    BY <1>4 DEF AskNothing, knowledge
  <2>6. walkKnown \/ checkKnown => known = "all"
    BY InvFacts DEF KnownFits
  <2>7. sweep'.walk = "all-urls" =>
          ripe /\ Clear(record, sweep'.from, sweep'.index, onChain, walkKnown', checkKnown')
    BY <1>3, <2>1, <2>2, <2>4, <2>5
  <2> QED
    BY <1>1, <1>2, <2>1, <2>2, <2>5, <2>6, <2>7, InvFacts, SweepMoves
<1>5. CASE AttemptsAsked \/ NonceRead
  <2>1. /\ sweep' \in Sweep /\ sweep'.pc \in {"walk", "nonce"} /\ sweep'.walk = sweep.walk
        /\ sweep'.from = sweep.from /\ sweep'.index = sweep.index
    BY <1>1, <1>5 DEF AttemptsAsked, NonceRead, Goes, Sweep
  <2>2. /\ UNCHANGED record /\ UNCHANGED ripe /\ UNCHANGED nodes /\ UNCHANGED chainState
        /\ UNCHANGED walkKnown /\ UNCHANGED checkKnown
    BY <1>5 DEF AttemptsAsked, NonceRead, knowledge
  <2>3. walkKnown \/ checkKnown => known = "all"
    BY InvFacts DEF KnownFits
  <2>4. sweep'.walk = "all-urls" =>
          ripe /\ Clear(record, sweep'.from, sweep'.index, onChain, walkKnown', checkKnown')
    BY <1>3, <2>1, <2>2
  <2> QED
    BY <1>1, <1>2, <2>1, <2>2, <2>3, <2>4, InvFacts, SweepMoves
<1> QED
  BY <1>4, <1>5

LEMMA FoundInv ==
  ASSUME AttemptsInv, AskFound
  PROVE  AttemptsInv'
<1> DEFINE b == MarkTaken(record.attempts, Asked)
           n == [withoutLookup(record) EXCEPT
                   !.status = "mined", !.minedHash = Asked, !.nonceUsed = FALSE,
                   !.attempts = MarkTaken(@, Asked),
                   !.retiredAccepted = @ \/ Asked \notin ToSet(NewestFirst(record))]
<1>1. Asked \in Fee /\ record.attempts \in Seq(Stored)
  BY ReachIs, InvFacts DEF AskFound
<1>2. Marked(record.attempts, b) /\ b \in Seq(Stored)
  BY <1>1, TakenMarked DEF Marked
<1>3. /\ n.attempts = b /\ n.walk = "none" /\ n.status = "mined" /\ n.retired = record.retired
      /\ n.retiredAccepted = (record.retiredAccepted \/ Asked \notin ToSet(NewestFirst(record)))
      /\ n \in TxState
  <2>1. record \in TxState
    BY InvFacts
  <2>2. withoutLookup(record).attempts = record.attempts
        /\ withoutLookup(record).retiredAccepted = record.retiredAccepted
    BY <2>1 DEF withoutLookup, TxState
  <2> HIDE DEF b
  <2> DEFINE more == record.retiredAccepted \/ Asked \notin ToSet(NewestFirst(record))
  <2>3. n = [withoutLookup(record) EXCEPT !.status = "mined", !.minedHash = Asked, !.nonceUsed = FALSE,
               !.attempts = b, !.retiredAccepted = more]
    BY <2>1, <2>2 DEF b, withoutLookup, TxState
  <2>4. more \in BOOLEAN
    OBVIOUS
  <2> HIDE DEF n, more
  <2>5. /\ n.attempts = b /\ n.walk = "none" /\ n.status = "mined" /\ n.retired = record.retired
        /\ n.retiredAccepted = more /\ n \in TxState
    BY <1>1, <1>2, <2>1, <2>3, <2>4 DEF withoutLookup, TxState, Walks
  <2> QED
    BY <2>5 DEF more
<1>4. /\ record' = n /\ ripe' = FALSE /\ sweep' = NotSweeping
      /\ nodes' = [nodes EXCEPT !.acked = @ \cup {Asked}]
      /\ UNCHANGED chainState /\ UNCHANGED knowledge
  BY DEF AskFound, Ended, Goes
<1>7. \A i \in 1 .. Len(record.attempts) :
        /\ record.attempts[i].fees = Asked => b[i].acceptedAt
        /\ b[i].rejected = record.attempts[i].rejected
  BY <1>1, TakenMarked
<1> HIDE DEF n, b
<1>5. Kept(n, nodes') /\ SameList(record, n)
  <2>1. /\ Kept(record, nodes) /\ record \in TxState /\ nodes \in Told
        /\ (record.retiredAccepted => n.retiredAccepted)
    BY <1>3, InvFacts
  <2>2. /\ nodes' \in Told /\ nodes'.hold = nodes.hold /\ nodes'.denied = nodes.denied
        /\ nodes'.acked = nodes.acked \cup {Asked}
    BY <1>1, <1>4, <2>1 DEF Told
  <2>3. DenialsHeard(n.attempts, nodes'.denied)
    BY <1>2, <1>3, <1>7, <2>1, <2>2 DEF Kept, DenialsHeard, Marked
  <2>4. Noted(n, Asked)
    <3>1. CASE Asked \notin ToSet(NewestFirst(record))
      BY <1>3, <3>1 DEF Noted
    <3>2. CASE Asked \in ToSet(NewestFirst(record))
      <4> DEFINE N == NewestFirst(record)
                 L == Len(record.attempts)
      <4>1. /\ N \in Seq(Fee) /\ Len(N) = L /\ L \in Nat
            /\ \A j \in 1 .. L : N[j] = record.attempts[(L - j) + 1].fees
        BY <2>1, NewestFirstIs, InvFacts
      <4> HIDE DEF N, L
      <4>2. PICK j \in 1 .. L : N[j] = Asked
        BY <3>2, <4>1, LenProperties DEF ToSet, N
      <4>3. (L - j) + 1 \in 1 .. L
        BY <4>1
      <4>4. record.attempts[(L - j) + 1].fees = Asked
        BY <4>1, <4>2
      <4> QED
        BY <1>2, <1>3, <1>7, <4>3, <4>4 DEF Noted, Marked, L
    <3> QED
      BY <3>1, <3>2
  <2> QED
    BY <1>2, <1>3, <2>1, <2>2, <2>3, <2>4, MarkedKept DEF Kept
<1>6. Len(n.attempts) # 0
  BY <1>5, InvFacts DEF SameList
<1> QED
  BY <1>3, <1>4, <1>5, <1>6, NotSweepingIs, RowRests DEF RefusedUnheard, OutsideUnknown

LEMMA WalkStops ==
  ASSUME AttemptsInv, StopWalk
  PROVE  AttemptsInv'
<1> DEFINE n == [record EXCEPT !.walk = sweep.walk, !.index = sweep.index]
<1>1. /\ record' = n \/ UNCHANGED record
      /\ sweep' = NotSweeping /\ sweep.pc = "walk"
      /\ UNCHANGED ripe /\ UNCHANGED nodes /\ UNCHANGED chainState /\ UNCHANGED knowledge
  BY DEF StopWalk, Ended, Goes, StopsAt
<1>2. record.status = "submitted" /\ sweep.walk \in Walks /\ sweep.index < Len(Asks(record, sweep.from))
  BY <1>1, InvFacts, ReachIs DEF SweepFits, StopWalk, Sweep
<1>3. /\ n \in TxState /\ n.walk = sweep.walk /\ n.index = sweep.index /\ n.status = "submitted"
      /\ n.attempts = record.attempts /\ n.retired = record.retired
      /\ n.retiredAccepted = record.retiredAccepted
  <2>1. record \in TxState /\ sweep.walk \in Walks /\ sweep.index \in Nat
    BY <1>2, InvFacts
  <2>2. /\ n \in TxState /\ n.walk = sweep.walk /\ n.index = sweep.index /\ n.status = record.status
        /\ n.attempts = record.attempts /\ n.retired = record.retired
        /\ n.retiredAccepted = record.retiredAccepted
    BY <2>1 DEF TxState
  <2> QED
    BY <1>2, <2>2
<1> HIDE DEF n
<1>4. CASE UNCHANGED record
  BY <1>1, <1>2, <1>4, InvFacts, NotSweepingIs, RowSame DEF SameList
<1>5. CASE record' = n
  <2>1. Kept(n, nodes) /\ SameList(record, n)
    BY <1>3, InvFacts, KeptSame
  <2>2. AttemptsTypeOK'
    BY <1>1, <1>3, <1>5, InvFacts, NotSweepingIs DEF AttemptsTypeOK, chainState, knowledge
  <2>3. SweepFits' /\ KnownFits' /\ RefusedUnheard' /\ OutsideUnknown'
    <3>1. Len(record'.attempts) # 0 /\ record'.status = "submitted" /\ sweep'.pc = "idle"
      BY <1>1, <1>3, <1>5, InvFacts, NotSweepingIs
    <3>2. KnownFits'
      BY <1>1, InvFacts DEF KnownFits, chainState, knowledge
    <3> QED
      BY <3>1, <3>2 DEF SweepFits, RefusedUnheard, OutsideUnknown
  <2>4. ASSUME sweep.walk = "all-urls"
        PROVE  ripe /\ Clear(n, sweep.index, sweep.index, onChain, walkKnown, checkKnown)
    <3>1. ripe /\ Clear(record, sweep.from, sweep.index, onChain, walkKnown, checkKnown)
      BY <1>1, <2>4, InvFacts DEF WalkFits
    <3>2. Clear(record, sweep.index, sweep.index, onChain, walkKnown, checkKnown)
      BY <1>2, <3>1, InvFacts, ClearStop
    <3> QED
      BY <1>3, <2>1, <3>1, <3>2, InvFacts, ClearSame
  <2>5. WalkFits'
    <3>1. record'.walk = sweep.walk /\ record'.index = sweep.index /\ sweep'.pc = "idle"
      BY <1>1, <1>3, <1>5, NotSweepingIs
    <3> QED
      BY <1>1, <1>5, <2>4, <3>1 DEF WalkFits, chainState, knowledge
  <2>6. Kept(record, nodes)'
    BY <1>1, <1>5, <2>1
  <2> QED
    BY <2>2, <2>3, <2>5, <2>6 DEF AttemptsInv
<1> QED
  BY <1>1, <1>4, <1>5

LEMMA RowCleared ==
  ASSUME NEW tx \in TxState
  PROVE  /\ withoutLookup(tx) \in TxState /\ withoutLookup(tx).walk = "none"
         /\ withoutLookup(tx).status = tx.status /\ withoutLookup(tx).attempts = tx.attempts
         /\ withoutLookup(tx).retired = tx.retired
         /\ withoutLookup(tx).retiredAccepted = tx.retiredAccepted
BY DEF withoutLookup, TxState, Walks

LEMMA WaitChanges ==
  ASSUME AttemptsInv, NonceUnread \/ ReceiptsAsked
  PROVE  AttemptsInv'
<1> DEFINE w == withoutLookup(record)
<1>1. PICK used \in BOOLEAN : record' = [w EXCEPT !.nonceUsed = used]
  BY DEF NonceUnread, NoWait, ReceiptsAsked
<1>2. record.status = "submitted" /\ sweep \in Sweep
  BY InvFacts DEF SweepFits, NonceUnread, ReceiptsAsked
<1>3. /\ w \in TxState /\ w.walk = "none" /\ w.status = "submitted" /\ w.attempts = record.attempts
      /\ w.retired = record.retired /\ w.retiredAccepted = record.retiredAccepted
  BY <1>2, InvFacts, RowCleared
<1> HIDE DEF w
<1>4. /\ record' \in TxState /\ record'.walk = "none" /\ record'.status = "submitted"
      /\ record'.attempts = record.attempts
      /\ record'.retired = record.retired /\ record'.retiredAccepted = record.retiredAccepted
  BY <1>1, <1>3 DEF TxState
<1>5. /\ UNCHANGED nodes /\ UNCHANGED chainState /\ UNCHANGED knowledge /\ ripe' \in BOOLEAN
      /\ sweep' \in Sweep /\ sweep'.pc \in {"idle", "act"}
  BY <1>2, InvFacts, NotSweepingIs DEF NonceUnread, ReceiptsAsked, Ended, Goes, Sweep
<1>6. Kept(record', nodes')
  BY <1>4, <1>5, InvFacts, KeptSame
<1>7. Len(record'.attempts) # 0
  BY <1>4, InvFacts
<1> QED
  BY <1>4, <1>5, <1>6, <1>7, RowRests DEF RefusedUnheard, OutsideUnknown

LEMMA GivenUpForAnother ==
  ASSUME AttemptsInv, FailAsUsed
  PROVE  AttemptsInv'
<1> DEFINE w == withoutLookup(record)
<1>1. /\ record' = [w EXCEPT !.status = "outside"] /\ sweep' = NotSweeping
      /\ UNCHANGED ripe /\ UNCHANGED nodes /\ UNCHANGED chainState /\ UNCHANGED knowledge
      /\ sweep.pc = "walk" /\ sweep.walk = "all-urls" /\ sweep.index >= Reach
  BY DEF FailAsUsed, Ended, Goes
<1>2. /\ w \in TxState /\ w.walk = "none" /\ w.attempts = record.attempts
      /\ w.retired = record.retired /\ w.retiredAccepted = record.retiredAccepted
  BY InvFacts, RowCleared
<1> HIDE DEF w
<1>3. /\ record' \in TxState /\ record'.walk = "none" /\ record'.status = "outside"
      /\ record'.attempts = record.attempts
      /\ record'.retired = record.retired /\ record'.retiredAccepted = record.retiredAccepted
  BY <1>1, <1>2, StatusOnly
<1>4. Kept(record', nodes') /\ SameList(record, record')
  BY <1>1, <1>3, InvFacts, KeptSame
<1>5. Len(record'.attempts) # 0
  BY <1>3, InvFacts
<1>6. Clear(record, sweep.from, sweep.index, onChain, walkKnown, checkKnown)
  BY <1>1, InvFacts DEF WalkFits
<1>7. sweep.index >= Len(Asks(record, sweep.from))
  BY <1>1 DEF Reach
<1>8. /\ walkKnown => onChain \notin Hashes(record)
      /\ checkKnown => \A i \in DOMAIN record.attempts : record.attempts[i].fees # onChain
  BY <1>6, <1>7, InvFacts, ClearEnd
<1>9. Hashes(record') = Hashes(record)
  BY <1>3, <1>4, InvFacts, SameLists
<1>10. OutsideUnknown' /\ RefusedUnheard'
  BY <1>1, <1>3, <1>8, <1>9 DEF OutsideUnknown, RefusedUnheard, chainState, knowledge
<1> QED
  BY <1>1, <1>3, <1>4, <1>5, <1>10, InvFacts, NotSweepingIs, RowRests

\* A new signature is stored, and the sweep goes on to send it.
LEMMA SignsInv ==
  ASSUME AttemptsInv, sweep.pc = "act", UNCHANGED ripe, UNCHANGED chainState, UNCHANGED knowledge,
         UNCHANGED nodes, NEW fees \in Fee, UnderCap(fees),
         Cardinality(UnrefusedOf(record.attempts)) < MAX_SIGNED_ATTEMPTS, SignNew(record, fees)
  PROVE  AttemptsInv'
<1>1. /\ Kept(record', nodes') /\ record'.status = record.status
      /\ record'.walk = record.walk /\ record'.index = record.index
      /\ \/ record' = record /\ sweep' = NotSweeping
         \/ Len(record'.attempts) # 0 /\ sweep' = [sweep EXCEPT !.pc = "send"]
  BY InvFacts, SignNewKept
<1>2. record.status = "submitted" /\ record.walk = "none"
  BY InvFacts DEF SweepFits
<1>3. CASE record' = record /\ sweep' = NotSweeping
  BY <1>1, <1>2, <1>3, InvFacts, NotSweepingIs, RowSame DEF SameList
<1>4. CASE Len(record'.attempts) # 0 /\ sweep' = [sweep EXCEPT !.pc = "send"]
  <2>1. sweep' \in Sweep /\ sweep'.pc = "send"
    BY <1>4, InvFacts DEF Sweep
  <2>2. ripe' \in BOOLEAN
    BY InvFacts
  <2> QED
    BY <1>1, <1>2, <1>4, <2>1, <2>2, RowRests DEF RefusedUnheard, OutsideUnknown
<1> QED
  BY <1>1, <1>3, <1>4

\* A node answered to bytes of tx, which has the signatures of the row.
LEMMA SendsInv ==
  ASSUME AttemptsInv, UNCHANGED ripe, UNCHANGED chainState, UNCHANGED knowledge,
         NEW tx \in TxState, Kept(tx, nodes), SameList(record, tx), tx.walk = record.walk,
         tx.index = record.index, tx.status = "submitted",
         NEW i \in 1 .. Len(tx.attempts), NEW again \in BOOLEAN,
         again => tx.attempts[i].raw, Sends(tx, i, again)
  PROVE  AttemptsInv'
<1>1. /\ Kept(record', nodes') /\ SameList(tx, record')
      /\ record'.walk = tx.walk /\ record'.index = tx.index
      /\ record'.status = tx.status \/ (record'.status = "refused" /\ NeverHeard(nodes'))
      /\ sweep' = NotSweeping
  BY SendsKept
<1>2. SameList(record, record')
  BY <1>1 DEF SameList
<1>3. record'.status # "outside" /\ (record'.status = "refused" => NeverHeard(nodes'))
  BY <1>1
<1> QED
  BY <1>1, <1>2, <1>3, NotSweepingIs, RowSame

LEMMA UnrefusedIs ==
  ASSUME AttemptsInv
  PROVE  /\ Unrefused(record) = UnrefusedOf(record.attempts)
         /\ Unrefused(record) \in SUBSET (1 .. Len(record.attempts))
         /\ Rejected(record) \in SUBSET (1 .. Len(record.attempts))
         /\ \A i \in Unrefused(record) : record.attempts[i].raw
<1>1. /\ DOMAIN record.attempts = 1 .. Len(record.attempts) /\ AttemptsFit(record.attempts)
  BY InvFacts DEF Kept
<1> QED
  BY <1>1 DEF Unrefused, UnrefusedOf, Rejected, AttemptsFit

LEMMA ReplacesLive ==
  ASSUME AttemptsInv, ReplaceLive
  PROVE  AttemptsInv'
<1> DEFINE i == Newest(Unrefused(record))
           live == record.attempts[i]
           latest == Last(record.attempts)
           first(q) == bumpFees(live.fees, q, Cap)
           bump(q) == IF first(q).ok /\ latest # live /\ ~raises(first(q).fees, latest.fees)
                      THEN bumpFees(latest.fees, q, Cap) ELSE first(q)
<1>1. /\ sweep.pc = "act" /\ UNCHANGED ripe /\ UNCHANGED chainState /\ UNCHANGED knowledge
      /\ UNCHANGED nodes /\ Unrefused(record) # {}
  BY DEF ReplaceLive, Acting
<1>2. PICK q \in Quotes :
        IF ~bump(q).ok \/ Cardinality(Unrefused(record)) >= MAX_ATTEMPTS
        THEN UNCHANGED record /\ Ended
        ELSE SignNew(record, bump(q).fees)
  BY DEF ReplaceLive
<1>3. live.fees \in Fee /\ latest.fees \in Fee /\ q \in Fee
  <2>1. i \in 1 .. Len(record.attempts)
    BY <1>1, UnrefusedIs, InvFacts, NewestIs
  <2>2. Len(record.attempts) \in 1 .. Len(record.attempts)
    BY InvFacts
  <2>3. latest.fees \in Fee
    BY <2>2, InvFacts DEF Last
  <2> QED
    BY <2>1, <2>3, InvFacts, AttemptsAssumption
<1> HIDE DEF live, latest
<1>4. bump(q).fees \in Fee /\ UnderCap(bump(q).fees)
  <2>1. \/ bump(q).fees = bumpFees(live.fees, q, Cap).fees
        \/ bump(q).fees = bumpFees(latest.fees, q, Cap).fees
    OBVIOUS
  <2> HIDE DEF bump
  <2> QED
    BY <1>3, <2>1, BumpedUnder
<1> HIDE DEF bump
<1>5. CASE UNCHANGED record /\ Ended
  <2>1. record.status = "submitted" /\ sweep' = NotSweeping
    BY <1>1, <1>5, InvFacts DEF SweepFits, Ended, Goes
  <2> QED
    BY <1>1, <1>5, <2>1, InvFacts, NotSweepingIs, RowSame DEF SameList
<1>6. CASE ~(Cardinality(Unrefused(record)) >= MAX_ATTEMPTS) /\ SignNew(record, bump(q).fees)
  <2>1. Cardinality(UnrefusedOf(record.attempts)) \in Nat
    <3>1. IsFiniteSet(1 .. Len(record.attempts))
      <4>1. Len(record.attempts) \in Int
        BY InvFacts
      <4> QED
        BY <4>1, FS_Interval
    <3>2. IsFiniteSet(UnrefusedOf(record.attempts))
      BY <3>1, UnrefusedIs, FS_Subset
    <3> QED
      BY <3>2, FS_CardinalityType
  <2>2. Cardinality(UnrefusedOf(record.attempts)) < MAX_SIGNED_ATTEMPTS
    BY <1>6, <2>1, UnrefusedIs, LimitTypes
  <2> QED
    BY <1>1, <1>4, <1>6, <2>2, SignsInv
<1> QED
  BY <1>2, <1>5, <1>6

LEMMA ReplacesRefused ==
  ASSUME AttemptsInv, ReplaceRefused
  PROVE  AttemptsInv'
<1> DEFINE clamped(q) == clampFees(q, Cap)
           blocking(q) == refusedAtOrAbove(record, clamped(q))
           fees(q) == IF blocking(q) = {} THEN clamped(q)
                      ELSE clampFees(record.attempts[Highest(record, blocking(q))].fees, Cap)
<1>1. /\ sweep.pc = "act" /\ UNCHANGED ripe /\ UNCHANGED chainState /\ UNCHANGED knowledge
      /\ UNCHANGED nodes /\ Unrefused(record) = {}
  BY DEF ReplaceRefused, Acting
<1>2. PICK q \in Quotes : SignNew(record, fees(q))
  BY DEF ReplaceRefused
<1>3. clamped(q) \in Fee /\ UnderCap(clamped(q))
  BY AttemptsAssumption, ClampedUnder
<1>4. blocking(q) \in SUBSET (1 .. Len(record.attempts))
  BY UnrefusedIs DEF refusedAtOrAbove
<1> HIDE DEF blocking, clamped
<1>5. fees(q) \in Fee /\ UnderCap(fees(q))
  <2>1. CASE blocking(q) = {}
    BY <1>3, <2>1
  <2>2. CASE blocking(q) # {}
    <3>1. Highest(record, blocking(q)) \in 1 .. Len(record.attempts)
      BY <1>4, <2>2, InvFacts, HighestIs DEF Kept
    <3> QED
      BY <2>2, <3>1, InvFacts, ClampedUnder
  <2> QED
    BY <2>1, <2>2
<1> HIDE DEF fees
<1>6. Cardinality(UnrefusedOf(record.attempts)) < MAX_SIGNED_ATTEMPTS
  <2>1. Cardinality(UnrefusedOf(record.attempts)) = 0
    BY <1>1, UnrefusedIs, FS_EmptySet
  <2> QED
    BY <2>1, LimitTypes
<1> QED
  BY <1>1, <1>2, <1>5, <1>6, SignsInv

LEMMA SendsAgain ==
  ASSUME AttemptsInv, RebroadcastRefused \/ RebroadcastLive \/ SendNew
  PROVE  AttemptsInv'
<1>1. /\ sweep.pc \in {"act", "send"} /\ record.status = "submitted"
      /\ UNCHANGED ripe /\ UNCHANGED chainState /\ UNCHANGED knowledge
  BY InvFacts DEF RebroadcastRefused, RebroadcastLive, SendNew, Acting, SweepFits
<1>2. SameList(record, record)
  BY DEF SameList
<1>3. ASSUME NEW i \in 1 .. Len(record.attempts), NEW again \in BOOLEAN,
             again => record.attempts[i].raw, Sends(record, i, again)
      PROVE  AttemptsInv'
  BY <1>1, <1>2, <1>3, InvFacts, SendsInv
<1>4. CASE RebroadcastRefused
  <2>1. PICK q \in Quotes :
          LET bytes == {i \in refusedAtOrAbove(record, clampFees(q, Cap)) : record.attempts[i].raw}
          IN bytes # {} /\ Sends(record, Highest(record, bytes), TRUE)
    BY <1>4 DEF RebroadcastRefused
  <2> DEFINE bytes == {i \in refusedAtOrAbove(record, clampFees(q, Cap)) : record.attempts[i].raw}
  <2>2. /\ bytes # {} /\ Sends(record, Highest(record, bytes), TRUE)
        /\ bytes \in SUBSET (1 .. Len(record.attempts)) /\ \A i \in bytes : record.attempts[i].raw
    BY <2>1, UnrefusedIs DEF refusedAtOrAbove
  <2> HIDE DEF bytes
  <2>3. Highest(record, bytes) \in bytes
    BY <2>2, InvFacts, HighestIs DEF Kept
  <2> QED
    BY <1>3, <2>2, <2>3
<1>5. CASE RebroadcastLive
  <2>1. Newest(Unrefused(record)) \in Unrefused(record)
    BY <1>5, InvFacts, UnrefusedIs, NewestIs DEF RebroadcastLive
  <2> QED
    BY <1>3, <1>5, <2>1, UnrefusedIs DEF RebroadcastLive
<1>6. CASE SendNew
  <2>1. Len(record.attempts) \in 1 .. Len(record.attempts)
    BY InvFacts
  <2> QED
    BY <1>3, <1>6, <2>1 DEF SendNew
<1> QED
  BY <1>4, <1>5, <1>6

LEMMA SendsBack ==
  ASSUME AttemptsInv, SendBack
  PROVE  AttemptsInv'
<1> DEFINE tx == [record EXCEPT !.status = "submitted", !.minedHash = NoHash]
           held == {i \in DOMAIN tx.attempts : tx.attempts[i].fees = record.minedHash
                                               /\ tx.attempts[i].raw}
<1>1. /\ sweep.pc = "idle" /\ UNCHANGED ripe /\ UNCHANGED chainState /\ UNCHANGED knowledge
      /\ \/ record' = tx /\ UNCHANGED <<sweep, nodes>>
         \/ held # {} /\ Sends(tx, Oldest(held), TRUE)
  BY DEF SendBack
<1>2. /\ tx \in TxState /\ tx.status = "submitted" /\ tx.attempts = record.attempts
      /\ tx.retired = record.retired /\ tx.retiredAccepted = record.retiredAccepted
      /\ tx.walk = record.walk /\ tx.index = record.index
  BY InvFacts DEF TxState
<1> HIDE DEF tx
<1>3. Kept(tx, nodes) /\ SameList(record, tx)
  BY <1>2, InvFacts, KeptSame
<1>4. CASE record' = tx /\ UNCHANGED <<sweep, nodes>>
  BY <1>1, <1>2, <1>3, <1>4, InvFacts, RowSame
<1>5. CASE held # {} /\ Sends(tx, Oldest(held), TRUE)
  <2>1. held \in SUBSET (1 .. Len(tx.attempts)) /\ \A i \in held : tx.attempts[i].raw
    BY <1>2, TxTypes
  <2> HIDE DEF held
  <2>2. held \in SUBSET Nat
    BY <2>1
  <2>3. Oldest(held) \in held
    BY <1>5, <2>2, OldestIs
  <2> QED
    BY <1>1, <1>2, <1>3, <1>5, <2>1, <2>3, SendsInv
<1> QED
  BY <1>1, <1>4, <1>5

LEMMA SweepEndsInv ==
  ASSUME AttemptsInv, SweepEnds
  PROVE  AttemptsInv'
<1>1. /\ record.status = "submitted" /\ sweep' = NotSweeping /\ UNCHANGED record
      /\ UNCHANGED ripe /\ UNCHANGED nodes /\ UNCHANGED chainState /\ UNCHANGED knowledge
  BY InvFacts DEF SweepEnds, SweepFits, Ended, Goes
<1> QED
  BY <1>1, InvFacts, NotSweepingIs, RowSame DEF SameList

LEMMA AttemptsInvNext == AttemptsInv /\ [AttemptsNext]_attemptsVars => AttemptsInv'
<1> SUFFICES ASSUME AttemptsInv, [AttemptsNext]_attemptsVars PROVE AttemptsInv'
  OBVIOUS
<1>1. CASE AttemptsNext
  BY <1>1, ChainMoves, SweepStarts, FoundInv, WalkMoves, WalkStops, WaitChanges, GivenUpForAnother,
     ReplacesLive, ReplacesRefused, SendsAgain, SendsBack, SweepEndsInv DEF AttemptsNext
<1>2. CASE UNCHANGED attemptsVars
  BY <1>2 DEF attemptsVars, AttemptsInv, AttemptsTypeOK, SweepFits, KnownFits, WalkFits,
              RefusedUnheard, OutsideUnknown
<1> QED
  BY <1>1, <1>2

\* The types, what a row keeps and where a walk stands hold together through
\* every sweep of sweeper.ts, whether it ends or dies.
THEOREM AttemptsHold == AttemptsSpec => []AttemptsInv
BY AttemptsInvInit, AttemptsInvNext, PTL DEF AttemptsSpec

\* A row's attempts, its retired hashes, its cursor and what a sweep holds of them
\* keep their types, however many fees are tried (sweeper.ts:308-345, 455-470).
THEOREM AttemptsTypes == AttemptsSpec => []AttemptsTypeOK
<1>1. AttemptsInv => AttemptsTypeOK
  BY DEF AttemptsInv
<1> QED
  BY <1>1, AttemptsHold, PTL

\* For every limit, fee cap and quote, and however sweeps die and nodes answer:
\* each hash that a node may have is still looked up, an attempt that may be in a
\* mempool keeps its bytes, and the item stays within its limits
\* (sweeper.ts:460-470).
THEOREM EveryHashLookedUp == AttemptsSpec => []AttemptsKept
<1>1. ASSUME AttemptsInv PROVE AttemptsKept
  BY <1>1, InvFacts, UnrefusedIs DEF Kept, AttemptsFit, AttemptsKept, RawOf
<1> QED
  BY <1>1, AttemptsHold, PTL

\* When a filler takes the nonce, no node was heard to have a signature at it, and
\* one that holds one all the same, its answer lost, was refused by a node too,
\* whichever attempts were dropped and wherever sweeps died (refusal.ts:29-35).
THEOREM FillersForCause == AttemptsSpec => []RefusedUnheard
<1>1. AttemptsInv => RefusedUnheard
  BY DEF AttemptsInv
<1> QED
  BY <1>1, AttemptsHold, PTL

\* A transaction is given up for another's only after its walk, in however many
\* sweeps, met no block that all nodes knew at the start (sweeper.ts:308-319).
THEOREM AnothersForSure == AttemptsSpec => []OutsideUnknown
<1>1. AttemptsInv => OutsideUnknown
  BY DEF AttemptsInv
<1> QED
  BY <1>1, AttemptsHold, PTL
=============================================================================
