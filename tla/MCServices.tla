----------------------------- MODULE MCServices ------------------------------
(***************************************************************************)
(* One instance of each of the smaller components for TLC, and one of the  *)
(* pipeline.  They share no state here: `part` says which of them moves,   *)
(* and the others rest.                                                    *)
(***************************************************************************)
EXTENDS ChainReader, Relays, Rules, Listing, SignIn, Vault, Pricing, Attempts, Events, Outbound,
        Matching, Pipeline

CONSTANTS ra, rb, rc, ka, kb, ca, cb, b1, b2, bad, old, e1, e2, c1, n1, w1, w2, v1, v2, a1, a2, sure, early

\* Submit: two requests of one key, one of another.
KeysOf == (ra :> ka) @@ (rb :> ka) @@ (rc :> kb)
Costs == (ra :> 3) @@ (rb :> 1) @@ (rc :> 3)

\* Listing: one row cannot be read, another is not the caller's.
UnreadableMC == {<<1, 2>>}
ForeignMC == {<<2, 1>>}

\* Pricing: fees at the boundaries of the price bump, and caps that cut them.
FeesOf(Wholes, Priorities) == [maxFeePerGas : Wholes, maxPriorityFeePerGas : Priorities]
Same(amount) == [maxFeePerGas |-> amount, maxPriorityFeePerGas |-> amount]
FirstFeesMC == FeesOf({0, 1, 9, 12, 20}, {0, 1, 8, 12})
EstimatesMC == FeesOf({1, 15, 30}, {1, 25})
CapsMC == FeesOf({24}, {10}) \cup FeesOf({10}, {24}) \cup {Same(22)}

\* Attempts.
QuotesMC == {Same(1), Same(2), Same(3)}
CapMC == Same(3)

\* Outbound: "aa" spells the destination "a" in another way.
SiteMC == [t \in {"a", "aa", "b", "x"} |-> IF t = "aa" THEN "a" ELSE t]

\* Matching: one transaction in two blocks, two logs in each, one of two rules.
LogIn(hash, height, place) ==
  [block |-> hash, number |-> height, index |-> place, tx |-> "tx", topic0 |-> "e", address |-> "c"]
LogsMC == {LogIn("a", 5, 0), LogIn("a", 5, 1), LogIn("b", 6, 2), LogIn("b", 6, 3)}
RuleSetMC == {[id |-> "r", topic0 |-> "e", addresses |-> {"c"}, accepts |-> LogsMC]}

VARIABLE part

servicesVars == <<part, readerVars, relaysVars, rulesVars, listingVars, signInVars, vaultVars, pricingVars,
                  attemptsVars, eventsVars, outboundVars, matchingVars, pipelineVars>>

Moves(p) == part = p /\ UNCHANGED part

ServicesInit ==
  /\ part \in {"reader", "submit", "relays", "rules", "listing", "signIn", "vault", "pricing", "attempts",
               "events", "outbound", "matching", "pipeline"}
  /\ ReaderInit /\ RelaysInit /\ SignInInit /\ VaultInit /\ EventsInit /\ OutboundInit
  /\ MatchingInit /\ PipelineInit
  /\ ListingInit
  /\ part # "listing" => route = "rules" /\ chains = 1..Chains /\ standing = Nothing
  /\ RulesInit /\ (part # "rules" => rule = Nought)
  /\ AttemptsInit
  /\ part # "attempts" => record.attempts[1].fees = Same(1) /\ nodes.hold = {} /\ nodes.acked = {}
  /\ IF part = "pricing" THEN PricingInit
     ELSE priced = Same(1) /\ market = Same(1) /\ feeCap = Same(1)

ServicesNext ==
  \/ /\ Moves("submit") /\ SubmitNext
     /\ UNCHANGED <<delivery, begun, doubled, readerVars, rulesVars, listingVars,
                    signInVars, vaultVars, pricingVars, attemptsVars, eventsVars,
                    outboundVars, matchingVars, pipelineVars>>
  \/ /\ Moves("reader") /\ ReaderNext
     /\ UNCHANGED <<relaysVars, rulesVars, listingVars, signInVars, vaultVars, pricingVars,
                    attemptsVars, eventsVars, outboundVars, matchingVars, pipelineVars>>
  \/ /\ Moves("relays") /\ RelaysNext
     /\ UNCHANGED <<readerVars, rulesVars, listingVars, signInVars, vaultVars, pricingVars,
                    attemptsVars, eventsVars, outboundVars, matchingVars, pipelineVars>>
  \/ /\ Moves("rules") /\ RulesNext
     /\ UNCHANGED <<readerVars, relaysVars, listingVars, signInVars, vaultVars, pricingVars,
                    attemptsVars, eventsVars, outboundVars, matchingVars, pipelineVars>>
  \/ /\ Moves("listing") /\ ListingNext
     /\ UNCHANGED <<readerVars, relaysVars, rulesVars, signInVars, vaultVars, pricingVars,
                    attemptsVars, eventsVars, outboundVars, matchingVars, pipelineVars>>
  \/ /\ Moves("signIn") /\ SignInNext
     /\ UNCHANGED <<readerVars, relaysVars, rulesVars, listingVars, vaultVars, pricingVars,
                    attemptsVars, eventsVars, outboundVars, matchingVars, pipelineVars>>
  \/ /\ Moves("vault") /\ VaultNext
     /\ UNCHANGED <<readerVars, relaysVars, rulesVars, listingVars, signInVars, pricingVars,
                    attemptsVars, eventsVars, outboundVars, matchingVars, pipelineVars>>
  \/ /\ Moves("pricing") /\ PricingNext
     /\ UNCHANGED <<readerVars, relaysVars, rulesVars, listingVars, signInVars, vaultVars,
                    attemptsVars, eventsVars, outboundVars, matchingVars, pipelineVars>>
  \/ /\ Moves("attempts") /\ AttemptsNext
     /\ UNCHANGED <<readerVars, relaysVars, rulesVars, listingVars, signInVars, vaultVars,
                    pricingVars, eventsVars, outboundVars, matchingVars, pipelineVars>>
  \/ /\ Moves("events") /\ EventsNext
     /\ UNCHANGED <<readerVars, relaysVars, rulesVars, listingVars, signInVars, vaultVars,
                    pricingVars, attemptsVars, outboundVars, matchingVars, pipelineVars>>
  \/ /\ Moves("outbound") /\ OutboundNext
     /\ UNCHANGED <<readerVars, relaysVars, rulesVars, listingVars, signInVars, vaultVars,
                    pricingVars, attemptsVars, eventsVars, matchingVars, pipelineVars>>
  \/ /\ Moves("matching") /\ MatchingNext
     /\ UNCHANGED <<readerVars, relaysVars, rulesVars, listingVars, signInVars, vaultVars,
                    pricingVars, attemptsVars, eventsVars, outboundVars, pipelineVars>>
  \/ /\ Moves("pipeline") /\ PipelineNext
     /\ UNCHANGED <<readerVars, relaysVars, rulesVars, listingVars, signInVars, vaultVars,
                    pricingVars, attemptsVars, eventsVars, outboundVars, matchingVars>>

ServicesSpec == ServicesInit /\ [][ServicesNext]_servicesVars

\* Every component keeps its variables in their types (the type invariants of
\* the modules, as the code's schemas and interfaces have them).
ServicesTypeOK ==
  /\ part = "reader" => ReaderTypeOK
  /\ part = "submit" => SubmitTypeOK
  /\ part = "relays" => RelaysTypeOK
  /\ part = "rules" => RulesTypeOK
  /\ part = "listing" => ListingTypeOK
  /\ part = "signIn" => SignInTypeOK
  /\ part = "vault" => VaultTypeOK
  /\ part = "pricing" => PricingTypeOK
  /\ part = "attempts" => AttemptsTypeOK
  /\ part = "events" => EventsTypeOK
  /\ part = "outbound" => OutboundTypeOK
  /\ part = "matching" => MatchingTypeOK
=============================================================================
