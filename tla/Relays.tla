------------------------------- MODULE Relays --------------------------------
(***************************************************************************)
(* The relay action: a sender of the actions service is the client of the  *)
(* relayer's submission route.  The delivery's id is the idempotency key   *)
(* of every attempt, an attempt waits for its answer a while and is then   *)
(* made again, and what the relayer answers decides whether the delivery   *)
(* is delivered, tried again or dead.  A delivery is a request of Submit.  *)
(***************************************************************************)
EXTENDS Submit

CONSTANTS
  Relayed,       \* deliveries of relay actions
  MAX_ATTEMPTS_OF_DELIVERY,
  MaxBegun       \* bound: attempts of one delivery, over its redrives too

NoCall == "none"

ASSUME RelaysAssumption ==
  /\ Relayed \subseteq Requests /\ NoCall \notin Calls
  /\ MAX_ATTEMPTS_OF_DELIVERY \in Nat \ {0} /\ MaxBegun \in Nat

\* What the client makes of an answer, or of none: RelayerApiError's codes.
Codes == Outcomes \cup {"network_error", "throttled", "unauthorized"}

Delivery == [status : {"waiting", "sending", "delivered", "dead"}, attempts : Nat,
             by : Calls \cup {NoCall}, cause : Codes \cup {"none", "exhausted"}]

VARIABLES
  delivery,   \* [Relayed -> Delivery]; `by` is the call that the last claim waits for
  begun,      \* [Relayed -> attempts begun], for the bound
  doubled     \* history: deliveries tried again while an earlier call was still handled

relaysVars == <<submitVars, delivery, begun, doubled>>

RelaysInit ==
  /\ SubmitInit
  /\ delivery = [d \in Relayed |-> [status |-> "waiting", attempts |-> 0, by |-> NoCall, cause |-> "none"]]
  /\ begun = [d \in Relayed |-> 0]
  /\ doubled = {}

\* Codes that mean "ask again shortly", and those that come with a 4xx.
\* Mutant: a client that is throttled did something wrong.
WithoutThrottled == {"network_error", "busy"}

TRANSIENT_CODES == {"network_error", "throttled", "busy"}

Refusals == {"conflict", "refused", "cap", "throttled", "unauthorized"}

classify(code) ==
  IF code = "stored" THEN "delivered"
  ELSE IF code \in TRANSIENT_CODES THEN "retry"
  ELSE IF code \in Refusals THEN "permanent" ELSE "retry"

\* recordOutcome, of the run that made the last claim.
Outcome(d, code) ==
  LET kind == classify(code)
      was == delivery[d]
  IN delivery' = [delivery EXCEPT ![d] =
       IF kind = "delivered" THEN [was EXCEPT !.status = "delivered", !.by = NoCall]
       ELSE IF kind = "permanent" \/ was.attempts >= MAX_ATTEMPTS_OF_DELIVERY
       THEN [was EXCEPT !.status = "dead", !.by = NoCall,
                        !.cause = IF kind = "permanent" THEN code ELSE "exhausted"]
       ELSE [was EXCEPT !.status = "waiting", !.by = NoCall]]

Handled(d) == \E c \in Calls : call[c].pc # "idle" /\ call[c].request = d

\* A message of the delivery arrives, is claimed and its transaction submitted: for
\* the first time, after a delay, or beside another sender by a second message.  The
\* delay is longer than what the route may take beyond its client's patience; a second
\* message and an operator wait for nothing.
Attempt(d, c) ==
  /\ delivery[d].status \in {"waiting", "sending"} /\ begun[d] < MaxBegun
  /\ Relay(c, d)
  /\ delivery' = [delivery EXCEPT ![d].status = "sending", ![d].attempts = @ + 1, ![d].by = c]
  /\ begun' = [begun EXCEPT ![d] = @ + 1]
  /\ doubled' = IF Handled(d) THEN doubled \cup {d} ELSE doubled

\* The gateway or the check of the API key answers, and nothing more is done.
TurnedAway(d, code) ==
  /\ delivery[d].status = "sending" /\ delivery[d].by # NoCall
  /\ call[delivery[d].by].pc = "lookup"
  /\ Outcome(d, code)
  /\ call' = [call EXCEPT ![delivery[d].by].pc = "idle"]
  /\ UNCHANGED <<today, stored, claims, spentGwei, answered, expired, lost, begun, doubled>>

Hears(d) ==
  /\ delivery[d].by # NoCall
  /\ Reaches(delivery[d].by) /\ Outcome(d, call[delivery[d].by].answer.what)
  /\ UNCHANGED <<begun, doubled>>

\* The client waits no longer, and the route may go on.  A sender that dies before it
\* records the outcome comes to the same: the reaper takes the delivery up again.
TimesOut(d) ==
  /\ delivery[d].by # NoCall
  /\ Outcome(d, "network_error")
  /\ UNCHANGED <<submitVars, begun, doubled>>

Waiting(c) == \E d \in Relayed : delivery[d].by = c

\* Nobody waits for the answer any more.
Unheard(c) ==
  /\ call[c].pc = "answer" /\ ~Waiting(c)
  /\ Is(c, [call[c] EXCEPT !.pc = "idle", !.answer = Unanswered, !.day = 0])
  /\ UNCHANGED <<today, stored, claims, spentGwei, answered, expired, lost, delivery, begun, doubled>>

\* The route's run dies: its client, if there is one, takes that for no answer.
RouteDies(c) ==
  /\ Lost(c) /\ UNCHANGED <<begun, doubled>>
  /\ \/ ~Waiting(c) /\ UNCHANGED delivery
     \/ \E d \in Relayed : delivery[d].by = c /\ Outcome(d, "network_error")

Redrive(d) ==
  /\ delivery[d].status = "dead"
  /\ delivery' = [delivery EXCEPT ![d] = [status |-> "waiting", attempts |-> 0, by |-> NoCall, cause |-> "none"]]
  /\ UNCHANGED <<submitVars, begun, doubled>>

RelaysNext ==
  \/ \E d \in Relayed :
       \/ \E c \in Calls : Attempt(d, c)
       \/ \E code \in {"throttled", "unauthorized"} : TurnedAway(d, code)
       \/ Hears(d) \/ TimesOut(d) \/ Redrive(d)
  \/ \E c \in Calls : Unheard(c) \/ RouteDies(c)
  \/ /\ \/ Midnight \/ (\E k \in Keys : ClaimExpires(k))
        \/ \E c \in Calls : Lookup(c) \/ Check(c) \/ Create(c) \/ Busy(c) \/ Raced(c)
     /\ UNCHANGED <<delivery, begun, doubled>>

RelaysSpec == RelaysInit /\ [][RelaysNext]_relaysVars

(***************************************************************************)
(* Properties                                                              *)
(***************************************************************************)
RelaysTypeOK ==
  /\ SubmitTypeOK
  /\ delivery \in [Relayed -> Delivery]
  /\ begun \in [Relayed -> 0..MaxBegun]
  /\ doubled \subseteq Relayed

TxsOf(d) == {t \in stored : t.request = d}

\* While the claim of its key lives, a delivery is delivered only with a transaction
\* of its own stored, and refused only without one, unless a second sender tried it
\* while a first call was still handled (relay.ts:7-19 and :56, "a retry after a
\* timeout gets the first transaction back, not a second").
RelayEndsTrue ==
  \A d \in Relayed : KeyOf[d] \notin expired =>
    /\ delivery[d].status = "delivered" => TxsOf(d) # {}
    /\ /\ delivery[d].status = "dead" /\ delivery[d].cause \notin {"exhausted", "unauthorized"}
       /\ d \notin doubled
       => TxsOf(d) = {}

\* A delivery whose destination is the relayer keeps the promise of Outbox with the
\* relayer's own table as the acceptance: delivered is for good and is only said once
\* a transaction of the delivery was stored, also after its key was forgotten, and
\* nothing is stored for a delivery that was never tried (sender.ts:62-81, relay.ts:20-60).
RelayState(d) ==
  IF begun[d] = 0 THEN "none"
  ELSE IF delivery[d].status \in {"waiting", "sending"} THEN "live" ELSE delivery[d].status

RelaysPromise == INSTANCE Outbox WITH
  Deliveries <- Relayed,
  state <- [d \in Relayed |-> RelayState(d)],
  accepted <- {d \in Relayed : TxsOf(d) # {}}
RelaysOutboxKept == RelaysPromise!Spec
=============================================================================
