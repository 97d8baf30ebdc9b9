------------------------------- MODULE Outbox -------------------------------
(***************************************************************************)
(* What the actions service promises of a delivery.  It is created once,   *)
(* and is then live until it is recorded as delivered or as dead.          *)
(* Delivered is for good, and is only ever said of a delivery that its     *)
(* destination accepted.  Dead is for good too, unless an operator         *)
(* redrives the delivery.  Nothing limits how often a destination may get  *)
(* a delivery: at least once is the promise.                               *)
(***************************************************************************)
CONSTANT Deliveries

VARIABLES
  state,     \* [Deliveries -> {"none", "live", "delivered", "dead"}]
  accepted   \* deliveries that their destination accepted at least once

vars == <<state, accepted>>

Init ==
  /\ state = [d \in Deliveries |-> "none"]
  /\ accepted = {}

Move(d, from, to) ==
  /\ state[d] = from
  /\ state' = [state EXCEPT ![d] = to]
  /\ UNCHANGED accepted

Create(d) == Move(d, "none", "live")
Deliver(d) == d \in accepted /\ Move(d, "live", "delivered")
Die(d) == Move(d, "live", "dead")
Redrive(d) == Move(d, "dead", "live")

\* A sender that has lost its claim may still reach the destination.
Accept(d) ==
  /\ state[d] # "none"
  /\ accepted' = accepted \cup {d}
  /\ UNCHANGED state

Next == \E d \in Deliveries :
  Create(d) \/ Deliver(d) \/ Die(d) \/ Redrive(d) \/ Accept(d)

Spec == Init /\ [][Next]_vars
=============================================================================
