----------------------------- MODULE TxPromise -----------------------------
(***************************************************************************)
(* What the relayer promises a client about each transaction it accepted:  *)
(* the statuses its API and webhooks report, against what the chain did    *)
(* with the payload.  A failed one is not executed and never will be, so   *)
(* its payload may be submitted again; a confirmed one stays executed.     *)
(***************************************************************************)
CONSTANT Payloads

VARIABLES
  status,    \* [Payloads -> the status reported]
  executed   \* the payloads the chain has executed

vars == <<status, executed>>

Init ==
  /\ status = [t \in Payloads |-> "none"]
  /\ executed = {}

Report(t, from, to) ==
  /\ status[t] \in from
  /\ status' = [status EXCEPT ![t] = to]
  /\ UNCHANGED executed

Accept(t) == Report(t, {"none"}, "queued")
Sent(t) == Report(t, {"queued"}, "submitted")
SeenMined(t) == Report(t, {"submitted"}, "mined")
SeenReorged(t) == Report(t, {"mined"}, "submitted")
Confirm(t) == t \in executed /\ Report(t, {"mined"}, "confirmed")
Fail(t) == t \notin executed /\ Report(t, {"queued", "submitted"}, "failed")

\* The chain may execute a payload at any time until it is settled...
Execute(t) ==
  /\ status[t] \in {"queued", "submitted", "mined"}
  /\ t \notin executed
  /\ executed' = executed \cup {t}
  /\ UNCHANGED status

\* ...and a reorg may take back any that is not confirmed.
Undo ==
  /\ executed' \in SUBSET executed
  /\ \A t \in executed \ executed' : status[t] # "confirmed"
  /\ UNCHANGED status

Next ==
  \/ \E t \in Payloads :
       \/ Accept(t) \/ Sent(t) \/ SeenMined(t) \/ SeenReorged(t)
       \/ Confirm(t) \/ Fail(t) \/ Execute(t)
  \/ Undo

Spec == Init /\ [][Next]_vars

(***************************************************************************)
(* What stands of the promise whatever is lost, times out or overlaps:     *)
(* reports go along the same edges, and confirmed is said of what is       *)
(* executed and stays so.  Failed may then be said of what is executed.    *)
(***************************************************************************)
ReportAnyway(t) ==
  \/ Accept(t) \/ Sent(t) \/ SeenMined(t) \/ SeenReorged(t) \/ Confirm(t)
  \/ Report(t, {"queued", "submitted"}, "failed")

ExecuteAnyway ==
  /\ executed' \in SUBSET Payloads
  /\ \A t \in executed \ executed' : status[t] # "confirmed"
  /\ UNCHANGED status

NextAnyway == (\E t \in Payloads : ReportAnyway(t)) \/ ExecuteAnyway

SpecAnyway == Init /\ [][NextAnyway]_vars
=============================================================================
