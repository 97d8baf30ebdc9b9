------------------------------- MODULE Outbound ------------------------------
(***************************************************************************)
(* Requests of other services to deliver something for them.  A request is *)
(* a message under an id of its caller's, which is the key of its          *)
(* delivery; it is repeated by its caller and by the queue, handled by     *)
(* runs that overlap and die, and sometimes its id is used anew, for       *)
(* another destination.                                                    *)
(***************************************************************************)
EXTENDS Integers, FiniteSets

CONSTANTS
  RequestIds,
  Targets,        \* destinations, as callers spell them
  Site,           \* [Targets -> what a target comes down to: destinationOf]
  BadTargets,     \* refused by the schema, the prefix of their secret or their size
  Acceptors,      \* dispatcher runs that may overlap
  MaxPuts         \* bound: messages that callers put

NoTarget == "no target"

ASSUME OutboundAssumption ==
  /\ RequestIds # {} /\ Targets # {}
  /\ BadTargets \subseteq Targets /\ NoTarget \notin Targets
  /\ DOMAIN Site = Targets
  /\ MaxPuts \in Nat

InMessage == [id : RequestIds, target : Targets]
Inbox == [pc : {"free", "create", "compare", "queue", "mark"}, message : InMessage]

VARIABLES
  inQueue,      \* messages of callers
  puts,         \* how many they have put
  rowTarget,    \* [RequestIds -> target of the delivery, or NoTarget]
  rowStatus,    \* [RequestIds -> "none", "pending", "queued" or "sent"]
  outQueue,     \* ids that the delivery queue holds a message for
  acceptor,     \* [Acceptors -> Inbox]
  accepted,     \* history: messages taken off the queue as accepted
  sentTo,       \* history: [RequestIds -> targets that were sent to]
  gone          \* history: ids whose delivery's row was over some time

outboundVars == <<inQueue, puts, rowTarget, rowStatus, outQueue, acceptor, accepted, sentTo, gone>>

Free == [pc |-> "free", message |-> CHOOSE m \in InMessage : TRUE]

OutboundInit ==
  /\ inQueue = {} /\ puts = 0
  /\ rowTarget = [i \in RequestIds |-> NoTarget]
  /\ rowStatus = [i \in RequestIds |-> "none"]
  /\ outQueue = {}
  /\ acceptor = [a \in Acceptors |-> Free]
  /\ accepted = {}
  /\ sentTo = [i \in RequestIds |-> {}]
  /\ gone = {}

CallerPuts(i, t) ==
  /\ puts < MaxPuts
  /\ puts' = puts + 1
  /\ inQueue' = inQueue \cup {[id |-> i, target |-> t]}
  /\ UNCHANGED <<rowTarget, rowStatus, outQueue, acceptor, accepted, sentTo, gone>>

Turns(a, s) == acceptor' = [acceptor EXCEPT ![a] = s]

\* A message that is refused, or whose run fails, stays for another receive, and
\* for the dead-letter queue in the end.
Receive(a) ==
  /\ acceptor[a].pc = "free"
  /\ \E m \in inQueue : m.target \notin BadTargets /\ Turns(a, [pc |-> "create", message |-> m])
  /\ UNCHANGED <<inQueue, puts, rowTarget, rowStatus, outQueue, accepted, sentTo, gone>>

DeadLetter ==
  /\ \E m \in inQueue : inQueue' = inQueue \ {m}
  /\ UNCHANGED <<puts, rowTarget, rowStatus, outQueue, acceptor, accepted, sentTo, gone>>

\* Mutant: the destination is a part of the key, as it were.
TakenBy(m) == rowTarget[m.id] = m.target

Taken(m) == rowTarget[m.id] # NoTarget

CreateDelivery(a) ==
  /\ acceptor[a].pc = "create"
  /\ LET m == acceptor[a].message
     IN IF Taken(m)
        THEN Turns(a, [pc |-> "compare", message |-> m]) /\ UNCHANGED <<rowTarget, rowStatus>>
        ELSE /\ rowTarget' = [rowTarget EXCEPT ![m.id] = m.target]
             /\ rowStatus' = [rowStatus EXCEPT ![m.id] = "pending"]
             /\ Turns(a, [pc |-> "queue", message |-> m])
  /\ UNCHANGED <<inQueue, puts, outQueue, accepted, sentTo, gone>>

Takes(a) ==
  /\ accepted' = accepted \cup {acceptor[a].message}
  /\ inQueue' = inQueue \ {acceptor[a].message}
  /\ Turns(a, Free)

\* A row that is gone, or of this destination: an ordinary repeat.
Repeat(m) == rowTarget[m.id] # NoTarget => Site[rowTarget[m.id]] = Site[m.target]

CompareDelivery(a) ==
  /\ acceptor[a].pc = "compare"
  /\ IF Repeat(acceptor[a].message) THEN Takes(a)
     ELSE Turns(a, Free) /\ UNCHANGED <<inQueue, accepted>>
  /\ UNCHANGED <<puts, rowTarget, rowStatus, outQueue, sentTo, gone>>

QueueDelivery(a) ==
  /\ acceptor[a].pc = "queue"
  /\ outQueue' = outQueue \cup {acceptor[a].message.id}
  /\ Turns(a, [acceptor[a] EXCEPT !.pc = "mark"])
  /\ UNCHANGED <<inQueue, puts, rowTarget, rowStatus, accepted, sentTo, gone>>

\* markQueued: a sender or a reaper that was faster makes it fail, and the message comes again.
MarkDelivery(a) ==
  /\ acceptor[a].pc = "mark"
  /\ LET i == acceptor[a].message.id
     IN IF rowStatus[i] = "pending"
        THEN rowStatus' = [rowStatus EXCEPT ![i] = "queued"] /\ Takes(a)
        ELSE Turns(a, Free) /\ UNCHANGED <<rowStatus, inQueue, accepted>>
  /\ UNCHANGED <<puts, rowTarget, outQueue, sentTo, gone>>

AcceptorDies(a) ==
  /\ acceptor[a].pc # "free"
  /\ Turns(a, Free)
  /\ UNCHANGED <<inQueue, puts, rowTarget, rowStatus, outQueue, accepted, sentTo, gone>>

\* The reaper and the sender (Delivery): a delivery that is due gets a message,
\* and a message sends a delivery that is not sent yet.
ReaperQueues(i) ==
  /\ rowStatus[i] \in {"pending", "queued"}
  /\ outQueue' = outQueue \cup {i}
  /\ rowStatus' = [rowStatus EXCEPT ![i] = "queued"]
  /\ UNCHANGED <<inQueue, puts, rowTarget, acceptor, accepted, sentTo, gone>>

SenderSends(i) ==
  /\ i \in outQueue
  /\ outQueue' = outQueue \ {i}
  /\ IF rowStatus[i] \in {"pending", "queued"}
     THEN /\ sentTo' = [sentTo EXCEPT ![i] = @ \cup {rowTarget[i]}]
          /\ rowStatus' = [rowStatus EXCEPT ![i] = "sent"]
     ELSE UNCHANGED <<sentTo, rowStatus>>
  /\ UNCHANGED <<inQueue, puts, rowTarget, acceptor, accepted, gone>>

\* DELIVERY_TTL_SECONDS after the row was created.
RowExpires(i) ==
  /\ rowStatus[i] = "sent"
  /\ rowTarget' = [rowTarget EXCEPT ![i] = NoTarget]
  /\ rowStatus' = [rowStatus EXCEPT ![i] = "none"]
  /\ gone' = gone \cup {i}
  /\ UNCHANGED <<inQueue, puts, outQueue, acceptor, accepted, sentTo>>

OutboundNext ==
  \/ \E i \in RequestIds : \/ \E t \in Targets : CallerPuts(i, t)
                           \/ ReaperQueues(i) \/ SenderSends(i) \/ RowExpires(i)
  \/ DeadLetter
  \/ \E a \in Acceptors : \/ Receive(a) \/ CreateDelivery(a) \/ CompareDelivery(a)
                          \/ QueueDelivery(a) \/ MarkDelivery(a) \/ AcceptorDies(a)

OutboundSpec == OutboundInit /\ [][OutboundNext]_outboundVars

OutboundTypeOK ==
  /\ inQueue \subseteq InMessage /\ puts \in 0..MaxPuts
  /\ rowTarget \in [RequestIds -> Targets \cup {NoTarget}]
  /\ rowStatus \in [RequestIds -> {"none", "pending", "queued", "sent"}]
  /\ outQueue \subseteq RequestIds
  /\ acceptor \in [Acceptors -> Inbox]
  /\ accepted \subseteq InMessage
  /\ sentTo \in [RequestIds -> SUBSET Targets]
  /\ gone \subseteq RequestIds

\* While a delivery's row lives, its request id stands for one destination: no
\* other is ever sent to, and no request for another, or for one that is not
\* allowed, is taken as accepted, however runs race and die (outbound.ts:93-95).
OneDestination ==
  /\ \A i \in RequestIds \ gone :
       /\ Cardinality(sentTo[i]) <= 1
       /\ \A m \in accepted : m.id = i =>
            rowTarget[i] # NoTarget /\ Site[rowTarget[i]] = Site[m.target]
  /\ \A m \in accepted : m.target \notin BadTargets
=============================================================================
