---------------------------- MODULE ActionsProofs ----------------------------
(***************************************************************************)
(* Proofs about Outbound and Events: an outbound request id stands for one *)
(* destination, and every change of a transaction or a match is planned as *)
(* its one event, for every set of runs and targets and every history.     *)
(* At the end, over the proofs of the other small components, that all of  *)
(* them keep their types.                                                  *)
(***************************************************************************)
EXTENDS MCServices, ChainProofs, SubmitProofs, ApiProofs, AttemptsProofs, FiniteSetTheorems,
        SequenceTheorems, TLAPS

(***************************************************************************)
(* Outbound requests                                                       *)
(***************************************************************************)

\* A row and its status come and go together.
RowWhole == \A i \in RequestIds : rowStatus[i] = "none" <=> rowTarget[i] = NoTarget

\* Until its row was over an id is sent to, and accepted for, what the row names.
RowDecides ==
  \A i \in RequestIds \ gone :
    /\ sentTo[i] \subseteq {rowTarget[i]} \ {NoTarget}
    /\ \A m \in accepted : m.id = i =>
         rowTarget[i] # NoTarget /\ Site[rowTarget[i]] = Site[m.target]

\* What a run has in hand was allowed; once it went past the creation there is a
\* row, which is its own if it goes on to queue it.
HandsOK ==
  \A a \in Acceptors : LET s == acceptor[a] IN
    /\ s.pc # "free" => s.message.target \notin BadTargets
    /\ s.message.id \notin gone =>
         /\ s.pc \in {"compare", "queue", "mark"} => rowTarget[s.message.id] # NoTarget
         /\ s.pc \in {"queue", "mark"} => rowTarget[s.message.id] = s.message.target

AcceptedAllowed == \A m \in accepted : m.target \notin BadTargets

OutboundInv == OutboundTypeOK /\ RowWhole /\ RowDecides /\ HandsOK /\ AcceptedAllowed

LEMMA FreeIn == Free \in Inbox /\ Free.pc = "free"
<1>0. PICK i \in RequestIds, t \in Targets : TRUE
  BY OutboundAssumption
<1>1. [id |-> i, target |-> t] \in InMessage
  BY <1>0 DEF InMessage
<1>2. (CHOOSE m \in InMessage : TRUE) \in InMessage
  BY <1>1
<1> QED
  BY <1>2 DEF Free, Inbox

\* A set with one value at most has one element at most.
LEMMA OneAtMost ==
  ASSUME NEW S, NEW x, S \subseteq {x}
  PROVE  Cardinality(S) <= 1
<1>1. S = {} \/ S = {x}
  OBVIOUS
<1>2. Cardinality({}) = 0 /\ Cardinality({x}) = 1
  BY FS_EmptySet, FS_Singleton
<1>3. CASE S = {}
  BY <1>2, <1>3
<1>4. CASE S = {x}
  BY <1>2, <1>4
<1> QED
  BY <1>1, <1>3, <1>4

LEMMA OutboundInvSafe == ASSUME OutboundInv PROVE OneDestination
<1>1. ASSUME NEW i \in RequestIds \ gone PROVE Cardinality(sentTo[i]) <= 1
  <2>1. sentTo[i] \subseteq {rowTarget[i]}
    BY DEF OutboundInv, RowDecides
  <2> QED
    BY <2>1, OneAtMost
<1> QED
  BY <1>1 DEF OutboundInv, RowDecides, AcceptedAllowed, OneDestination

LEMMA OutboundInitInv == ASSUME OutboundInit PROVE OutboundInv
<1>1. OutboundTypeOK
  BY FreeIn, OutboundAssumption DEF OutboundInit, OutboundTypeOK
<1>2. HandsOK
  BY FreeIn DEF OutboundInit, HandsOK
<1> QED
  BY <1>1, <1>2 DEF OutboundInit, OutboundInv, RowWhole, RowDecides, AcceptedAllowed

\* A run that goes on with its message, or lets it go.
LEMMA TurnsTyped ==
  ASSUME OutboundTypeOK, NEW a \in Acceptors, NEW s \in Inbox, Turns(a, s)
  PROVE  /\ acceptor' \in [Acceptors -> Inbox]
         /\ acceptor'[a] = s
         /\ \A b \in Acceptors \ {a} : acceptor'[b] = acceptor[b]
BY DEF OutboundTypeOK, Turns

LEMMA TurnsHands ==
  ASSUME OutboundInv, NEW a \in Acceptors, NEW s \in Inbox, Turns(a, s),
         UNCHANGED <<rowTarget, gone>>,
         s.pc # "free" => s.message.target \notin BadTargets,
         s.message.id \notin gone =>
           /\ s.pc \in {"compare", "queue", "mark"} => rowTarget[s.message.id] # NoTarget
           /\ s.pc \in {"queue", "mark"} => rowTarget[s.message.id] = s.message.target
  PROVE  HandsOK'
<1>1. acceptor'[a] = s /\ \A b \in Acceptors \ {a} : acceptor'[b] = acceptor[b]
  BY TurnsTyped DEF OutboundInv
<1>2. ASSUME NEW b \in Acceptors
      PROVE  LET r == acceptor'[b] IN
             /\ r.pc # "free" => r.message.target \notin BadTargets
             /\ r.message.id \notin gone =>
                  /\ r.pc \in {"compare", "queue", "mark"} => rowTarget[r.message.id] # NoTarget
                  /\ r.pc \in {"queue", "mark"} => rowTarget[r.message.id] = r.message.target
  <2>1. CASE b = a
    BY <1>1, <2>1
  <2>2. CASE b # a
    BY <1>1, <2>2 DEF OutboundInv, HandsOK
  <2> QED
    BY <2>1, <2>2
<1> QED
  BY <1>2 DEF HandsOK

LEMMA ReceiveInv == ASSUME OutboundInv, NEW a \in Acceptors, Receive(a) PROVE OutboundInv'
<1>1. PICK m \in inQueue : m.target \notin BadTargets /\ Turns(a, [pc |-> "create", message |-> m])
  BY DEF Receive
<1> DEFINE s == [pc |-> "create", message |-> m]
<1>2. s \in Inbox /\ s.pc = "create" /\ s.message = m
  BY DEF OutboundInv, OutboundTypeOK, Inbox
<1>3. Turns(a, s)
  BY <1>1
<1> HIDE DEF s
<1>4. OutboundTypeOK'
  BY <1>2, <1>3, TurnsTyped DEF Receive, OutboundInv, OutboundTypeOK
<1>5. HandsOK'
  BY <1>1, <1>2, <1>3, TurnsHands DEF Receive
<1> QED
  BY <1>4, <1>5 DEF Receive, OutboundInv, RowWhole, RowDecides, AcceptedAllowed

LEMMA CreatesInv == ASSUME OutboundInv, NEW a \in Acceptors, CreateDelivery(a) PROVE OutboundInv'
<1> DEFINE m == acceptor[a].message
<1>1. m \in InMessage /\ m.id \in RequestIds /\ m.target \in Targets /\ m.target \notin BadTargets
      /\ m.target # NoTarget
  BY OutboundAssumption DEF CreateDelivery, OutboundInv, OutboundTypeOK, HandsOK, Inbox, InMessage
<1> HIDE DEF m
<1>2. CASE Taken(m)
  <2> DEFINE s == [pc |-> "compare", message |-> m]
  <2>1. s \in Inbox /\ s.pc = "compare" /\ s.message = m
    BY <1>1 DEF Inbox
  <2>2. Turns(a, s) /\ UNCHANGED <<rowTarget, rowStatus, gone, inQueue, puts, outQueue, accepted, sentTo>>
    BY <1>2 DEF CreateDelivery, m
  <2>3. rowTarget[m.id] # NoTarget
    BY <1>2 DEF Taken
  <2> HIDE DEF s
  <2>4. OutboundTypeOK'
    BY <2>1, <2>2, TurnsTyped DEF OutboundInv, OutboundTypeOK
  <2>5. HandsOK'
    BY <1>1, <2>1, <2>2, <2>3, TurnsHands
  <2> QED
    BY <2>2, <2>4, <2>5 DEF OutboundInv, RowWhole, RowDecides, AcceptedAllowed
<1>3. CASE ~Taken(m)
  <2> DEFINE s == [pc |-> "queue", message |-> m]
  <2>1. s \in Inbox /\ s.pc = "queue" /\ s.message = m
    BY <1>1 DEF Inbox
  <2>2. Turns(a, s) /\ UNCHANGED <<gone, inQueue, puts, outQueue, accepted, sentTo>>
    BY <1>3 DEF CreateDelivery, m
  <2>3. /\ rowTarget' = [rowTarget EXCEPT ![m.id] = m.target]
        /\ rowStatus' = [rowStatus EXCEPT ![m.id] = "pending"]
    BY <1>3 DEF CreateDelivery, m
  <2>4. rowTarget[m.id] = NoTarget
    BY <1>3 DEF Taken
  <2> HIDE DEF s
  <2>5. /\ rowTarget'[m.id] = m.target /\ rowStatus'[m.id] = "pending"
        /\ \A i \in RequestIds \ {m.id} : rowTarget'[i] = rowTarget[i] /\ rowStatus'[i] = rowStatus[i]
    BY <1>1, <2>3 DEF OutboundInv, OutboundTypeOK
  <2>6. /\ rowTarget' \in [RequestIds -> Targets \cup {NoTarget}]
        /\ rowStatus' \in [RequestIds -> {"none", "pending", "queued", "sent"}]
    BY <1>1, <2>3 DEF OutboundInv, OutboundTypeOK
  <2>7. OutboundTypeOK'
    BY <2>1, <2>2, <2>6, TurnsTyped DEF OutboundInv, OutboundTypeOK
  <2>8. RowWhole'
    BY <1>1, <2>5 DEF OutboundInv, RowWhole
  <2>9. RowDecides'
    BY <1>1, <2>2, <2>4, <2>5 DEF OutboundInv, RowDecides
  <2>10. acceptor'[a] = s /\ \A b \in Acceptors \ {a} : acceptor'[b] = acceptor[b]
    BY <2>1, <2>2, TurnsTyped DEF OutboundInv
  <2>11. ASSUME NEW b \in Acceptors
         PROVE  LET r == acceptor'[b] IN
                /\ r.pc # "free" => r.message.target \notin BadTargets
                /\ r.message.id \notin gone' =>
                     /\ r.pc \in {"compare", "queue", "mark"} => rowTarget'[r.message.id] # NoTarget
                     /\ r.pc \in {"queue", "mark"} => rowTarget'[r.message.id] = r.message.target
    <3>1. CASE b = a
      BY <1>1, <2>1, <2>5, <2>10, <3>1
    <3>2. CASE b # a
      <4>1. acceptor'[b] = acceptor[b] /\ acceptor[b].message.id \in RequestIds
        BY <2>10, <3>2 DEF OutboundInv, OutboundTypeOK, Inbox, InMessage
      <4>2. HandsOK
        BY DEF OutboundInv
      <4>3. CASE acceptor[b].message.id = m.id
        BY <1>1, <2>2, <2>4, <4>1, <4>2, <4>3 DEF HandsOK
      <4>4. CASE acceptor[b].message.id # m.id
        BY <2>2, <2>5, <4>1, <4>2, <4>4 DEF HandsOK
      <4> QED
        BY <4>3, <4>4
    <3> QED
      BY <3>1, <3>2
  <2>12. HandsOK'
    BY <2>11 DEF HandsOK
  <2> QED
    BY <2>2, <2>7, <2>8, <2>9, <2>12 DEF OutboundInv, AcceptedAllowed
<1> QED
  BY <1>2, <1>3

\* A message that is turns as accepted, the row being for its destination.
LEMMA TakesInv ==
  ASSUME OutboundInv, NEW a \in Acceptors, Takes(a), acceptor[a].pc # "free",
         UNCHANGED <<puts, rowTarget, outQueue, sentTo, gone>>,
         rowStatus' \in [RequestIds -> {"none", "pending", "queued", "sent"}],
         \A i \in RequestIds : rowStatus'[i] = "none" <=> rowStatus[i] = "none",
         acceptor[a].message.id \notin gone =>
           /\ rowTarget[acceptor[a].message.id] # NoTarget
           /\ Site[rowTarget[acceptor[a].message.id]] = Site[acceptor[a].message.target]
  PROVE  OutboundInv'
<1> DEFINE m == acceptor[a].message
<1>1. m \in InMessage /\ m.target \notin BadTargets
  BY DEF OutboundInv, OutboundTypeOK, HandsOK, Inbox
<1>2. accepted' = accepted \cup {m} /\ inQueue' = inQueue \ {m} /\ Turns(a, Free)
  BY DEF Takes
<1>3. m.id \notin gone => rowTarget[m.id] # NoTarget /\ Site[rowTarget[m.id]] = Site[m.target]
  OBVIOUS
<1> HIDE DEF m
<1>4. OutboundTypeOK'
  BY <1>1, <1>2, FreeIn, TurnsTyped DEF OutboundInv, OutboundTypeOK
<1>5. HandsOK'
  BY <1>2, FreeIn, TurnsHands
<1>6. RowDecides'
  BY <1>2, <1>3 DEF OutboundInv, RowDecides
<1> QED
  BY <1>1, <1>2, <1>4, <1>5, <1>6 DEF OutboundInv, RowWhole, AcceptedAllowed

\* A run that only goes on, or ends.
LEMMA GoesOnInv ==
  ASSUME OutboundInv, NEW a \in Acceptors, NEW s \in Inbox, Turns(a, s),
         UNCHANGED <<inQueue, puts, rowTarget, rowStatus, accepted, sentTo, gone>>,
         outQueue' \in SUBSET RequestIds,
         s.pc # "free" => s.message.target \notin BadTargets,
         s.message.id \notin gone =>
           /\ s.pc \in {"compare", "queue", "mark"} => rowTarget[s.message.id] # NoTarget
           /\ s.pc \in {"queue", "mark"} => rowTarget[s.message.id] = s.message.target
  PROVE  OutboundInv'
<1>1. OutboundTypeOK'
  BY TurnsTyped DEF OutboundInv, OutboundTypeOK
<1>2. HandsOK'
  BY TurnsHands
<1> QED
  BY <1>1, <1>2 DEF OutboundInv, RowWhole, RowDecides, AcceptedAllowed

LEMMA LetGoInv ==
  ASSUME OutboundInv, NEW a \in Acceptors, Turns(a, Free),
         UNCHANGED <<inQueue, puts, rowTarget, rowStatus, outQueue, accepted, sentTo, gone>>
  PROVE  OutboundInv'
<1>1. outQueue' \in SUBSET RequestIds
  BY DEF OutboundInv, OutboundTypeOK
<1> QED
  BY <1>1, FreeIn, GoesOnInv

LEMMA CompareInv == ASSUME OutboundInv, NEW a \in Acceptors, CompareDelivery(a) PROVE OutboundInv'
<1>1. CASE Repeat(acceptor[a].message)
  <2>1. Takes(a) /\ acceptor[a].pc = "compare"
        /\ UNCHANGED <<puts, rowTarget, rowStatus, outQueue, sentTo, gone>>
    BY <1>1 DEF CompareDelivery
  <2>2. acceptor[a].message.id \notin gone => rowTarget[acceptor[a].message.id] # NoTarget
    BY <2>1 DEF OutboundInv, HandsOK
  <2>3. rowStatus' \in [RequestIds -> {"none", "pending", "queued", "sent"}]
    BY <2>1 DEF OutboundInv, OutboundTypeOK
  <2> QED
    BY <1>1, <2>1, <2>2, <2>3, TakesInv DEF Repeat
<1>2. CASE ~Repeat(acceptor[a].message)
  BY <1>2, LetGoInv DEF CompareDelivery
<1> QED
  BY <1>1, <1>2

LEMMA QueueInv == ASSUME OutboundInv, NEW a \in Acceptors, QueueDelivery(a) PROVE OutboundInv'
<1> DEFINE s == [acceptor[a] EXCEPT !.pc = "mark"]
<1>1. acceptor[a] \in Inbox /\ acceptor[a].pc = "queue"
  BY DEF QueueDelivery, OutboundInv, OutboundTypeOK
<1>2. s \in Inbox /\ s.pc = "mark" /\ s.message = acceptor[a].message
  BY <1>1 DEF Inbox
<1>3. Turns(a, s)
  BY DEF QueueDelivery
<1> HIDE DEF s
<1>4. acceptor[a].message.id \in RequestIds
  BY <1>1 DEF Inbox, InMessage
<1>5. outQueue' \in SUBSET RequestIds
  BY <1>4 DEF QueueDelivery, OutboundInv, OutboundTypeOK
<1>6. s.message.target \notin BadTargets
  BY <1>1, <1>2 DEF OutboundInv, HandsOK
<1>7. s.message.id \notin gone =>
        rowTarget[s.message.id] # NoTarget /\ rowTarget[s.message.id] = s.message.target
  BY <1>1, <1>2 DEF OutboundInv, HandsOK
<1> QED
  BY <1>2, <1>3, <1>5, <1>6, <1>7, GoesOnInv DEF QueueDelivery

LEMMA MarkInv == ASSUME OutboundInv, NEW a \in Acceptors, MarkDelivery(a) PROVE OutboundInv'
<1> DEFINE i == acceptor[a].message.id
<1>1. i \in RequestIds /\ acceptor[a].pc = "mark"
  BY DEF MarkDelivery, OutboundInv, OutboundTypeOK, Inbox, InMessage
<1>2. CASE rowStatus[i] = "pending"
  <2>1. Takes(a) /\ rowStatus' = [rowStatus EXCEPT ![i] = "queued"]
        /\ UNCHANGED <<puts, rowTarget, outQueue, sentTo, gone>>
    BY <1>2 DEF MarkDelivery
  <2>2. /\ rowStatus' \in [RequestIds -> {"none", "pending", "queued", "sent"}]
        /\ \A j \in RequestIds : rowStatus'[j] = "none" <=> rowStatus[j] = "none"
    BY <1>1, <1>2, <2>1 DEF OutboundInv, OutboundTypeOK
  <2>3. i \notin gone => rowTarget[i] # NoTarget /\ rowTarget[i] = acceptor[a].message.target
    BY <1>1 DEF OutboundInv, HandsOK
  <2> QED
    BY <1>1, <2>1, <2>2, <2>3, TakesInv
<1>3. CASE rowStatus[i] # "pending"
  BY <1>3, LetGoInv DEF MarkDelivery
<1> QED
  BY <1>2, <1>3

LEMMA SendsOutInv == ASSUME OutboundInv, NEW i \in RequestIds, SenderSends(i) PROVE OutboundInv'
<1>1. OutboundTypeOK'
  <2>1. CASE rowStatus[i] \in {"pending", "queued"}
    <3>1. rowTarget[i] \in Targets
      BY <2>1 DEF OutboundInv, OutboundTypeOK, RowWhole
    <3> QED
      BY <2>1, <3>1 DEF SenderSends, OutboundInv, OutboundTypeOK
  <2>2. CASE rowStatus[i] \notin {"pending", "queued"}
    BY <2>2 DEF SenderSends, OutboundInv, OutboundTypeOK
  <2> QED
    BY <2>1, <2>2
<1>2. RowWhole'
  BY DEF SenderSends, OutboundInv, OutboundTypeOK, RowWhole
<1>3. RowDecides'
  BY DEF SenderSends, OutboundInv, OutboundTypeOK, RowWhole, RowDecides
<1>4. HandsOK'
  BY DEF SenderSends, OutboundInv, HandsOK
<1> QED
  BY <1>1, <1>2, <1>3, <1>4 DEF SenderSends, OutboundInv, AcceptedAllowed

LEMMA ExpiresInv == ASSUME OutboundInv, NEW i \in RequestIds, RowExpires(i) PROVE OutboundInv'
<1>1. OutboundTypeOK'
  BY DEF RowExpires, OutboundInv, OutboundTypeOK
<1>2. RowWhole'
  BY DEF RowExpires, OutboundInv, OutboundTypeOK, RowWhole
<1>3. RowDecides'
  BY DEF RowExpires, OutboundInv, OutboundTypeOK, RowDecides
<1>4. \A j \in RequestIds : j \notin gone' => rowTarget'[j] = rowTarget[j] /\ j \notin gone
  BY DEF RowExpires, OutboundInv, OutboundTypeOK
<1>5. acceptor' = acceptor /\ \A b \in Acceptors : acceptor[b].message.id \in RequestIds
  BY DEF RowExpires, OutboundInv, OutboundTypeOK, Inbox, InMessage
<1>6. HandsOK'
  BY <1>4, <1>5 DEF OutboundInv, HandsOK
<1> QED
  BY <1>1, <1>2, <1>3, <1>6 DEF RowExpires, OutboundInv, AcceptedAllowed

LEMMA OutboundNextInv == ASSUME OutboundInv, [OutboundNext]_outboundVars PROVE OutboundInv'
<1>1. CASE UNCHANGED outboundVars
  BY <1>1 DEF outboundVars, OutboundInv, OutboundTypeOK, RowWhole, RowDecides, HandsOK,
              AcceptedAllowed
<1>2. CASE \E i \in RequestIds, t \in Targets : CallerPuts(i, t)
  <2>1. PICK i \in RequestIds, t \in Targets : CallerPuts(i, t)
    BY <1>2
  <2>2. OutboundTypeOK'
    BY <2>1, OutboundAssumption DEF CallerPuts, OutboundInv, OutboundTypeOK, InMessage
  <2> QED
    BY <2>1, <2>2 DEF CallerPuts, OutboundInv, RowWhole, RowDecides, HandsOK, AcceptedAllowed
<1>3. CASE \E i \in RequestIds : ReaperQueues(i)
  BY <1>3 DEF ReaperQueues, OutboundInv, OutboundTypeOK, RowWhole, RowDecides, HandsOK,
              AcceptedAllowed
<1>4. CASE DeadLetter
  BY <1>4 DEF DeadLetter, OutboundInv, OutboundTypeOK, RowWhole, RowDecides, HandsOK,
              AcceptedAllowed
<1>5. CASE \E a \in Acceptors : AcceptorDies(a)
  BY <1>5, LetGoInv DEF AcceptorDies
<1>6. CASE OutboundNext
  BY <1>2, <1>3, <1>4, <1>5, <1>6, SendsOutInv, ExpiresInv, ReceiveInv, CreatesInv, CompareInv,
     QueueInv, MarkInv
  DEF OutboundNext
<1> QED
  BY <1>1, <1>6

\* A row's target and status, what a run holds and what was sent keep their types,
\* however runs race and die (outbound.ts:77-146).
THEOREM OutboundTypes == OutboundSpec => []OutboundTypeOK
BY OutboundInitInv, OutboundNextInv, PTL DEF OutboundSpec, OutboundInv

\* While its delivery's row lives a request id stands for one destination,
\* however the runs that accept it, the reaper and the sender race and die
\* (outbound.ts:93-95).
THEOREM OneDestinationEach == OutboundSpec => []OneDestination
BY OutboundInitInv, OutboundNextInv, OutboundInvSafe, PTL DEF OutboundSpec

(***************************************************************************)
(* Event planning                                                          *)
(***************************************************************************)

TxEventAt(past, k) == [kind |-> "tx", event |-> past[k], seq |-> k - 1]
MatchEventOf(s) == [kind |-> "match", event |-> s, seq |-> 0]

\* What happened, as events.
Expected(past, turns) ==
  {TxEventAt(past, k) : k \in 1 .. Len(past)} \cup {MatchEventOf(s) : s \in turns}

\* An image holds the statuses that happened at the places it counts.
ImageTrue(image, past) ==
  /\ image \in TxImage
  /\ count(image) <= Len(past)
  /\ \A i \in 1 .. Len(image.history) : image.history[i] = past[image.historyBase + i]

ChangeTrue(change, past, turns) ==
  \/ /\ change \in TxChange
     /\ ImageTrue(change.old, past) /\ ImageTrue(change.new, past)
  \/ /\ change \in MatchChange
     /\ change.new \in turns

EventsTyped ==
  /\ matchStatus \in MatchStatuses /\ turned \subseteq MatchStatuses
  /\ happened \in Seq(Statuses)
  /\ stream \in Seq(TxChange \cup MatchChange)

\* The row counts every change, until it is removed after the last one.
RowCounts == count(txImage) = Len(happened) \/ Len(happened) = MaxChanges

StreamTrue == \A j \in 1 .. Len(stream) : ChangeTrue(stream[j], happened, turned)

\* What happened is planned, or a record to come plans it.
NoneMissed ==
  \A e \in Expected(happened, turned) :
    e \in planned \/ \E j \in 1 .. Len(stream) : e \in changesFor(stream[j])

EventsInv ==
  /\ EventsTyped
  /\ ImageTrue(txImage, happened)
  /\ RowCounts
  /\ StreamTrue
  /\ planned \subseteq Expected(happened, turned)
  /\ NoneMissed

LEMMA ImageNumbers ==
  ASSUME NEW image \in TxImage
  PROVE  /\ Len(image.history) \in Nat /\ image.historyBase \in Nat
         /\ DOMAIN image.history = 1 .. Len(image.history)
         /\ image.history \in Seq(Statuses)
         /\ count(image) = image.historyBase + Len(image.history)
         /\ count(image) \in Nat
<1>1. image.history \in Seq(Statuses) /\ image.historyBase \in Nat
  BY DEF TxImage
<1>2. Len(image.history) \in Nat /\ DOMAIN image.history = 1 .. Len(image.history)
  BY <1>1, LenProperties
<1> QED
  BY <1>1, <1>2 DEF count

\* A record plans nothing but what happened.
LEMMA PlansHappened ==
  ASSUME NEW past \in Seq(Statuses), NEW turns, NEW change, ChangeTrue(change, past, turns)
  PROVE  changesFor(change) \subseteq Expected(past, turns)
<1> SUFFICES ASSUME NEW e \in changesFor(change)
             PROVE  e \in Expected(past, turns)
  OBVIOUS
<1>1. CASE change \in TxChange /\ ImageTrue(change.new, past)
  <2>1. change.kind = "tx" /\ change.new \in TxImage
    BY <1>1 DEF TxChange
  <2>2. e \in entries(change.new)
    BY <2>1 DEF changesFor
  <2>3. PICK i \in 1 .. Len(change.new.history) :
          e = [kind |-> "tx", event |-> change.new.history[i], seq |-> change.new.historyBase + i - 1]
    BY <2>1, <2>2, ImageNumbers DEF entries
  <2>4. change.new.history[i] = past[change.new.historyBase + i]
    BY <1>1 DEF ImageTrue
  <2>5. change.new.historyBase + i \in 1 .. Len(past)
    BY <1>1, <2>1, ImageNumbers, LenProperties DEF ImageTrue
  <2>6. e = TxEventAt(past, change.new.historyBase + i)
    <3> DEFINE k == change.new.historyBase + i
    <3>1. TxEventAt(past, k) = [kind |-> "tx", event |-> past[k], seq |-> k - 1]
      BY DEF TxEventAt
    <3>2. change.new.historyBase \in Nat /\ i \in Nat
      BY <2>1, ImageNumbers
    <3>3. change.new.historyBase + i - 1 = k - 1
      BY <3>2
    <3> HIDE DEF k
    <3>4. e = TxEventAt(past, k)
      BY <2>3, <2>4, <3>1, <3>3, Zenon DEF k
    <3> QED
      BY <3>4 DEF k
  <2> QED
    BY <2>5, <2>6 DEF Expected
<1>2. CASE change \in MatchChange /\ change.new \in turns
  <2>1. change.kind = "match"
    BY <1>2 DEF MatchChange
  <2>2. e = MatchEventOf(change.new)
    BY <2>1 DEF changesFor, MatchEventOf
  <2> QED
    BY <1>2, <2>2 DEF Expected
<1> QED
  BY <1>1, <1>2 DEF ChangeTrue

\* One more change leaves true what was said of those before.
LEMMA ImageStaysTrue ==
  ASSUME NEW past \in Seq(Statuses), NEW s \in Statuses, NEW image, ImageTrue(image, past)
  PROVE  ImageTrue(image, Append(past, s))
<1>1. /\ Len(Append(past, s)) = Len(past) + 1
      /\ \A i \in 1 .. Len(past) : Append(past, s)[i] = past[i]
  BY AppendProperties
<1>2. Len(past) \in Nat
  BY LenProperties
<1>3. image \in TxImage
  BY DEF ImageTrue
<1>4. \A i \in 1 .. Len(image.history) : image.historyBase + i \in 1 .. Len(past)
  BY <1>2, <1>3, ImageNumbers DEF ImageTrue
<1>5. count(image) <= Len(Append(past, s))
  BY <1>1, <1>2, <1>3, ImageNumbers DEF ImageTrue
<1> QED
  BY <1>1, <1>3, <1>4, <1>5 DEF ImageTrue

LEMMA ChangeStaysTrue ==
  ASSUME NEW past \in Seq(Statuses), NEW s \in Statuses, NEW turns, NEW change,
         ChangeTrue(change, past, turns)
  PROVE  ChangeTrue(change, Append(past, s), turns)
BY ImageStaysTrue DEF ChangeTrue

LEMMA ExpectedGrows ==
  ASSUME NEW past \in Seq(Statuses), NEW s \in Statuses, NEW turns
  PROVE  Expected(Append(past, s), turns)
           = Expected(past, turns) \cup {TxEventAt(Append(past, s), Len(past) + 1)}
<1> DEFINE longer == Append(past, s)
<1>1. Len(longer) = Len(past) + 1 /\ \A i \in 1 .. Len(past) : longer[i] = past[i]
  BY AppendProperties
<1>2. Len(past) \in Nat
  BY LenProperties
<1> HIDE DEF longer
<1>3. \A k \in 1 .. Len(past) : TxEventAt(longer, k) = TxEventAt(past, k)
  BY <1>1 DEF TxEventAt
<1>4. 1 .. Len(longer) = (1 .. Len(past)) \cup {Len(past) + 1}
  BY <1>1, <1>2
<1>5. Expected(longer, turns) = Expected(past, turns) \cup {TxEventAt(longer, Len(past) + 1)}
  BY <1>3, <1>4 DEF Expected
<1> QED
  BY <1>5 DEF longer

\* withStatus appends the status at the place that is counted next, and forgets
\* no place that it still shows.
LEMMA TrimmedTrue ==
  ASSUME NEW past \in Seq(Statuses), NEW s \in Statuses, NEW image,
         ImageTrue(image, past), count(image) = Len(past)
  PROVE  /\ ImageTrue(Trimmed(image, s), Append(past, s))
         /\ count(Trimmed(image, s)) = Len(past) + 1
         /\ TxEventAt(Append(past, s), Len(past) + 1) \in entries(Trimmed(image, s))
<1> DEFINE was == image.history
           base == image.historyBase
           all == Append(was, s)
           dropped == IF Len(all) <= MAX_HISTORY THEN 0 ELSE Len(all) - MAX_HISTORY
           kept == SubSeq(all, dropped + 1, Len(all))
           longer == Append(past, s)
<1>1. /\ image \in TxImage /\ was \in Seq(Statuses) /\ base \in Nat /\ Len(was) \in Nat
      /\ base + Len(was) = Len(past)
      /\ \A i \in 1 .. Len(was) : was[i] = past[base + i]
  BY ImageNumbers DEF ImageTrue
<1>2. /\ all \in Seq(Statuses) /\ Len(all) = Len(was) + 1
      /\ \A i \in 1 .. Len(was) : all[i] = was[i]
      /\ all[Len(was) + 1] = s
  BY <1>1, AppendProperties
<1>3. /\ longer \in Seq(Statuses) /\ Len(longer) = Len(past) + 1
      /\ \A i \in 1 .. Len(past) : longer[i] = past[i]
      /\ longer[Len(past) + 1] = s
  BY AppendProperties
<1>4. Len(past) \in Nat
  BY LenProperties
<1> HIDE DEF all
<1>5. dropped \in Nat /\ dropped <= Len(was)
  BY <1>1, <1>2, EventsAssumption
<1> HIDE DEF dropped
<1>6. \A i \in (dropped + 1) .. Len(all) : all[i] \in Statuses
  BY <1>1, <1>2, <1>5, ElementOfSeq
<1>7. /\ kept \in Seq(Statuses)
      /\ Len(kept) = IF dropped + 1 <= Len(all) THEN Len(all) - (dropped + 1) + 1 ELSE 0
      /\ \A i \in 1 .. Len(all) - (dropped + 1) + 1 : kept[i] = all[dropped + 1 + i - 1]
  BY <1>1, <1>2, <1>5, <1>6, SubSeqProperties
<1>8. /\ Len(kept) = Len(was) + 1 - dropped /\ Len(kept) \in Nat /\ Len(kept) >= 1
      /\ \A i \in 1 .. Len(kept) : kept[i] = all[dropped + i]
  BY <1>1, <1>2, <1>5, <1>7
<1> HIDE DEF kept
<1>9. Trimmed(image, s) = [history |-> kept, historyBase |-> base + dropped]
  BY DEF Trimmed, BaseAfter, kept, dropped, all
<1> DEFINE new == Trimmed(image, s)
<1>10. new \in TxImage /\ new.history = kept /\ new.historyBase = base + dropped
  BY <1>1, <1>5, <1>7, <1>9 DEF TxImage
<1> HIDE DEF new, longer, was, base
<1>11. count(new) = Len(past) + 1 /\ base + dropped + Len(kept) = Len(past) + 1
  <2>1. /\ base \in Nat /\ Len(was) \in Nat /\ base + Len(was) = Len(past) /\ dropped \in Nat
        /\ Len(kept) = Len(was) + 1 - dropped
    BY <1>1, <1>5, <1>8
  <2>2. base + dropped + Len(kept) = Len(past) + 1
    BY <1>4, <2>1
  <2>3. count(new) = base + dropped + Len(kept)
    BY <1>10 DEF count
  <2> QED
    BY <2>2, <2>3
<1>12. ASSUME NEW i \in 1 .. Len(kept)
       PROVE  kept[i] = longer[base + dropped + i] /\ dropped + i \in 1 .. Len(was) + 1
  <2>1. dropped + i \in 1 .. Len(was) + 1 /\ kept[i] = all[dropped + i]
    BY <1>1, <1>5, <1>8
  <2>2. CASE dropped + i \in 1 .. Len(was)
    <3>1. all[dropped + i] = past[base + (dropped + i)]
      BY <1>1, <1>2, <2>2
    <3>2. base + (dropped + i) \in 1 .. Len(past) /\ base + (dropped + i) = base + dropped + i
      BY <1>1, <1>4, <1>5, <2>2
    <3> QED
      BY <1>3, <2>1, <3>1, <3>2
  <2>3. CASE dropped + i = Len(was) + 1
    <3>1. base + dropped + i = Len(past) + 1
      BY <1>1, <1>4, <1>5, <2>3
    <3> QED
      BY <1>2, <1>3, <2>1, <2>3, <3>1
  <2>4. dropped + i \in 1 .. Len(was) \/ dropped + i = Len(was) + 1
    BY ONLY <1>1, <2>1
  <2> QED
    BY <2>1, <2>2, <2>3, <2>4
<1>13. ImageTrue(new, longer)
  BY <1>3, <1>4, <1>10, <1>11, <1>12 DEF ImageTrue
<1>14. TxEventAt(longer, Len(past) + 1) \in entries(new)
  <2>1. Len(kept) \in DOMAIN new.history
    BY <1>8, <1>10, ImageNumbers
  <2>0. Len(kept) \in 1 .. Len(kept)
    BY <1>8
  <2>2. kept[Len(kept)] = longer[Len(past) + 1]
    BY <1>11, <1>12, <2>0
  <2>3. new.historyBase + Len(kept) - 1 = Len(past)
    <3>1. base \in Nat /\ dropped \in Nat /\ Len(kept) \in Nat
      BY <1>1, <1>5, <1>8
    <3>2. base + dropped + (Len(kept) - 1) = Len(past)
      BY <1>4, <1>11, <3>1
    <3> QED
      BY <1>10, <3>2
  <2>4. TxEventAt(longer, Len(past) + 1)
          = [kind |-> "tx", event |-> new.history[Len(kept)],
             seq |-> new.historyBase + Len(kept) - 1]
    BY <1>4, <1>10, <2>2, <2>3 DEF TxEventAt
  <2> QED
    BY <2>1, <2>4 DEF entries
<1> QED
  BY <1>11, <1>13, <1>14 DEF new, longer

\* A record that is appended keeps the others.
LEMMA Streamed ==
  ASSUME EventsTyped, NEW change \in TxChange \cup MatchChange, stream' = Append(stream, change)
  PROVE  /\ stream' \in Seq(TxChange \cup MatchChange)
         /\ Len(stream) \in Nat /\ Len(stream') = Len(stream) + 1
         /\ \A j \in 1 .. Len(stream) : stream'[j] = stream[j]
         /\ stream'[Len(stream) + 1] = change
<1>1. Len(stream) \in Nat
  BY LenProperties DEF EventsTyped
<1> QED
  BY <1>1, AppendProperties DEF EventsTyped

\* A record is appended whose events, with those so far, are what happened.
LEMMA WriteInv ==
  ASSUME EventsInv, NEW change \in TxChange \cup MatchChange, stream' = Append(stream, change),
         UNCHANGED planned,
         happened' \in Seq(Statuses), turned' \subseteq MatchStatuses, matchStatus' \in MatchStatuses,
         ImageTrue(txImage', happened'), RowCounts',
         ChangeTrue(change, happened', turned'),
         \A c : ChangeTrue(c, happened, turned) => ChangeTrue(c, happened', turned'),
         Expected(happened, turned) \subseteq Expected(happened', turned'),
         Expected(happened', turned') \subseteq Expected(happened, turned) \cup changesFor(change)
  PROVE  EventsInv'
<1>0. /\ stream' \in Seq(TxChange \cup MatchChange)
      /\ Len(stream) \in Nat /\ Len(stream') = Len(stream) + 1
      /\ \A j \in 1 .. Len(stream) : stream'[j] = stream[j]
      /\ stream'[Len(stream) + 1] = change
  BY Streamed DEF EventsInv
<1>1. EventsTyped'
  BY <1>0 DEF EventsTyped
<1>2. StreamTrue'
  <2>1. ASSUME NEW j \in 1 .. Len(stream') PROVE ChangeTrue(stream'[j], happened', turned')
    <3>1. CASE j = Len(stream) + 1
      BY <1>0, <3>1
    <3>2. CASE j \in 1 .. Len(stream)
      <4>1. ChangeTrue(stream[j], happened, turned)
        BY <3>2 DEF EventsInv, StreamTrue
      <4> QED
        BY <1>0, <3>2, <4>1
    <3> QED
      BY <1>0, <3>1, <3>2
  <2> QED
    BY <2>1 DEF StreamTrue
<1>3. NoneMissed'
  <2>1. ASSUME NEW e \in Expected(happened', turned')
        PROVE  e \in planned' \/ \E j \in 1 .. Len(stream') : e \in changesFor(stream'[j])
    <3>1. CASE e \in changesFor(change)
      BY <1>0, <3>1
    <3>2. CASE e \in Expected(happened, turned)
      <4>1. e \in planned \/ \E j \in 1 .. Len(stream) : e \in changesFor(stream[j])
        BY <3>2 DEF EventsInv, NoneMissed
      <4>2. \A j \in 1 .. Len(stream) : j \in 1 .. Len(stream')
        BY <1>0
      <4> QED
        BY <1>0, <4>1, <4>2
    <3> QED
      BY <3>1, <3>2
  <2> QED
    BY <2>1 DEF NoneMissed
<1>4. planned' \subseteq Expected(happened', turned')
  BY DEF EventsInv
<1> QED
  BY <1>1, <1>2, <1>3, <1>4 DEF EventsInv

LEMMA ChangeTxInv == ASSUME EventsInv, ChangeTx PROVE EventsInv'
<1>1. PICK s \in Statuses : happened' = Append(happened, s) /\ Written(Trimmed(txImage, s))
  BY DEF ChangeTx
<1> DEFINE new == Trimmed(txImage, s)
           change == [kind |-> "tx", name |-> "MODIFY", old |-> txImage, new |-> new]
           longer == Append(happened, s)
<1>2. happened \in Seq(Statuses) /\ ImageTrue(txImage, happened) /\ count(txImage) = Len(happened)
  BY EventsAssumption, LenProperties DEF ChangeTx, EventsInv, EventsTyped, RowCounts
<1>3. /\ ImageTrue(new, longer) /\ count(new) = Len(happened) + 1
      /\ TxEventAt(longer, Len(happened) + 1) \in entries(new)
  BY <1>2, TrimmedTrue
<1>4. longer \in Seq(Statuses) /\ Len(longer) = Len(happened) + 1
  BY <1>2, AppendProperties
<1>5. ImageTrue(txImage, longer)
  BY <1>2, ImageStaysTrue
<1>6. \A c : ChangeTrue(c, happened, turned) => ChangeTrue(c, longer, turned)
  BY <1>2, ChangeStaysTrue
<1>7. Expected(longer, turned)
        = Expected(happened, turned) \cup {TxEventAt(longer, Len(happened) + 1)}
  BY <1>2, ExpectedGrows
<1>8. happened' = longer /\ txImage' = new /\ stream' = Append(stream, change)
      /\ UNCHANGED <<matchStatus, planned, turned>>
  BY <1>1 DEF ChangeTx, Written
<1> HIDE DEF new, longer
<1>9. change \in TxChange /\ change.kind = "tx" /\ change.name = "MODIFY"
      /\ change.old = txImage /\ change.new = new
  BY <1>2, <1>3 DEF TxChange, ImageTrue
<1> HIDE DEF change
<1>10. ChangeTrue(change, longer, turned)
  BY <1>3, <1>5, <1>9 DEF ChangeTrue
<1>11. TxEventAt(longer, Len(happened) + 1) \in changesFor(change)
  <2>1. TxEventAt(longer, Len(happened) + 1).seq >= count(txImage)
    BY <1>2, LenProperties DEF TxEventAt
  <2> QED
    BY <1>3, <1>9, <2>1 DEF changesFor
<1>12. ImageTrue(txImage', happened') /\ RowCounts'
  BY <1>3, <1>4, <1>8 DEF RowCounts
<1> QED
  BY <1>4, <1>6, <1>7, <1>8, <1>9, <1>10, <1>11, <1>12, WriteInv DEF EventsInv, EventsTyped

\* A record that says nothing new of the transaction.
LEMMA IdleWriteInv ==
  ASSUME EventsInv, NEW change \in TxChange, stream' = Append(stream, change),
         UNCHANGED <<matchStatus, planned, happened, turned>>,
         ImageTrue(txImage', happened), RowCounts',
         ChangeTrue(change, happened, turned)
  PROVE  EventsInv'
BY WriteInv DEF EventsInv, EventsTyped

LEMMA TouchTxInv == ASSUME EventsInv, TouchTx PROVE EventsInv'
<1> DEFINE change == [kind |-> "tx", name |-> "MODIFY", old |-> txImage, new |-> txImage]
<1>1. change \in TxChange /\ change.old = txImage /\ change.new = txImage
  BY DEF TxChange, EventsInv, ImageTrue
<1>2. stream' = Append(stream, change) /\ txImage' = txImage
      /\ UNCHANGED <<matchStatus, planned, happened, turned>>
  BY DEF TouchTx, Written
<1> HIDE DEF change
<1>3. ChangeTrue(change, happened, turned)
  BY <1>1 DEF EventsInv, ChangeTrue
<1>4. ImageTrue(txImage', happened) /\ RowCounts'
  BY <1>2 DEF EventsInv, RowCounts
<1> QED
  BY <1>1, <1>2, <1>3, <1>4, IdleWriteInv

LEMMA NothingTrue == ASSUME NEW past \in Seq(Statuses) PROVE ImageTrue(NoImage, past)
<1>1. << >> \in Seq(Statuses) /\ Len(<< >>) = 0
  BY EmptySeq
<1>2. NoImage \in TxImage /\ NoImage.history = << >> /\ NoImage.historyBase = 0
  BY <1>1 DEF NoImage, TxImage
<1>3. Len(past) \in Nat
  BY LenProperties
<1> QED
  BY <1>1, <1>2, <1>3 DEF ImageTrue, count

LEMMA RemoveTxInv == ASSUME EventsInv, RemoveTx PROVE EventsInv'
<1> DEFINE change == [kind |-> "tx", name |-> "REMOVE", old |-> txImage, new |-> NoImage]
<1>1. ImageTrue(NoImage, happened)
  BY NothingTrue DEF EventsInv, EventsTyped
<1>2. change \in TxChange /\ change.old = txImage /\ change.new = NoImage
  BY <1>1 DEF TxChange, EventsInv, ImageTrue
<1>3. stream' = Append(stream, change) /\ txImage' = NoImage
      /\ UNCHANGED <<matchStatus, planned, happened, turned>>
  BY DEF RemoveTx
<1> HIDE DEF change
<1>4. ChangeTrue(change, happened, turned)
  BY <1>1, <1>2 DEF EventsInv, ChangeTrue
<1>5. RowCounts'
  BY <1>3 DEF RemoveTx, RowCounts
<1> QED
  BY <1>1, <1>2, <1>3, <1>4, <1>5, IdleWriteInv

LEMMA ChangeMatchInv == ASSUME EventsInv, ChangeMatch PROVE EventsInv'
<1>1. PICK s \in MatchStatuses \ {"none"} :
        /\ matchStatus' = s /\ turned' = turned \cup {s} /\ matchStatus # s
        /\ stream' = Append(stream, [kind |-> "match", name |-> "MODIFY", old |-> matchStatus, new |-> s])
  BY DEF ChangeMatch
<1> DEFINE change == [kind |-> "match", name |-> "MODIFY", old |-> matchStatus, new |-> s]
<1>2. change \in MatchChange /\ change.kind = "match" /\ change.name = "MODIFY"
      /\ change.old = matchStatus /\ change.new = s
  BY DEF MatchChange, EventsInv, EventsTyped
<1>3. stream' = Append(stream, change)
  BY <1>1
<1> HIDE DEF change
<1>4. UNCHANGED <<txImage, planned, happened>>
  BY DEF ChangeMatch
<1>5. ChangeTrue(change, happened, turned')
  BY <1>1, <1>2 DEF ChangeTrue
<1>6. \A c : ChangeTrue(c, happened, turned) => ChangeTrue(c, happened, turned')
  BY <1>1 DEF ChangeTrue
<1>7. Expected(happened, turned') = Expected(happened, turned) \cup {MatchEventOf(s)}
  BY <1>1 DEF Expected
<1>8. MatchEventOf(s) \in changesFor(change)
  BY <1>1, <1>2 DEF changesFor, MatchEventOf
<1>9. turned' \subseteq MatchStatuses /\ matchStatus' \in MatchStatuses
  BY <1>1 DEF EventsInv, EventsTyped
<1>10. ImageTrue(txImage', happened') /\ RowCounts' /\ happened' \in Seq(Statuses)
  BY <1>4 DEF EventsInv, EventsTyped, RowCounts
<1> QED
  BY <1>2, <1>3, <1>4, <1>5, <1>6, <1>7, <1>8, <1>9, <1>10, WriteInv

LEMMA PlanAllInv == ASSUME EventsInv, PlanAll PROVE EventsInv'
<1>1. /\ stream # << >> /\ planned' = planned \cup changesFor(Head(stream))
      /\ stream' = stream \/ stream' = Tail(stream)
      /\ UNCHANGED <<txImage, matchStatus, happened, turned>>
  BY DEF PlanAll
<1>2. /\ stream \in Seq(TxChange \cup MatchChange) /\ Len(stream) \in Nat \ {0}
      /\ Head(stream) = stream[1]
  BY <1>1, EmptySeq DEF EventsInv, EventsTyped
<1>3. /\ Tail(stream) \in Seq(TxChange \cup MatchChange)
      /\ Len(Tail(stream)) = Len(stream) - 1
      /\ \A j \in 1 .. Len(Tail(stream)) : Tail(stream)[j] = stream[j + 1]
  BY <1>1, <1>2, HeadTailProperties
<1>4. ChangeTrue(Head(stream), happened, turned)
  BY <1>2 DEF EventsInv, StreamTrue
<1>5. changesFor(Head(stream)) \subseteq Expected(happened, turned)
  BY <1>4, PlansHappened DEF EventsInv, EventsTyped
<1>6. planned' \subseteq Expected(happened', turned')
  BY <1>1, <1>5 DEF EventsInv
<1>7. CASE stream' = stream
  <2>1. NoneMissed'
    BY <1>1, <1>7 DEF EventsInv, NoneMissed
  <2> QED
    BY <1>1, <1>6, <1>7, <2>1 DEF EventsInv, EventsTyped, RowCounts, StreamTrue
<1>8. CASE stream' = Tail(stream)
  <2>1. \A j \in 1 .. Len(stream') : j + 1 \in 1 .. Len(stream) /\ stream'[j] = stream[j + 1]
    BY <1>2, <1>3, <1>8
  <2>2. StreamTrue'
    BY <1>1, <2>1 DEF EventsInv, StreamTrue
  <2>3. ASSUME NEW e \in Expected(happened, turned)
        PROVE  e \in planned' \/ \E j \in 1 .. Len(stream') : e \in changesFor(stream'[j])
    <3>1. CASE e \in planned
      BY <1>1, <3>1
    <3>2. CASE \E j \in 1 .. Len(stream) : e \in changesFor(stream[j])
      <4>1. PICK j \in 1 .. Len(stream) : e \in changesFor(stream[j])
        BY <3>2
      <4>2. CASE j = 1
        BY <1>1, <1>2, <4>1, <4>2
      <4>3. CASE j # 1
        <5>1. j - 1 \in 1 .. Len(stream') /\ stream'[j - 1] = stream[j]
          BY <1>2, <1>3, <1>8, <4>1, <4>3
        <5> QED
          BY <4>1, <5>1
      <4> QED
        BY <4>2, <4>3
    <3> QED
      BY <3>1, <3>2 DEF EventsInv, NoneMissed
  <2>4. NoneMissed'
    BY <1>1, <2>3 DEF NoneMissed
  <2> QED
    BY <1>1, <1>3, <1>6, <1>8, <2>2, <2>4 DEF EventsInv, EventsTyped, RowCounts
<1> QED
  BY <1>1, <1>7, <1>8

LEMMA PlanSomeInv == ASSUME EventsInv, PlanSome PROVE EventsInv'
<1>1. /\ stream # << >>
      /\ UNCHANGED <<txImage, matchStatus, stream, happened, turned>>
  BY DEF PlanSome
<1>2. PICK e \in changesFor(Head(stream)) : planned' = planned \cup {e}
  BY DEF PlanSome
<1>3. Head(stream) = stream[1] /\ Len(stream) \in Nat \ {0}
  BY <1>1, EmptySeq DEF EventsInv, EventsTyped
<1>4. ChangeTrue(Head(stream), happened, turned)
  BY <1>3 DEF EventsInv, StreamTrue
<1>5. changesFor(Head(stream)) \subseteq Expected(happened, turned)
  BY <1>4, PlansHappened DEF EventsInv, EventsTyped
<1>6. planned' \subseteq Expected(happened', turned') /\ NoneMissed'
  BY <1>1, <1>2, <1>5 DEF EventsInv, NoneMissed
<1> QED
  BY <1>1, <1>6 DEF EventsInv, EventsTyped, RowCounts, StreamTrue

LEMMA EventsInitInv == ASSUME EventsInit PROVE EventsInv
<1>1. << >> \in Seq(Statuses) /\ << >> \in Seq(TxChange \cup MatchChange) /\ Len(<< >>) = 0
  BY EmptySeq
<1>2. EventsTyped /\ StreamTrue
  BY <1>1 DEF EventsInit, EventsTyped, StreamTrue, MatchStatuses
<1>3. ImageTrue(txImage, happened)
  BY <1>1, NothingTrue DEF EventsInit
<1>4. count(NoImage) = 0
  BY <1>1 DEF count, NoImage
<1>5. RowCounts
  BY <1>1, <1>4 DEF EventsInit, RowCounts
<1>6. Expected(happened, turned) = {}
  BY <1>1 DEF EventsInit, Expected
<1> QED
  BY <1>2, <1>3, <1>5, <1>6 DEF EventsInit, EventsInv, NoneMissed

LEMMA EventsNextInv == ASSUME EventsInv, [EventsNext]_eventsVars PROVE EventsInv'
<1>1. CASE UNCHANGED eventsVars
  BY <1>1 DEF eventsVars, EventsInv, EventsTyped, RowCounts, StreamTrue, NoneMissed
<1> QED
  BY <1>1, ChangeTxInv, TouchTxInv, RemoveTxInv, ChangeMatchInv, PlanAllInv, PlanSomeInv
  DEF EventsNext

LEMMA EventsInvSafe == ASSUME EventsInv PROVE ChangesPlannedOnce
<1>1. happened \in Seq(Statuses) /\ Len(happened) \in Nat /\ DOMAIN happened = 1 .. Len(happened)
  BY LenProperties DEF EventsInv, EventsTyped
<1>2. ASSUME NEW e \in planned, e.kind = "tx"
      PROVE  e.seq < Len(happened) /\ e.event = happened[e.seq + 1]
  <2>1. e \in Expected(happened, turned)
    BY DEF EventsInv
  <2>2. CASE \E k \in 1 .. Len(happened) : e = TxEventAt(happened, k)
    <3>1. PICK k \in 1 .. Len(happened) : e = TxEventAt(happened, k)
      BY <2>2
    <3>2. e.seq = k - 1 /\ e.event = happened[k]
      BY <3>1 DEF TxEventAt
    <3> QED
      BY <1>1, <3>2
  <2>3. CASE \E s \in turned : e = MatchEventOf(s)
    BY <1>2, <2>3 DEF MatchEventOf
  <2> QED
    BY <2>1, <2>2, <2>3 DEF Expected
<1>3. ASSUME stream = << >> PROVE planned = Expected(happened, turned)
  <2>1. ~ \E j \in 1 .. Len(stream) : TRUE
    BY <1>3, EmptySeq
  <2>2. Expected(happened, turned) \subseteq planned
    BY <2>1, Zenon DEF EventsInv, NoneMissed
  <2> QED
    BY <2>2 DEF EventsInv
<1>4. Expected(happened, turned)
        = {[kind |-> "tx", event |-> happened[i], seq |-> i - 1] : i \in DOMAIN happened}
          \cup {[kind |-> "match", event |-> s, seq |-> 0] : s \in turned}
  BY <1>1 DEF Expected, TxEventAt, MatchEventOf
<1> QED
  BY <1>2, <1>3, <1>4 DEF ChangesPlannedOnce

LEMMA EventsInvTypes == EventsInv => EventsTypeOK
<1> SUFFICES ASSUME EventsInv
             PROVE  EventsTypeOK
  OBVIOUS
<1>1. DOMAIN stream = 1 .. Len(stream) /\ DOMAIN happened = 1 .. Len(happened)
  BY LenProperties DEF EventsInv, EventsTyped
<1>2. ASSUME NEW i \in DOMAIN stream
      PROVE  stream[i] \in IF stream[i].kind = "tx" THEN TxChange ELSE MatchChange
  <2>1. stream[i] \in TxChange \/ stream[i] \in MatchChange
    BY <1>1, <1>2 DEF EventsInv, StreamTrue, ChangeTrue
  <2> QED
    BY <2>1 DEF TxChange, MatchChange
<1>3. ASSUME NEW e \in planned
      PROVE  e \in IF e.kind = "tx" THEN TxEvent ELSE MatchEvent
  <2>1. CASE \E k \in 1 .. Len(happened) : e = TxEventAt(happened, k)
    <3>1. PICK k \in 1 .. Len(happened) : e = TxEventAt(happened, k)
      BY <2>1
    <3>2. happened[k] \in Statuses /\ k - 1 \in Nat
      BY <1>1, <3>1 DEF EventsInv, EventsTyped
    <3> QED
      BY <3>1, <3>2 DEF TxEventAt, TxEvent
  <2>2. CASE \E s \in turned : e = MatchEventOf(s)
    BY <2>2 DEF MatchEventOf, MatchEvent, EventsInv, EventsTyped
  <2> QED
    BY <1>3, <2>1, <2>2 DEF EventsInv, Expected
<1> QED
  BY <1>2, <1>3 DEF EventsInv, EventsTyped, ImageTrue, EventsTypeOK

\* Records and events keep their types: an image says how many changes its history
\* forgot, and an event's number is one (relayer records.ts:75-83, events.ts:44-87).
THEOREM EventsTypes == EventsSpec => []EventsTypeOK
BY EventsInitInv, EventsNextInv, EventsInvTypes, PTL DEF EventsSpec

\* Every change has its one event, with the seq of its place among all changes,
\* whatever the history forgot and however often a record is delivered
\* (relayer records.ts:81-83, events.ts:44-87).
THEOREM EventsExact == EventsSpec => []ChangesPlannedOnce
BY EventsInitInv, EventsNextInv, EventsInvSafe, PTL DEF EventsSpec

(***************************************************************************)
(* All the smaller components                                              *)
(***************************************************************************)
\* Each component by itself, whatever its invariant.
ServicesInv ==
  /\ part = "reader" => ReaderInv
  /\ part = "submit" => SubmitTypeOK
  /\ part = "relays" => RelaysTypeOK
  /\ part = "rules" => RulesTypeOK
  /\ part = "listing" => ListingInv
  /\ part = "signIn" => SignInTypeOK
  /\ part = "vault" => VaultInv
  /\ part = "pricing" => PayableInv
  /\ part = "attempts" => AttemptsInv
  /\ part = "events" => EventsInv
  /\ part = "outbound" => OutboundInv
  /\ part = "matching" => MatchingInv

LEMMA ServicesInvTypes == ServicesInv => ServicesTypeOK
BY EventsInvTypes, MatchingInvTypes
DEF ServicesInv, ServicesTypeOK, ReaderInv, ListingInv, VaultInv, PayableInv, AttemptsInv, OutboundInv

LEMMA ServicesInitInv ==
  ASSUME Requests # {}, Nonces # {}, Wallets # {}, ServicesInit
  PROVE  ServicesInv
<1>1. /\ ReaderInit /\ RelaysInit /\ SignInInit /\ VaultInit /\ EventsInit /\ OutboundInit
      /\ MatchingInit /\ ListingInit /\ RulesInit /\ AttemptsInit
      /\ part = "pricing" => PricingInit
  BY DEF ServicesInit
<1>2. ReaderInv
  BY <1>1, ReaderInitInv
<1>3. SubmitTypeOK /\ RelaysTypeOK
  BY <1>1, RelaysInitTyped DEF RelaysTypeOK
<1>4. RulesTypeOK /\ SignInTypeOK /\ ListingInv
  BY <1>1, RulesInitTyped, SignInInitTyped, ListingInitInv
<1>5. VaultInv /\ AttemptsInv /\ EventsInv /\ OutboundInv
  BY <1>1, VaultInitInv, AttemptsInvInit, EventsInitInv, OutboundInitInv
<1>6. MatchingInv
  BY <1>1, MatchingInitInv
<1>7. part = "pricing" => PayableInv
  BY <1>1, PricedInit
<1> QED
  BY <1>2, <1>3, <1>4, <1>5, <1>6, <1>7 DEF ServicesInv

LEMMA ServicesNextInv ==
  ASSUME Nonces # {}, Wallets # {}, ServicesInv, [ServicesNext]_servicesVars
  PROVE  ServicesInv'
<1>1. /\ part' = part
      /\ part = "reader" => [ReaderNext]_readerVars
      /\ part = "submit" => [SubmitNext]_submitVars
      /\ part = "relays" => [RelaysNext]_relaysVars
      /\ part = "rules" => [RulesNext]_rulesVars
      /\ part = "listing" => [ListingNext]_listingVars
      /\ part = "signIn" => [SignInNext]_signInVars
      /\ part = "vault" => [VaultNext]_vaultVars
      /\ part = "pricing" => [PricingNext]_pricingVars
      /\ part = "attempts" => [AttemptsNext]_attemptsVars
      /\ part = "events" => [EventsNext]_eventsVars
      /\ part = "outbound" => [OutboundNext]_outboundVars
      /\ part = "matching" => [MatchingNext]_matchingVars
  <2>1. CASE ServicesNext
    BY <2>1 DEF ServicesNext, Moves
  <2>2. CASE UNCHANGED servicesVars
    BY <2>2 DEF servicesVars, relaysVars
  <2> QED
    BY <2>1, <2>2
<1>2. part = "reader" => ReaderInv'
  BY <1>1, ReaderNextInv DEF ServicesInv
<1>3. /\ part = "submit" => SubmitTypeOK'
      /\ part = "relays" => RelaysTypeOK'
  BY <1>1, SubmitNextTyped, RelaysNextTyped DEF ServicesInv
<1>4. /\ part = "rules" => RulesTypeOK'
      /\ part = "listing" => ListingInv'
      /\ part = "signIn" => SignInTypeOK'
  BY <1>1, RulesNextTyped, ListingNextInv, SignInNextTyped DEF ServicesInv
<1>5. /\ part = "vault" => VaultInv'
      /\ part = "pricing" => PayableInv'
      /\ part = "attempts" => AttemptsInv'
  BY <1>1, VaultNextInv, PricedNext, AttemptsInvNext DEF ServicesInv
<1>6. /\ part = "events" => EventsInv'
      /\ part = "outbound" => OutboundInv'
      /\ part = "matching" => MatchingInv'
  BY <1>1, EventsNextInv, OutboundNextInv, MatchingInductive DEF ServicesInv
<1> QED
  BY <1>1, <1>2, <1>3, <1>4, <1>5, <1>6 DEF ServicesInv

\* The type invariants of the twelve smaller components hold together in every
\* instance of MCServices, not only the one TLC checks: what each module's own
\* theorem of types says, for one component at a time.
THEOREM ServicesTypes ==
  ASSUME Requests # {}, Nonces # {}, Wallets # {}
  PROVE  ServicesSpec => []ServicesTypeOK
<1>1. ServicesInit => ServicesInv
  BY ServicesInitInv
<1>2. ServicesInv /\ [ServicesNext]_servicesVars => ServicesInv'
  BY ServicesNextInv
<1> QED
  BY <1>1, <1>2, ServicesInvTypes, PTL DEF ServicesSpec
=============================================================================
