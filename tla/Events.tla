-------------------------------- MODULE Events -------------------------------
(***************************************************************************)
(* From a change of a transaction or a match to its event: the relayer     *)
(* writes a row whose history is trimmed at its front, the table's stream  *)
(* carries each write with the image before and after, and the dispatcher  *)
(* plans the events of what a write added.  Records arrive in order, some  *)
(* of them more than once, and a run may die with a part of its plan       *)
(* written.                                                                *)
(***************************************************************************)
EXTENDS Integers, Sequences

CONSTANTS
  Statuses,     \* of a transaction
  MAX_HISTORY,
  MaxChanges    \* bound: status changes of the transaction

ASSUME EventsAssumption ==
  MAX_HISTORY \in Nat \ {0} /\ MaxChanges \in Nat /\ Statuses # {}

MatchStatuses == {"none", "provisional", "final", "dropped"}

TxImage == [history : Seq(Statuses), historyBase : Nat]
NoImage == [history |-> << >>, historyBase |-> 0]

\* What the stream carries of a write, or of the removal of a row.
TxChange == [kind : {"tx"}, name : {"MODIFY", "REMOVE"}, old : TxImage, new : TxImage]
MatchChange == [kind : {"match"}, name : {"MODIFY"}, old : MatchStatuses, new : MatchStatuses]

\* The subject, event and seq that make a delivery's id.
TxEvent == [kind : {"tx"}, event : Statuses, seq : Nat]
MatchEvent == [kind : {"match"}, event : MatchStatuses, seq : {0}]

VARIABLES
  txImage,      \* the transaction's row
  matchStatus,  \* the match's row
  stream,       \* changes that are to be planned
  planned,      \* events that have deliveries
  happened,     \* history: the transaction's statuses, in order
  turned        \* history: statuses the match took

eventsVars == <<txImage, matchStatus, stream, planned, happened, turned>>

EventsInit ==
  /\ txImage = NoImage /\ matchStatus = "none"
  /\ stream = << >>
  /\ planned = {}
  /\ happened = << >> /\ turned = {}

\* Mutant: what falls off the front is not counted.
Uncounted(image, dropped) == image.historyBase

BaseAfter(image, dropped) == image.historyBase + dropped

\* withStatus
Trimmed(image, status) ==
  LET all == Append(image.history, status)
      dropped == IF Len(all) <= MAX_HISTORY THEN 0 ELSE Len(all) - MAX_HISTORY
  IN [history |-> SubSeq(all, dropped + 1, Len(all)), historyBase |-> BaseAfter(image, dropped)]

Written(new) ==
  /\ txImage' = new
  /\ stream' = Append(stream, [kind |-> "tx", name |-> "MODIFY", old |-> txImage, new |-> new])

ChangeTx ==
  /\ Len(happened) < MaxChanges
  /\ \E s \in Statuses :
       /\ happened # << >> => happened[Len(happened)] # s
       /\ happened' = Append(happened, s)
       /\ Written(Trimmed(txImage, s))
  /\ UNCHANGED <<matchStatus, planned, turned>>

\* A write that leaves the status as it is.
TouchTx ==
  /\ txImage # NoImage /\ Len(stream) < 2
  /\ Written(txImage)
  /\ UNCHANGED <<matchStatus, planned, happened, turned>>

\* The monitor's writes (Monitor): a status is never taken twice.
ChangeMatch ==
  /\ \E s \in MatchStatuses \ {"none"} :
       /\ \/ matchStatus = "none" /\ s \in {"provisional", "final"}
          \/ matchStatus = "provisional" /\ s \in {"final", "dropped"}
          \/ matchStatus = "dropped" /\ s = "final"
       /\ matchStatus' = s /\ turned' = turned \cup {s}
       /\ stream' = Append(stream, [kind |-> "match", name |-> "MODIFY", old |-> matchStatus, new |-> s])
  /\ UNCHANGED <<txImage, planned, happened>>

\* The row's TTL is over, or an operator deletes it.
RemoveTx ==
  /\ Len(happened) = MaxChanges /\ txImage # NoImage
  /\ txImage' = NoImage
  /\ stream' = Append(stream, [kind |-> "tx", name |-> "REMOVE", old |-> txImage, new |-> NoImage])
  /\ UNCHANGED <<matchStatus, planned, happened, turned>>

entries(image) ==
  {[kind |-> "tx", event |-> image.history[i], seq |-> image.historyBase + i - 1] :
     i \in DOMAIN image.history}

count(image) == image.historyBase + Len(image.history)

changesFor(change) ==
  IF change.name = "REMOVE" THEN {}
  ELSE IF change.kind = "tx" THEN {e \in entries(change.new) : e.seq >= count(change.old)}
  ELSE IF change.new = change.old THEN {}
  ELSE {[kind |-> "match", event |-> change.new, seq |-> 0]}

\* The dispatcher takes the first record; a delivery that is there is left alone.
PlanAll ==
  /\ stream # << >>
  /\ planned' = planned \cup changesFor(Head(stream))
  /\ stream' \in {stream, Tail(stream)}
  /\ UNCHANGED <<txImage, matchStatus, happened, turned>>

PlanSome ==
  /\ stream # << >>
  /\ \E e \in changesFor(Head(stream)) : planned' = planned \cup {e}
  /\ UNCHANGED <<txImage, matchStatus, stream, happened, turned>>

EventsNext == ChangeTx \/ TouchTx \/ RemoveTx \/ ChangeMatch \/ PlanAll \/ PlanSome

EventsSpec == EventsInit /\ [][EventsNext]_eventsVars

EventsTypeOK ==
  /\ txImage \in TxImage /\ matchStatus \in MatchStatuses
  /\ \A i \in DOMAIN stream :
       stream[i] \in IF stream[i].kind = "tx" THEN TxChange ELSE MatchChange
  /\ \A e \in planned : e \in IF e.kind = "tx" THEN TxEvent ELSE MatchEvent
  /\ happened \in Seq(Statuses) /\ turned \subseteq MatchStatuses

\* A change has one event, with the seq of its place among all changes, although
\* history forgets the first ones: "the second tx.mined after a reorg is never the
\* same delivery as the first" (relayer records.ts:81-83).  Once the stream is
\* read, no change is without its event.
ChangesPlannedOnce ==
  /\ \A e \in planned : e.kind = "tx" =>
       e.seq < Len(happened) /\ e.event = happened[e.seq + 1]
  /\ stream = << >> =>
       planned = {[kind |-> "tx", event |-> happened[i], seq |-> i - 1] : i \in DOMAIN happened}
                 \cup {[kind |-> "match", event |-> s, seq |-> 0] : s \in turned}
=============================================================================
