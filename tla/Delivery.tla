------------------------------ MODULE Delivery ------------------------------
(***************************************************************************)
(* The actions service: an outbox.  A dispatcher turns each record of the  *)
(* table's stream into delivery rows and queue messages; senders take a    *)
(* message, claim its row, call the destination and record the outcome; a  *)
(* reaper queues again, or buries, the rows that are overdue; an operator  *)
(* redrives the dead ones, over the API or with a script.                  *)
(*                                                                         *)
(* A run of any of them is a process, modelled one store write and one     *)
(* queue call at a time.  A message is only a pointer: the row is the      *)
(* truth, every write of it but the API's is conditional on the version    *)
(* that the run read, and a run may fail before any of its calls.          *)
(***************************************************************************)
EXTENDS Integers, Sequences, FiniteSets

CONSTANTS
  Deliveries,     \* delivery ids
  NoDelivery,     \* what an idle run is about
  Records,        \* stream records; each is also the dispatcher's run over it
  Plan,           \* [Records -> Seq(Deliveries)], what plan() makes of a record
  Senders,        \* sender runs that may overlap
  Reapers,        \* sweep runs that may overlap
  Apis,           \* redrive requests of the API that may overlap
  Scripts,        \* runs of the redrive script, with --dlq
  MaxAttempts,    \* MAX_ATTEMPTS
  StreamRetries,  \* the event source's maximum_retry_attempts
  MaxMessages,    \* bound: messages of a delivery when the reaper adds one
  MaxRedrives,    \* bound: redrives
  MaxFailures     \* bound: runs that fail

Runs == Records \cup Senders \cup Reapers \cup Apis \cup Scripts

ASSUME DeliveriesAssumption == NoDelivery \notin Deliveries

ASSUME PlanAssumption == Plan \in [Records -> Seq(Deliveries)]

ASSUME RunsAssumption ==
  /\ Records \cap (Senders \cup Reapers \cup Apis \cup Scripts) = {}
  /\ Senders \cap (Reapers \cup Apis \cup Scripts) = {}
  /\ Reapers \cap (Apis \cup Scripts) = {}
  /\ Apis \cap Scripts = {}

ASSUME BoundsAssumption ==
  /\ MaxAttempts \in Nat \ {0}
  /\ StreamRetries \in Nat
  /\ MaxMessages \in Nat
  /\ MaxRedrives \in Nat
  /\ MaxFailures \in Nat

Live == {"pending", "queued", "delivering", "failed"}
TERMINAL == {"delivered", "dead"}
Status == {"none"} \cup Live \cup TERMINAL

Row == [status : Status, attempts : Nat]
NoRow == [status |-> "none", attempts |-> 0]
NewRow == [status |-> "pending", attempts |-> 0]
WithStatus(r, s) == [r EXCEPT !.status = s]

Outcomes == {"delivered", "retry", "permanent"}

PC == {"idle",
       "create", "enqueue", "mark",                        \* dispatcher
       "claim", "send", "record", "copy", "recopy", "requeue", "done", \* sender
       "bury", "markdead", "sweep", "resend",              \* reaper
       "reset", "resetsend", "drain"}                      \* redrive

\* One run's local state.  `fresh` says whether the version in `view` is still
\* the stored one, which is all that a version number is ever asked.
Run == [pc : PC, id : Deliveries \cup {NoDelivery}, view : Row, fresh : BOOLEAN,
        outcome : Outcomes \cup {"none"}]

Idle == [pc |-> "idle", id |-> NoDelivery, view |-> NoRow, fresh |-> FALSE,
         outcome |-> "none"]

VARIABLES
  row,       \* the table: [Deliveries -> Row]
  queue,     \* messages of each delivery that wait in the delivery queue
  dlq,       \* deliveries with a copy in the dead-letter queue
  stream,    \* [Records -> [state, at, tries]]; `at` is the dispatcher's loop index
  run,       \* [Runs -> Run]
  accepted,  \* history: deliveries that their destination accepted
  redrives, failures  \* bounded counters

vars == <<row, queue, dlq, stream, run, accepted, redrives, failures>>

StreamState == {"waiting", "dispatching", "done", "discarded"}

Init ==
  /\ row = [d \in Deliveries |-> NoRow]
  /\ queue = [d \in Deliveries |-> 0]
  /\ dlq = {}
  /\ stream = [r \in Records |-> [state |-> "waiting", at |-> 1, tries |-> 0]]
  /\ run = [p \in Runs |-> Idle]
  /\ accepted = {}
  /\ redrives = 0
  /\ failures = 0

(***************************************************************************)
(* Runs and rows                                                           *)
(***************************************************************************)
Goto(p, pc) == run' = [run EXCEPT ![p].pc = pc]
Stop(p) == run' = [run EXCEPT ![p] = Idle]

\* A read: the run's view is the row, until someone else writes it.
Read(p, d, pc) ==
  run' = [run EXCEPT ![p] = [Idle EXCEPT !.pc = pc, !.id = d,
                                         !.view = row[d], !.fresh = TRUE]]

\* Another run's state once the row of d is written: a view of it is out of date.
Overtaken(m, d) == [m EXCEPT !.fresh = m.fresh /\ m.id # d]

Write(p, d, new, mine) ==
  /\ row' = [row EXCEPT ![d] = new]
  /\ run' = [q \in Runs |-> IF q = p THEN mine ELSE Overtaken(run[q], d)]

\* Mutant: a put without its condition.
SaveUnversioned(p, new, mine) == Write(p, run[p].id, new, mine)

\* The conditional put: it throws DeliveryConflictError unless the view is current.
Save(p, new, mine) == run[p].fresh /\ Write(p, run[p].id, new, mine)

\* How the run that wrote goes on, and a sender's run that has only to answer.
With(p, new, pc) == [run[p] EXCEPT !.pc = pc, !.view = new, !.fresh = TRUE]
Answering(p) == [Idle EXCEPT !.pc = "done", !.id = run[p].id]
Answer(p) == run' = [run EXCEPT ![p] = Answering(p)]

Enqueue(d) == queue' = [queue EXCEPT ![d] = @ + 1]
CopyDead(d) == dlq' = dlq \cup {d}

MarkQueued(r) == WithStatus(r, "queued")
\* Mutant: the attempts left, counted down from nothing.
ClaimedCountingDown(r) == [status |-> "delivering", attempts |-> r.attempts - 1]

Claimed(r) == [status |-> "delivering", attempts |-> r.attempts + 1]
MarkDelivered(r) == WithStatus(r, "delivered")
MarkDead(r) == WithStatus(r, "dead")
ScheduleRetry(r) == WithStatus(r, "failed")

\* The run wrote the row's current version and is still going.  The due time it
\* wrote, with the reaper's grace, is later than the end of its Lambda's timeout.
Holds(p, d) ==
  /\ run[p].id = d
  /\ run[p].fresh
  /\ \/ run[p].pc \in {"enqueue", "mark", "send", "record", "requeue", "resend"}
     \/ p \in Apis /\ run[p].pc = "resetsend"

\* The sparse index that the reaper reads: a row with nothing outstanding is not in it.
InDueIndex(d) == row[d].status \in Live

\* Mutant: a row enters the due index only once it was queued.
DueOnceQueued(d) ==
  row[d].status \in Live \ {"pending"} /\ \A p \in Runs : ~Holds(p, d)

Due(d) == InDueIndex(d) /\ \A p \in Runs : ~Holds(p, d)

(***************************************************************************)
(* The dispatcher: dispatchRecords over one stream record                  *)
(***************************************************************************)
DispatcherStart(r) ==
  /\ stream[r].state = "waiting"
  /\ stream' = [stream EXCEPT ![r] = [@ EXCEPT !.state = "dispatching", !.at = 1]]
  /\ Goto(r, "create")
  /\ UNCHANGED <<row, queue, dlq, accepted, redrives, failures>>

Planned(r) == Plan[r][stream[r].at]
More(r) == run[r].pc = "create" /\ stream[r].at <= Len(Plan[r])
Advance(r) == stream' = [stream EXCEPT ![r].at = @ + 1]

\* store.create: a put on the condition that no row is there.
DispatcherCreate(r) ==
  /\ More(r)
  /\ row[Planned(r)].status = "none"
  /\ Write(r, Planned(r), NewRow,
           [Idle EXCEPT !.pc = "enqueue", !.id = Planned(r), !.view = NewRow, !.fresh = TRUE])
  /\ UNCHANGED <<queue, dlq, stream, accepted, redrives, failures>>

\* Created by an earlier delivery of the record.
DispatcherSkip(r) ==
  /\ More(r)
  /\ row[Planned(r)].status # "none"
  /\ Advance(r)
  /\ UNCHANGED <<row, queue, dlq, run, accepted, redrives, failures>>

DispatcherEnqueue(r) ==
  /\ run[r].pc = "enqueue"
  /\ Enqueue(run[r].id)
  /\ Goto(r, "mark")
  /\ UNCHANGED <<row, dlq, stream, accepted, redrives, failures>>

DispatcherMark(r) ==
  /\ run[r].pc = "mark"
  /\ Save(r, MarkQueued(run[r].view), [Idle EXCEPT !.pc = "create"])
  /\ Advance(r)
  /\ UNCHANGED <<queue, dlq, accepted, redrives, failures>>

\* Mutant: an error skips the record, as a poisoned one is skipped.
ReportNothing(r) ==
  /\ Stop(r)
  /\ stream' = [stream EXCEPT ![r].state = "done"]

\* The record is reported: it comes again, or is discarded to the stream-failure queue.
Report(r) ==
  /\ Stop(r)
  /\ stream' = [stream EXCEPT ![r] =
       [state |-> IF @.tries < StreamRetries THEN "waiting" ELSE "discarded",
        at |-> 1, tries |-> @.tries + 1]]

\* A sender or a redrive was faster: the conflict is an error like any other.
DispatcherConflict(r) ==
  /\ run[r].pc = "mark"
  /\ ~run[r].fresh
  /\ Report(r)
  /\ UNCHANGED <<row, queue, dlq, accepted, redrives, failures>>

DispatcherDone(r) ==
  /\ run[r].pc = "create"
  /\ stream[r].at > Len(Plan[r])
  /\ stream' = [stream EXCEPT ![r].state = "done"]
  /\ Stop(r)
  /\ UNCHANGED <<row, queue, dlq, accepted, redrives, failures>>

DispatcherStep(r) ==
  \/ DispatcherStart(r) \/ DispatcherCreate(r) \/ DispatcherSkip(r)
  \/ DispatcherEnqueue(r) \/ DispatcherMark(r) \/ DispatcherConflict(r)
  \/ DispatcherDone(r)

DispatcherFail(r) ==
  /\ run[r].pc # "idle"
  /\ failures < MaxFailures
  /\ failures' = failures + 1
  /\ Report(r)
  /\ UNCHANGED <<row, queue, dlq, accepted, redrives>>

(***************************************************************************)
(* The sender: processDelivery over one message                            *)
(***************************************************************************)
\* Mutant: every terminal row is skipped, the dead ones too.
SenderReceiveSkipsDead(p, d) ==
  /\ run[p].pc = "idle"
  /\ queue[d] > 0
  /\ queue' = [queue EXCEPT ![d] = @ - 1]
  /\ Read(p, d, IF row[d].status \in Live THEN "claim" ELSE "done")
  /\ UNCHANGED <<row, dlq, stream, accepted, redrives, failures>>

\* A message and a consistent read of its row.
SenderReceive(p, d) ==
  /\ run[p].pc = "idle"
  /\ queue[d] > 0
  /\ queue' = [queue EXCEPT ![d] = @ - 1]
  /\ Read(p, d, CASE row[d].status \in Live -> "claim"
                  [] row[d].status = "dead" -> "recopy"
                  [] OTHER -> "done")
  /\ UNCHANGED <<row, dlq, stream, accepted, redrives, failures>>

SenderRecopy(p) ==
  /\ run[p].pc = "recopy"
  /\ CopyDead(run[p].id)
  /\ Answer(p)
  /\ UNCHANGED <<row, queue, stream, accepted, redrives, failures>>

SenderClaim(p) ==
  /\ run[p].pc = "claim"
  /\ Save(p, Claimed(run[p].view), With(p, Claimed(run[p].view), "send"))
  /\ UNCHANGED <<queue, dlq, stream, accepted, redrives, failures>>

\* The send, and the outcome that the channel's sender makes of it.  A destination
\* may have accepted although the outcome is a retry: its answer was late or lost.
\* An unknown channel is a permanent outcome that reaches no destination.
SenderSend(p, outcome) ==
  /\ run[p].pc = "send"
  /\ run' = [run EXCEPT ![p].pc = "record", ![p].outcome = outcome]
  /\ \/ outcome = "delivered" /\ accepted' = accepted \cup {run[p].id}
     \/ outcome = "retry" /\ accepted' \in {accepted, accepted \cup {run[p].id}}
     \/ outcome = "permanent" /\ accepted' = accepted
  /\ UNCHANGED <<row, queue, dlq, stream, redrives, failures>>

Exhausted(r) == r.attempts >= MaxAttempts
GivesUp(p) ==
  \/ run[p].outcome = "permanent"
  \/ run[p].outcome = "retry" /\ Exhausted(run[p].view)

SenderMarkDelivered(p) ==
  /\ run[p].pc = "record"
  /\ run[p].outcome = "delivered"
  /\ Save(p, MarkDelivered(run[p].view), Answering(p))
  /\ UNCHANGED <<queue, dlq, stream, accepted, redrives, failures>>

SenderMarkDead(p) ==
  /\ run[p].pc = "record"
  /\ GivesUp(p)
  /\ Save(p, MarkDead(run[p].view), With(p, MarkDead(run[p].view), "copy"))
  /\ UNCHANGED <<queue, dlq, stream, accepted, redrives, failures>>

SenderCopyDead(p) ==
  /\ run[p].pc = "copy"
  /\ CopyDead(run[p].id)
  /\ Answer(p)
  /\ UNCHANGED <<row, queue, stream, accepted, redrives, failures>>

SenderScheduleRetry(p) ==
  /\ run[p].pc = "record"
  /\ run[p].outcome = "retry"
  /\ ~Exhausted(run[p].view)
  /\ Save(p, ScheduleRetry(run[p].view), With(p, ScheduleRetry(run[p].view), "requeue"))
  /\ UNCHANGED <<queue, dlq, stream, accepted, redrives, failures>>

SenderRequeue(p) ==
  /\ run[p].pc = "requeue"
  /\ Enqueue(run[p].id)
  /\ Answer(p)
  /\ UNCHANGED <<row, dlq, stream, accepted, redrives, failures>>

\* Another run wrote the row: the claim, or the outcome, is left to it.
SenderConflict(p) ==
  /\ run[p].pc \in {"claim", "record"}
  /\ ~run[p].fresh
  /\ Answer(p)
  /\ UNCHANGED <<row, queue, dlq, stream, accepted, redrives, failures>>

\* The message is not among the batch's failures, so the queue deletes it.
SenderDone(p) ==
  /\ run[p].pc = "done"
  /\ Stop(p)
  /\ UNCHANGED <<row, queue, dlq, stream, accepted, redrives, failures>>

SenderStep(p) ==
  \/ SenderRecopy(p) \/ SenderClaim(p) \/ \E o \in Outcomes : SenderSend(p, o)
  \/ SenderMarkDelivered(p) \/ SenderMarkDead(p) \/ SenderCopyDead(p)
  \/ SenderScheduleRetry(p) \/ SenderRequeue(p) \/ SenderConflict(p) \/ SenderDone(p)

\* The Lambda ends, or a call fails and the batch reports the message: it comes
\* again, even when the run had finished with it but not answered for the batch.
SenderFail(p) ==
  /\ run[p].pc # "idle"
  /\ failures < MaxFailures
  /\ failures' = failures + 1
  /\ Enqueue(run[p].id)
  /\ Stop(p)
  /\ UNCHANGED <<row, dlq, stream, accepted, redrives>>

\* A message whose receives are used up, by runs that failed or had too little
\* time left to attempt it: the queue itself moves it to the dead-letter queue.
Backstop(d) ==
  /\ queue[d] > 0
  /\ failures < MaxFailures
  /\ failures' = failures + 1
  /\ queue' = [queue EXCEPT ![d] = @ - 1]
  /\ CopyDead(d)
  /\ UNCHANGED <<row, stream, run, accepted, redrives>>

(***************************************************************************)
(* The reaper: sweepDue over one row of the due index                      *)
(***************************************************************************)
ReaperList(p, d) ==
  /\ run[p].pc = "idle"
  /\ Due(d)
  /\ Exhausted(row[d]) \/ queue[d] < MaxMessages
  /\ Read(p, d, IF Exhausted(row[d]) THEN "bury" ELSE "sweep")
  /\ UNCHANGED <<row, queue, dlq, stream, accepted, redrives, failures>>

\* The copy goes first here: once dead, the row has left the due index.
ReaperCopyDead(p) ==
  /\ run[p].pc = "bury"
  /\ CopyDead(run[p].id)
  /\ Goto(p, "markdead")
  /\ UNCHANGED <<row, queue, stream, accepted, redrives, failures>>

ReaperMarkDead(p) ==
  /\ run[p].pc = "markdead"
  /\ Save(p, MarkDead(run[p].view), Idle)
  /\ UNCHANGED <<queue, dlq, stream, accepted, redrives, failures>>

ReaperMarkQueued(p) ==
  /\ run[p].pc = "sweep"
  /\ Save(p, MarkQueued(run[p].view), With(p, MarkQueued(run[p].view), "resend"))
  /\ UNCHANGED <<queue, dlq, stream, accepted, redrives, failures>>

ReaperResend(p) ==
  /\ run[p].pc = "resend"
  /\ Enqueue(run[p].id)
  /\ Stop(p)
  /\ UNCHANGED <<row, dlq, stream, accepted, redrives, failures>>

\* Caught and logged; the row stays due.
ReaperConflict(p) ==
  /\ run[p].pc \in {"sweep", "markdead"}
  /\ ~run[p].fresh
  /\ Stop(p)
  /\ UNCHANGED <<row, queue, dlq, stream, accepted, redrives, failures>>

ReaperStep(p) ==
  \/ ReaperCopyDead(p) \/ ReaperMarkDead(p) \/ ReaperMarkQueued(p)
  \/ ReaperResend(p) \/ ReaperConflict(p)

(***************************************************************************)
(* Redriving a dead delivery                                               *)
(***************************************************************************)
\* handleRedrive reads the row, and allDead the index of the dead ones.
RedriveRead(p, d) ==
  /\ run[p].pc = "idle"
  /\ redrives < MaxRedrives
  /\ redrives' = redrives + 1
  /\ row[d].status = "dead"
  /\ Read(p, d, "reset")
  /\ UNCHANGED <<row, queue, dlq, stream, accepted, failures>>

\* requeueDelivery: on the condition that the row is dead, whatever its version.
ApiReset(p) ==
  /\ run[p].pc = "reset"
  /\ row[run[p].id].status = "dead"
  /\ Write(p, run[p].id, NewRow, With(p, NewRow, "resetsend"))
  /\ UNCHANGED <<queue, dlq, stream, accepted, redrives, failures>>

ApiNotDead(p) ==
  /\ run[p].pc = "reset"
  /\ row[run[p].id].status # "dead"
  /\ Stop(p)
  /\ UNCHANGED <<row, queue, dlq, stream, accepted, redrives, failures>>

ApiSend(p) ==
  /\ run[p].pc = "resetsend"
  /\ Enqueue(run[p].id)
  /\ Stop(p)
  /\ UNCHANGED <<row, dlq, stream, accepted, redrives, failures>>

\* store.reset: on the version that the script listed; a conflict ends the script.
ScriptReset(p) ==
  /\ run[p].pc = "reset"
  /\ Save(p, NewRow, With(p, NewRow, "resetsend"))
  /\ UNCHANGED <<queue, dlq, stream, accepted, redrives, failures>>

ScriptConflict(p) ==
  /\ run[p].pc = "reset"
  /\ ~run[p].fresh
  /\ Stop(p)
  /\ UNCHANGED <<row, queue, dlq, stream, accepted, redrives, failures>>

ScriptSend(p) ==
  /\ run[p].pc = "resetsend"
  /\ Enqueue(run[p].id)
  /\ Goto(p, "drain")
  /\ UNCHANGED <<row, dlq, stream, accepted, redrives, failures>>

\* drainRedriven deletes every copy it is shown whose body names the delivery.
ScriptDrain(p) ==
  /\ run[p].pc = "drain"
  /\ dlq' = dlq \ {run[p].id}
  /\ Stop(p)
  /\ UNCHANGED <<row, queue, stream, accepted, redrives, failures>>

ApiStep(p) == ApiReset(p) \/ ApiNotDead(p) \/ ApiSend(p)
ScriptStep(p) == ScriptReset(p) \/ ScriptConflict(p) \/ ScriptSend(p) \/ ScriptDrain(p)

\* A sweep or a redrive that ends early; what it has not done stays undone.
QuietFail(p) ==
  /\ run[p].pc # "idle"
  /\ failures < MaxFailures
  /\ failures' = failures + 1
  /\ Stop(p)
  /\ UNCHANGED <<row, queue, dlq, stream, accepted, redrives>>

Next ==
  \/ \E r \in Records : DispatcherStep(r) \/ DispatcherFail(r)
  \/ \E p \in Senders : \/ SenderStep(p) \/ SenderFail(p)
                        \/ \E d \in Deliveries : SenderReceive(p, d)
  \/ \E p \in Reapers : \/ ReaperStep(p) \/ QuietFail(p)
                        \/ \E d \in Deliveries : ReaperList(p, d)
  \/ \E p \in Apis : \/ ApiStep(p) \/ QuietFail(p)
                     \/ \E d \in Deliveries : RedriveRead(p, d)
  \/ \E p \in Scripts : \/ ScriptStep(p) \/ QuietFail(p)
                        \/ \E d \in Deliveries : RedriveRead(p, d)
  \/ \E d \in Deliveries : Backstop(d)

\* A Lambda that runs goes on until it ends or fails, the stream's and the
\* queue's pollers go on polling, and the schedule starts a sweep every minute.
\* A sweep queues one row at most every two minutes, so it does not for ever come
\* between a sender's read and its claim, which are one round trip apart.
\* Nothing obliges an operator to redrive, or the script to finish.
Fairness ==
  /\ \A r \in Records : WF_vars(DispatcherStep(r))
  /\ \A p \in Senders :
       /\ WF_vars(SenderStep(p) \/ \E d \in Deliveries : SenderReceive(p, d))
       /\ SF_vars(SenderClaim(p))
  /\ \A p \in Reapers :
       WF_vars(ReaperStep(p) \/ \E d \in Deliveries : ReaperList(p, d))
  /\ \A p \in Apis : WF_vars(ApiStep(p))

Spec == Init /\ [][Next]_vars /\ Fairness

(***************************************************************************)
(* Properties                                                              *)
(***************************************************************************)
\* Every variable has its type; a run that fails or ends leaves nothing behind.
TypeOK ==
  /\ row \in [Deliveries -> Row]
  /\ queue \in [Deliveries -> Nat]
  /\ dlq \subseteq Deliveries
  /\ stream \in [Records -> [state : StreamState, at : Nat \ {0}, tries : Nat]]
  /\ run \in [Runs -> Run]
  /\ accepted \subseteq Deliveries
  /\ redrives \in Nat
  /\ failures \in Nat

\* A stream record is only done with when each delivery it plans has a row, however
\* often the record came and wherever its earlier runs ended.
RecordsComplete == \A r \in Records : stream[r].state = "done" =>
  \A i \in 1..Len(Plan[r]) : row[Plan[r][i]].status # "none"

\* A dead delivery is one the dead-letter alarm sees, or will: there is a copy, or
\* a run about to send one, or a message whose receiver will find the row dead.
DeadIsSeen == \A d \in Deliveries : row[d].status = "dead" =>
  \/ d \in dlq
  \/ queue[d] > 0
  \/ \E p \in Senders : run[p].id = d /\ run[p].pc \in {"copy", "recopy"}

\* A redrive over the API resets the death its caller read, and no later one.
RedrivesWhatItRead == [][\A p \in Apis : ApiReset(p) => run[p].fresh]_vars

\* Every delivery is delivered or dead in the end, although runs fail, messages
\* are lost between a write and its send, and senders claim over each other.
Settles == \A d \in Deliveries :
  row[d].status \in Live ~> row[d].status \in TERMINAL

\* The service keeps the promise of an outbox: one creation, delivered only what
\* was accepted and then for good, dead for good unless redriven.
OutboxState(s) == IF s \in Live THEN "live" ELSE s
Promise == INSTANCE Outbox WITH
  state <- [d \in Deliveries |-> OutboxState(row[d].status)]
OutboxKept == Promise!Spec
=============================================================================
