--------------------------- MODULE DeliveryProofs ---------------------------
(***************************************************************************)
(* What holds of the actions service for any number of deliveries, stream  *)
(* records, senders, reapers, operators, attempts and failures.            *)
(*                                                                         *)
(* The argument is the version's: a run whose view is fresh sees the row   *)
(* as it is, so what it writes follows from what it read.  RunFits says so *)
(* of one run as a value, and not of a step, so that a write by one run is *)
(* shown once to leave every other run fitting (OthersFit).                *)
(***************************************************************************)
EXTENDS Delivery, TLAPS

\* Program points at which a run is about a delivery.
Named == PC \ {"idle", "create"}

\* Program points of a run that means to write a live row.
Writing == {"enqueue", "mark", "claim", "send", "record", "bury", "markdead", "sweep"}

\* What a run's local state m says of the table w and of the deliveries accepted.
RunFits(m, w, acc) ==
  /\ m \in Run
  /\ m.fresh => m.id \in Deliveries /\ w[m.id] = m.view
  /\ m.id \in Deliveries => w[m.id].status # "none"
  /\ m.pc \in Named => m.id \in Deliveries
  /\ m.pc \in Writing => m.view.status \in Live
  /\ m.pc = "reset" => m.view.status = "dead"
  /\ m.pc = "record" /\ m.outcome = "delivered" => m.id \in acc

RunsFit ==
  /\ run = [p \in Runs |-> run[p]]
  /\ \A p \in Runs : RunFits(run[p], row, accepted)

\* A message is about a delivery that was created.
QueueFits == \A d \in Deliveries : queue[d] > 0 => row[d].status # "none"

DataOK ==
  /\ row \in [Deliveries -> Row]
  /\ queue \in [Deliveries -> Nat]
  /\ dlq \subseteq Deliveries
  /\ stream \in [Records -> [state : StreamState, at : Nat \ {0}, tries : Nat]]
  /\ accepted \subseteq Deliveries
  /\ redrives \in Nat
  /\ failures \in Nat

IInv == DataOK /\ RunsFit /\ QueueFits

(***************************************************************************)
(* Runs                                                                    *)
(***************************************************************************)
LEMMA IdleFits == ASSUME NEW w, NEW acc PROVE RunFits(Idle, w, acc)
BY DeliveriesAssumption DEF RunFits, Idle, Run, PC, Row, NoRow, Status, Named, Writing

\* A write of another run's row, or of another row, leaves a run fitting.
LEMMA OthersFit ==
  ASSUME NEW m, NEW w \in [Deliveries -> Row], NEW acc, RunFits(m, w, acc),
         NEW d \in Deliveries, NEW new \in Row, new.status # "none"
  PROVE  RunFits(Overtaken(m, d), [w EXCEPT ![d] = new], acc)
<1> DEFINE n == Overtaken(m, d)
<1>1. /\ m \in Run /\ n \in Run
      /\ n.pc = m.pc /\ n.id = m.id /\ n.view = m.view /\ n.outcome = m.outcome
      /\ n.fresh = (m.fresh /\ m.id # d)
  BY DEF RunFits, Run, Overtaken
<1> HIDE DEF n
<1>2. QED
  BY <1>1, DeliveriesAssumption DEF RunFits, Row, n

\* A step of one run that writes no row.
LEMMA LocalStep ==
  ASSUME IInv, NEW p \in Runs, NEW mine, run' = [run EXCEPT ![p] = mine],
         row' = row, accepted \subseteq accepted', RunFits(mine, row, accepted')
  PROVE  RunsFit'
<1>1. run' = [q \in Runs |-> run'[q]]
  BY DEF IInv, RunsFit
<1>2. ASSUME NEW q \in Runs PROVE RunFits(run'[q], row, accepted')
  <2>1. CASE q = p BY <2>1 DEF IInv, RunsFit
  <2>2. CASE q # p
    <3>1. run'[q] = run[q] BY <2>2 DEF IInv, RunsFit
    <3>2. RunFits(run[q], row, accepted) BY DEF IInv, RunsFit
    <3>3. QED BY <3>1, <3>2 DEF RunFits
  <2>3. QED BY <2>1, <2>2
<1>3. QED BY <1>1, <1>2 DEF RunsFit

\* A step of one run that writes the row of d.
LEMMA WriteStep ==
  ASSUME IInv, NEW p \in Runs, NEW d \in Deliveries, NEW new \in Row,
         new.status # "none", NEW mine, Write(p, d, new, mine),
         UNCHANGED accepted, RunFits(mine, [row EXCEPT ![d] = new], accepted)
  PROVE  /\ RunsFit'
         /\ row' \in [Deliveries -> Row]
         /\ \A e \in Deliveries : row[e].status # "none" => row'[e].status # "none"
<1>1. /\ row \in [Deliveries -> Row]
      /\ row' = [row EXCEPT ![d] = new]
  BY DEF IInv, DataOK, Write
<1>2. run' = [q \in Runs |-> run'[q]]
  BY DEF Write
<1>3. ASSUME NEW q \in Runs PROVE RunFits(run'[q], row', accepted')
  <2>1. CASE q = p BY <1>1, <2>1 DEF Write
  <2>2. CASE q # p
    <3>1. run'[q] = Overtaken(run[q], d)
      BY <2>2 DEF Write
    <3>2. RunFits(run[q], row, accepted) BY DEF IInv, RunsFit
    <3>3. QED BY <1>1, <3>1, <3>2, OthersFit
  <2>3. QED BY <2>1, <2>2
<1>4. QED BY <1>1, <1>2, <1>3 DEF RunsFit

LEMMA RunIsFit ==
  ASSUME IInv, NEW p \in Runs
  PROVE  /\ RunFits(run[p], row, accepted)
         /\ run[p] \in Run
         /\ Idle \in Run
         /\ NewRow \in Row /\ NewRow.status = "pending"
BY DeliveriesAssumption
DEF IInv, RunsFit, RunFits, Idle, Run, PC, Row, NoRow, NewRow, Status, Live

\* A run may drop what it knew, and stop, at any point.
LEMMA StopStep ==
  ASSUME IInv, NEW p \in Runs, Stop(p), UNCHANGED <<row, accepted>>
  PROVE  RunsFit'
BY LocalStep, IdleFits DEF Stop

\* It may also go on without its view.
LEMMA AnswerStep ==
  ASSUME IInv, NEW p \in Runs, run[p].pc \in Named, Answer(p),
         UNCHANGED <<row, accepted>>
  PROVE  RunsFit'
<1>1. RunFits(Answering(p), row, accepted)
  BY RunIsFit, ZenonT(60) DEF RunFits, Answering, Idle, Run, PC, Named, Writing
<1>2. QED BY <1>1, LocalStep DEF Answer

\* A run that wrote goes on with what it wrote as its view.
LEMMA GoOnStep ==
  ASSUME IInv, NEW p \in Runs, run[p].pc \in Named,
         NEW new \in Row, new.status # "none",
         NEW pc \in PC \ {"reset"}, pc \in Writing => new.status \in Live,
         pc = "record" => run[p].outcome # "delivered",
         Write(p, run[p].id, new, With(p, new, pc)), UNCHANGED accepted
  PROVE  /\ RunsFit'
         /\ row' \in [Deliveries -> Row]
         /\ \A e \in Deliveries : row[e].status # "none" => row'[e].status # "none"
<1> DEFINE mine == With(p, new, pc)
<1>1. run[p] \in Run /\ run[p].id \in Deliveries
  BY RunIsFit DEF RunFits
<1>2. /\ mine \in Run
      /\ mine.pc = pc /\ mine.id = run[p].id /\ mine.view = new
      /\ mine.fresh = TRUE /\ mine.outcome = run[p].outcome
  BY <1>1 DEF With, Run
<1>3. row \in [Deliveries -> Row]
  BY DEF IInv, DataOK
<1>4. RunFits(mine, [row EXCEPT ![run[p].id] = new], accepted)
  <2> HIDE DEF mine
  <2>1. QED BY <1>1, <1>2, <1>3 DEF RunFits
<1>5. QED BY <1>1, <1>4, WriteStep

\* Moving a message in or out of the queue.
LEMMA EnqueueStep ==
  ASSUME IInv, NEW d \in Deliveries, row[d].status # "none", Enqueue(d), row' = row
  PROVE  queue' \in [Deliveries -> Nat] /\ QueueFits'
BY DEF IInv, DataOK, QueueFits, Enqueue

LEMMA DequeueStep ==
  ASSUME IInv, NEW d \in Deliveries, queue[d] > 0,
         queue' = [queue EXCEPT ![d] = @ - 1], row' = row
  PROVE  /\ queue' \in [Deliveries -> Nat] /\ QueueFits'
         /\ row[d].status # "none"
BY DEF IInv, DataOK, QueueFits

(***************************************************************************)
(* The dispatcher keeps the invariant                                      *)
(***************************************************************************)
LEMMA ReportInv ==
  ASSUME IInv, NEW r \in Records, Report(r), UNCHANGED <<row, queue, dlq, accepted, redrives>>,
         failures' \in Nat
  PROVE  IInv'
<1>1. RunsFit'
  BY StopStep DEF Report, Runs
<1>2. stream' \in [Records -> [state : StreamState, at : Nat \ {0}, tries : Nat]]
  BY DEF IInv, DataOK, Report, StreamState
<1>3. QED BY <1>1, <1>2 DEF IInv, DataOK, QueueFits

LEMMA DispatcherInv ==
  ASSUME IInv, NEW r \in Records, DispatcherStep(r) \/ DispatcherFail(r)
  PROVE  IInv'
<1> DEFINE Streams == [Records -> [state : StreamState, at : Nat \ {0}, tries : Nat]]
<1>0. r \in Runs /\ stream \in Streams /\ RunFits(run[r], row, accepted)
  BY RunIsFit DEF Runs, IInv, DataOK
<1>1. CASE DispatcherStart(r)
  <2> DEFINE mine == [run[r] EXCEPT !.pc = "create"]
  <2>1. RunFits(mine, row, accepted)
    BY <1>0, <1>1 DEF RunFits, Run, PC, Named, Writing
  <2>2. RunsFit'
    BY <1>0, <1>1, <2>1, LocalStep DEF DispatcherStart, Goto
  <2>3. stream' \in Streams
    <3> DEFINE next == [stream[r] EXCEPT !.state = "dispatching", !.at = 1]
    <3>1. next \in [state : StreamState, at : Nat \ {0}, tries : Nat]
      <4>1. stream[r] \in [state : StreamState, at : Nat \ {0}, tries : Nat]
        BY <1>0
      <4>2. 1 \in Nat \ {0} /\ "dispatching" \in StreamState
        BY DEF StreamState
      <4>3. QED BY <4>1, <4>2
    <3>2. stream' = [stream EXCEPT ![r] = next]
      BY <1>1 DEF DispatcherStart
    <3> HIDE DEF next
    <3>3. QED BY <1>0, <3>1, <3>2
  <2>4. QED BY <1>1, <2>2, <2>3 DEF IInv, DataOK, QueueFits, DispatcherStart
<1>2. CASE DispatcherCreate(r)
  <2> DEFINE d == Planned(r)
             mine == [Idle EXCEPT !.pc = "enqueue", !.id = d, !.view = NewRow, !.fresh = TRUE]
  <2>1. d \in Deliveries
    BY <1>0, <1>2, PlanAssumption DEF DispatcherCreate, More, Planned
  <2>2. NewRow \in Row /\ NewRow.status = "pending" /\ row \in [Deliveries -> Row]
    BY <1>0, RunIsFit DEF IInv, DataOK
  <2>3. /\ mine \in Run
        /\ mine.pc = "enqueue" /\ mine.id = d /\ mine.view = NewRow /\ mine.fresh = TRUE
    BY <2>1, <2>2 DEF Idle, Run, PC
  <2>4. Write(r, d, NewRow, mine) /\ UNCHANGED accepted
    BY <1>2 DEF DispatcherCreate
  <2> HIDE DEF d, mine
  <2>5. RunFits(mine, [row EXCEPT ![d] = NewRow], accepted)
    BY <2>1, <2>2, <2>3 DEF RunFits, Named, Writing, Live
  <2>6. /\ RunsFit' /\ row' \in [Deliveries -> Row]
        /\ \A e \in Deliveries : row[e].status # "none" => row'[e].status # "none"
    BY <1>0, <2>1, <2>2, <2>4, <2>5, WriteStep
  <2>7. QED BY <1>2, <2>6 DEF IInv, DataOK, QueueFits, DispatcherCreate
<1>3. CASE DispatcherSkip(r)
  <2>1. stream' \in Streams
    BY <1>0, <1>3 DEF DispatcherSkip, Advance
  <2>2. QED
    BY <1>3, <2>1 DEF IInv, DataOK, RunsFit, QueueFits, DispatcherSkip
<1>4. CASE DispatcherEnqueue(r)
  <2> DEFINE mine == [run[r] EXCEPT !.pc = "mark"]
  <2>1. /\ RunFits(mine, row, accepted)
        /\ run[r].id \in Deliveries /\ row[run[r].id].status # "none"
    BY <1>0, <1>4 DEF DispatcherEnqueue, RunFits, Run, PC, Named, Writing
  <2>2. RunsFit'
    BY <1>0, <1>4, <2>1, LocalStep DEF DispatcherEnqueue, Goto
  <2>3. queue' \in [Deliveries -> Nat] /\ QueueFits'
    BY <1>4, <2>1, EnqueueStep DEF DispatcherEnqueue
  <2>4. QED BY <1>4, <2>2, <2>3 DEF IInv, DataOK, DispatcherEnqueue
<1>5. CASE DispatcherMark(r)
  <2> DEFINE d == run[r].id
             new == MarkQueued(run[r].view)
             mine == [Idle EXCEPT !.pc = "create"]
  <2>1. d \in Deliveries /\ run[r].view \in Row /\ row \in [Deliveries -> Row]
    BY <1>0, <1>5 DEF DispatcherMark, RunFits, Run, PC, Named, IInv, DataOK
  <2>2. new \in Row /\ new.status = "queued"
    BY <2>1 DEF MarkQueued, WithStatus, Row, Status, Live
  <2>3. RunFits(mine, [row EXCEPT ![d] = new], accepted)
    BY DeliveriesAssumption
    DEF RunFits, Idle, Run, PC, Row, NoRow, Status, Named, Writing
  <2>4. Write(r, d, new, mine) /\ UNCHANGED accepted
    BY <1>5 DEF DispatcherMark, Save
  <2> HIDE DEF d, new, mine
  <2>5. /\ RunsFit' /\ row' \in [Deliveries -> Row]
        /\ \A e \in Deliveries : row[e].status # "none" => row'[e].status # "none"
    BY <1>0, <2>1, <2>2, <2>3, <2>4, WriteStep
  <2>6. stream' \in Streams
    BY <1>0, <1>5 DEF DispatcherMark, Advance
  <2>7. QED BY <1>5, <2>5, <2>6 DEF IInv, DataOK, QueueFits, DispatcherMark
<1>6. CASE DispatcherConflict(r)
  BY <1>6, ReportInv DEF DispatcherConflict, IInv, DataOK
<1>7. CASE DispatcherDone(r)
  <2>1. RunsFit'
    BY <1>0, <1>7, StopStep DEF DispatcherDone
  <2>2. stream' \in Streams
    BY <1>0, <1>7 DEF DispatcherDone, StreamState
  <2>3. QED BY <1>7, <2>1, <2>2 DEF IInv, DataOK, QueueFits, DispatcherDone
<1>8. CASE DispatcherFail(r)
  BY <1>8, ReportInv DEF DispatcherFail, IInv, DataOK
<1>9. QED BY <1>1, <1>2, <1>3, <1>4, <1>5, <1>6, <1>7, <1>8 DEF DispatcherStep

(***************************************************************************)
(* The senders keep the invariant                                          *)
(***************************************************************************)
\* A run that reads a row that was created fits, if it goes where the row sends it.
LEMMA ReadStep ==
  ASSUME IInv, NEW p \in Runs, NEW d \in Deliveries, row[d].status # "none",
         NEW pc \in PC \ {"record"}, Read(p, d, pc), UNCHANGED <<row, accepted>>,
         pc \in Writing => row[d].status \in Live,
         pc = "reset" => row[d].status = "dead"
  PROVE  RunsFit'
<1> DEFINE mine == [Idle EXCEPT !.pc = pc, !.id = d, !.view = row[d], !.fresh = TRUE]
<1>1. row[d] \in Row
  BY DEF IInv, DataOK
<1>2. /\ mine \in Run
      /\ mine.pc = pc /\ mine.id = d /\ mine.view = row[d]
  BY <1>1 DEF Idle, Run
<1>3. run' = [run EXCEPT ![p] = mine]
  BY DEF Read
<1> HIDE DEF mine
<1>4. RunFits(mine, row, accepted)
  BY <1>2 DEF RunFits
<1>5. QED BY <1>3, <1>4, LocalStep

\* A step of one run that changes no row and no message.
LEMMA QuietStep ==
  ASSUME IInv, RunsFit', UNCHANGED <<row, queue, stream>>,
         dlq' \subseteq Deliveries, accepted' \subseteq Deliveries,
         redrives' \in Nat, failures' \in Nat
  PROVE  IInv'
BY DEF IInv, DataOK, QueueFits

LEMMA SenderInv ==
  ASSUME IInv, NEW p \in Senders, SenderStep(p)
  PROVE  IInv'
<1>0. /\ p \in Runs
      /\ RunFits(run[p], row, accepted)
      /\ run[p] \in Run
      /\ row \in [Deliveries -> Row]
      /\ dlq \subseteq Deliveries /\ accepted \subseteq Deliveries
      /\ redrives \in Nat /\ failures \in Nat
  BY RunIsFit DEF Runs, IInv, DataOK
<1>a. ASSUME run[p].pc \in Named
      PROVE  /\ run[p].id \in Deliveries /\ row[run[p].id].status # "none"
             /\ run[p].view \in Row
  BY <1>0, <1>a DEF RunFits, Run
<1>1. CASE SenderRecopy(p) \/ SenderCopyDead(p)
  <2>1. run[p].pc \in Named
    BY <1>1 DEF SenderRecopy, SenderCopyDead, Named, PC
  <2>2. RunsFit'
    BY <1>0, <1>1, <2>1, AnswerStep DEF SenderRecopy, SenderCopyDead
  <2>3. dlq' \subseteq Deliveries
    BY <1>0, <1>1, <1>a, <2>1 DEF SenderRecopy, SenderCopyDead, CopyDead
  <2>4. QED BY <1>0, <1>1, <2>2, <2>3, QuietStep DEF SenderRecopy, SenderCopyDead
<1>2. CASE SenderClaim(p)
  <2> DEFINE new == Claimed(run[p].view)
  <2>1. run[p].pc \in Named
    BY <1>2 DEF SenderClaim, Named, PC
  <2>2. new \in Row /\ new.status = "delivering"
    BY <1>a, <2>1 DEF Claimed, Row, Status, Live
  <2>3. Write(p, run[p].id, new, With(p, new, "send")) /\ UNCHANGED accepted
    BY <1>2 DEF SenderClaim, Save
  <2> HIDE DEF new
  <2>4. /\ RunsFit' /\ row' \in [Deliveries -> Row]
        /\ \A e \in Deliveries : row[e].status # "none" => row'[e].status # "none"
    BY <1>0, <2>1, <2>2, <2>3, GoOnStep DEF PC, Live
  <2>5. QED BY <1>2, <2>4 DEF IInv, DataOK, QueueFits, SenderClaim
<1>3. ASSUME NEW o \in Outcomes, SenderSend(p, o) PROVE IInv'
  <2> DEFINE mine == [run[p] EXCEPT !.pc = "record", !.outcome = o]
  <2>1. run[p].pc = "send" /\ run[p].pc \in Named /\ run[p].pc \in Writing
    BY <1>3 DEF SenderSend, Named, Writing, PC
  <2>2. /\ mine \in Run /\ mine.pc = "record" /\ mine.outcome = o /\ mine.id = run[p].id
        /\ mine.view = run[p].view /\ mine.fresh = run[p].fresh
    BY <1>0, <1>3 DEF Run, PC, Outcomes
  <2>3. run' = [run EXCEPT ![p] = mine]
    BY <1>3 DEF SenderSend
  <2>4. /\ accepted \subseteq accepted' /\ accepted' \subseteq Deliveries
        /\ o = "delivered" => run[p].id \in accepted'
    BY <1>0, <1>3, <1>a, <2>1 DEF SenderSend
  <2> HIDE DEF mine
  <2>5. RunFits(mine, row, accepted')
    BY <1>0, <1>a, <2>1, <2>2, <2>4 DEF RunFits
  <2>6. RunsFit'
    BY <1>0, <1>3, <2>3, <2>4, <2>5, LocalStep DEF SenderSend
  <2>7. QED BY <1>0, <1>3, <2>4, <2>6, QuietStep DEF SenderSend
<1>4. CASE SenderMarkDelivered(p)
  <2> DEFINE new == MarkDelivered(run[p].view)
             d == run[p].id
  <2>1. run[p].pc \in Named
    BY <1>4 DEF SenderMarkDelivered, Named, PC
  <2>2. new \in Row /\ new.status = "delivered" /\ d \in Deliveries
    BY <1>a, <2>1 DEF MarkDelivered, WithStatus, Row, Status, TERMINAL
  <2>3. Write(p, d, new, Answering(p)) /\ UNCHANGED accepted
    BY <1>4 DEF SenderMarkDelivered, Save
  <2>4. /\ Answering(p) \in Run /\ Answering(p).pc = "done"
        /\ Answering(p).id = d /\ Answering(p).fresh = FALSE
    BY <2>2, RunIsFit, <1>0 DEF Answering, Idle, Run, PC
  <2> HIDE DEF new, d
  <2>5. RunFits(Answering(p), [row EXCEPT ![d] = new], accepted)
    BY <1>0, <2>2, <2>4 DEF RunFits, Writing
  <2>6. /\ RunsFit' /\ row' \in [Deliveries -> Row]
        /\ \A e \in Deliveries : row[e].status # "none" => row'[e].status # "none"
    BY <1>0, <2>2, <2>3, <2>5, WriteStep
  <2>7. QED BY <1>4, <2>6 DEF IInv, DataOK, QueueFits, SenderMarkDelivered
<1>5. CASE SenderMarkDead(p)
  <2> DEFINE new == MarkDead(run[p].view)
  <2>1. run[p].pc \in Named
    BY <1>5 DEF SenderMarkDead, Named, PC
  <2>2. new \in Row /\ new.status = "dead"
    BY <1>a, <2>1 DEF MarkDead, WithStatus, Row, Status, TERMINAL
  <2>3. Write(p, run[p].id, new, With(p, new, "copy")) /\ UNCHANGED accepted
    BY <1>5 DEF SenderMarkDead, Save
  <2> HIDE DEF new
  <2>4. /\ RunsFit' /\ row' \in [Deliveries -> Row]
        /\ \A e \in Deliveries : row[e].status # "none" => row'[e].status # "none"
    BY <1>0, <2>1, <2>2, <2>3, GoOnStep DEF PC, Writing
  <2>5. QED BY <1>5, <2>4 DEF IInv, DataOK, QueueFits, SenderMarkDead
<1>6. CASE SenderScheduleRetry(p)
  <2> DEFINE new == ScheduleRetry(run[p].view)
  <2>1. run[p].pc \in Named
    BY <1>6 DEF SenderScheduleRetry, Named, PC
  <2>2. new \in Row /\ new.status = "failed"
    BY <1>a, <2>1 DEF ScheduleRetry, WithStatus, Row, Status, Live
  <2>3. Write(p, run[p].id, new, With(p, new, "requeue")) /\ UNCHANGED accepted
    BY <1>6 DEF SenderScheduleRetry, Save
  <2> HIDE DEF new
  <2>4. /\ RunsFit' /\ row' \in [Deliveries -> Row]
        /\ \A e \in Deliveries : row[e].status # "none" => row'[e].status # "none"
    BY <1>0, <2>1, <2>2, <2>3, GoOnStep DEF PC, Writing
  <2>5. QED BY <1>6, <2>4 DEF IInv, DataOK, QueueFits, SenderScheduleRetry
<1>7. CASE SenderRequeue(p)
  <2>1. run[p].pc \in Named
    BY <1>7 DEF SenderRequeue, Named, PC
  <2>2. RunsFit'
    BY <1>0, <1>7, <2>1, AnswerStep DEF SenderRequeue
  <2>3. queue' \in [Deliveries -> Nat] /\ QueueFits'
    BY <1>7, <1>a, <2>1, EnqueueStep DEF SenderRequeue
  <2>4. QED BY <1>7, <2>2, <2>3 DEF IInv, DataOK, SenderRequeue
<1>8. CASE SenderConflict(p)
  <2>1. run[p].pc \in Named
    BY <1>8 DEF SenderConflict, Named, PC
  <2>2. RunsFit'
    BY <1>0, <1>8, <2>1, AnswerStep DEF SenderConflict
  <2>3. QED BY <1>0, <1>8, <2>2, QuietStep DEF SenderConflict
<1>9. CASE SenderDone(p)
  <2>1. RunsFit'
    BY <1>0, <1>9, StopStep DEF SenderDone
  <2>2. QED BY <1>0, <1>9, <2>1, QuietStep DEF SenderDone
<1>10. QED
  BY <1>1, <1>2, <1>3, <1>4, <1>5, <1>6, <1>7, <1>8, <1>9 DEF SenderStep

LEMMA SenderReceiveInv ==
  ASSUME IInv, NEW p \in Senders, NEW d \in Deliveries, SenderReceive(p, d)
  PROVE  IInv'
<1>1. /\ p \in Runs
      /\ queue' \in [Deliveries -> Nat] /\ QueueFits' /\ row[d].status # "none"
  BY DequeueStep DEF SenderReceive, Runs
<1>2. PICK pc \in {"claim", "recopy", "done"} :
        /\ Read(p, d, pc)
        /\ pc = "claim" => row[d].status \in Live
  BY DEF SenderReceive, Live
<1>3. RunsFit'
  BY <1>1, <1>2, ReadStep DEF SenderReceive, PC, Writing
<1>4. QED BY <1>1, <1>3 DEF IInv, DataOK, SenderReceive

\* A failed run's message comes back.
LEMMA SenderFailInv ==
  ASSUME IInv, NEW p \in Senders, SenderFail(p)
  PROVE  IInv'
<1>1. p \in Runs /\ RunFits(run[p], row, accepted) /\ failures \in Nat
  BY RunIsFit DEF Runs, IInv, DataOK
<1>2. RunsFit'
  BY <1>1, StopStep DEF SenderFail
<1>3. queue' \in [Deliveries -> Nat] /\ QueueFits'
  <2>1. CASE run[p].id \in Deliveries
    BY <1>1, <2>1, EnqueueStep DEF SenderFail, RunFits
  <2>2. CASE run[p].id \notin Deliveries
    BY <2>2 DEF SenderFail, Enqueue, IInv, DataOK, QueueFits
  <2>3. QED BY <2>1, <2>2
<1>4. QED BY <1>1, <1>2, <1>3 DEF IInv, DataOK, SenderFail

LEMMA BackstopInv ==
  ASSUME IInv, NEW d \in Deliveries, Backstop(d)
  PROVE  IInv'
<1>1. queue' \in [Deliveries -> Nat] /\ QueueFits'
  BY DequeueStep DEF Backstop
<1>2. QED
  BY <1>1 DEF IInv, DataOK, RunsFit, Backstop, CopyDead

(***************************************************************************)
(* The reapers and the redrives keep the invariant                         *)
(***************************************************************************)
LEMMA ReaperListInv ==
  ASSUME IInv, NEW p \in Reapers, NEW d \in Deliveries, ReaperList(p, d)
  PROVE  IInv'
<1>1. p \in Runs /\ row[d].status \in Live /\ row[d].status # "none"
  BY DEF ReaperList, Due, InDueIndex, Runs, Live
<1>2. PICK pc \in {"bury", "sweep"} : Read(p, d, pc)
  BY DEF ReaperList
<1>3. RunsFit'
  BY <1>1, <1>2, ReadStep DEF ReaperList, PC
<1>4. QED BY <1>3, QuietStep DEF ReaperList, IInv, DataOK

LEMMA ReaperInv ==
  ASSUME IInv, NEW p \in Reapers, ReaperStep(p)
  PROVE  IInv'
<1>0. /\ p \in Runs
      /\ RunFits(run[p], row, accepted)
      /\ run[p] \in Run
      /\ row \in [Deliveries -> Row]
      /\ dlq \subseteq Deliveries /\ accepted \subseteq Deliveries
      /\ redrives \in Nat /\ failures \in Nat
  BY RunIsFit DEF Runs, IInv, DataOK
<1>a. ASSUME run[p].pc \in Named
      PROVE  /\ run[p].id \in Deliveries /\ row[run[p].id].status # "none"
             /\ run[p].view \in Row
  BY <1>0, <1>a DEF RunFits, Run
<1>1. CASE ReaperCopyDead(p)
  <2> DEFINE mine == [run[p] EXCEPT !.pc = "markdead"]
  <2>1. run[p].pc \in Named /\ run[p].pc \in Writing
    BY <1>1 DEF ReaperCopyDead, Named, Writing, PC
  <2>2. RunFits(mine, row, accepted)
    BY <1>0, <2>1 DEF RunFits, Run, PC, Named, Writing
  <2>3. RunsFit'
    BY <1>0, <1>1, <2>2, LocalStep DEF ReaperCopyDead, Goto
  <2>4. dlq' \subseteq Deliveries
    BY <1>0, <1>1, <1>a, <2>1 DEF ReaperCopyDead, CopyDead
  <2>5. QED BY <1>0, <1>1, <2>3, <2>4, QuietStep DEF ReaperCopyDead
<1>2. CASE ReaperMarkDead(p)
  <2> DEFINE new == MarkDead(run[p].view)
             d == run[p].id
  <2>1. run[p].pc \in Named
    BY <1>2 DEF ReaperMarkDead, Named, PC
  <2>2. new \in Row /\ new.status = "dead" /\ d \in Deliveries
    BY <1>a, <2>1 DEF MarkDead, WithStatus, Row, Status, TERMINAL
  <2>3. Write(p, d, new, Idle) /\ UNCHANGED accepted
    BY <1>2 DEF ReaperMarkDead, Save
  <2> HIDE DEF new, d
  <2>4. RunFits(Idle, [row EXCEPT ![d] = new], accepted)
    BY IdleFits
  <2>5. /\ RunsFit' /\ row' \in [Deliveries -> Row]
        /\ \A e \in Deliveries : row[e].status # "none" => row'[e].status # "none"
    BY <1>0, <2>2, <2>3, <2>4, WriteStep
  <2>6. QED BY <1>2, <2>5 DEF IInv, DataOK, QueueFits, ReaperMarkDead
<1>3. CASE ReaperMarkQueued(p)
  <2> DEFINE new == MarkQueued(run[p].view)
  <2>1. run[p].pc \in Named
    BY <1>3 DEF ReaperMarkQueued, Named, PC
  <2>2. new \in Row /\ new.status = "queued"
    BY <1>a, <2>1 DEF MarkQueued, WithStatus, Row, Status, Live
  <2>3. Write(p, run[p].id, new, With(p, new, "resend")) /\ UNCHANGED accepted
    BY <1>3 DEF ReaperMarkQueued, Save
  <2> HIDE DEF new
  <2>4. /\ RunsFit' /\ row' \in [Deliveries -> Row]
        /\ \A e \in Deliveries : row[e].status # "none" => row'[e].status # "none"
    BY <1>0, <2>1, <2>2, <2>3, GoOnStep DEF PC, Writing
  <2>5. QED BY <1>3, <2>4 DEF IInv, DataOK, QueueFits, ReaperMarkQueued
<1>4. CASE ReaperResend(p)
  <2>1. run[p].pc \in Named
    BY <1>4 DEF ReaperResend, Named, PC
  <2>2. RunsFit'
    BY <1>0, <1>4, StopStep DEF ReaperResend
  <2>3. queue' \in [Deliveries -> Nat] /\ QueueFits'
    BY <1>4, <1>a, <2>1, EnqueueStep DEF ReaperResend
  <2>4. QED BY <1>4, <2>2, <2>3 DEF IInv, DataOK, ReaperResend
<1>5. CASE ReaperConflict(p)
  <2>1. RunsFit'
    BY <1>0, <1>5, StopStep DEF ReaperConflict
  <2>2. QED BY <1>0, <1>5, <2>1, QuietStep DEF ReaperConflict
<1>6. QED BY <1>1, <1>2, <1>3, <1>4, <1>5 DEF ReaperStep

LEMMA RedriveReadInv ==
  ASSUME IInv, NEW p \in Apis \cup Scripts, NEW d \in Deliveries, RedriveRead(p, d)
  PROVE  IInv'
<1>1. p \in Runs /\ redrives' \in Nat
  BY DEF RedriveRead, Runs, IInv, DataOK
<1>2. RunsFit'
  BY <1>1, ReadStep DEF RedriveRead, PC, Writing
<1>3. QED BY <1>1, <1>2, QuietStep DEF RedriveRead, IInv, DataOK

LEMMA RedriveInv ==
  ASSUME IInv, NEW p \in Runs, ApiStep(p) \/ ScriptStep(p)
  PROVE  IInv'
<1>0. /\ RunFits(run[p], row, accepted)
      /\ run[p] \in Run
      /\ row \in [Deliveries -> Row]
      /\ dlq \subseteq Deliveries /\ accepted \subseteq Deliveries
      /\ redrives \in Nat /\ failures \in Nat
      /\ NewRow \in Row /\ NewRow.status = "pending"
  BY RunIsFit DEF IInv, DataOK
<1>1. CASE ApiReset(p) \/ ScriptReset(p)
  <2>1. run[p].pc \in Named
    BY <1>1 DEF ApiReset, ScriptReset, Named, PC
  <2>2. Write(p, run[p].id, NewRow, With(p, NewRow, "resetsend")) /\ UNCHANGED accepted
    BY <1>1 DEF ApiReset, ScriptReset, Save
  <2>3. /\ RunsFit' /\ row' \in [Deliveries -> Row]
        /\ \A e \in Deliveries : row[e].status # "none" => row'[e].status # "none"
    BY <1>0, <2>1, <2>2, GoOnStep DEF PC, Writing
  <2>4. QED BY <1>1, <2>3 DEF IInv, DataOK, QueueFits, ApiReset, ScriptReset
<1>2. CASE ApiNotDead(p) \/ ScriptConflict(p)
  <2>1. RunsFit'
    BY <1>2, StopStep DEF ApiNotDead, ScriptConflict
  <2>2. QED BY <1>0, <1>2, <2>1, QuietStep DEF ApiNotDead, ScriptConflict
<1>3. CASE ApiSend(p) \/ ScriptSend(p)
  <2> DEFINE mine == [run[p] EXCEPT !.pc = "drain"]
  <2>1. /\ run[p].pc = "resetsend"
        /\ run[p].id \in Deliveries /\ row[run[p].id].status # "none"
    BY <1>0, <1>3 DEF ApiSend, ScriptSend, RunFits, Named, PC
  <2>2. RunFits(mine, row, accepted)
    BY <1>0, <2>1 DEF RunFits, Run, PC, Named, Writing
  <2>3. RunsFit'
    <3>1. CASE ApiSend(p) BY <3>1, StopStep DEF ApiSend
    <3>2. CASE ScriptSend(p)
      BY <2>2, <3>2, LocalStep DEF ScriptSend, Goto
    <3>3. QED BY <1>3, <3>1, <3>2
  <2>4. queue' \in [Deliveries -> Nat] /\ QueueFits'
    BY <1>3, <2>1, EnqueueStep DEF ApiSend, ScriptSend
  <2>5. QED BY <1>3, <2>3, <2>4 DEF IInv, DataOK, ApiSend, ScriptSend
<1>4. CASE ScriptDrain(p)
  <2>1. RunsFit'
    BY <1>4, StopStep DEF ScriptDrain
  <2>2. QED BY <1>0, <1>4, <2>1, QuietStep DEF ScriptDrain
<1>5. QED BY <1>1, <1>2, <1>3, <1>4 DEF ApiStep, ScriptStep

LEMMA QuietFailInv ==
  ASSUME IInv, NEW p \in Runs, QuietFail(p)
  PROVE  IInv'
<1>1. RunsFit'
  BY StopStep DEF QuietFail
<1>2. QED BY <1>1, QuietStep DEF QuietFail, IInv, DataOK

(***************************************************************************)
(* The invariant, and the types                                            *)
(***************************************************************************)
LEMMA IInvInit == Init => IInv
<1> SUFFICES ASSUME Init PROVE IInv
  OBVIOUS
<1>1. DataOK /\ QueueFits
  BY DEF Init, DataOK, QueueFits, NoRow, Row, Status, StreamState
<1>2. RunsFit
  BY IdleFits DEF Init, RunsFit
<1>3. QED BY <1>1, <1>2 DEF IInv

LEMMA IInvNext == IInv /\ [Next]_vars => IInv'
<1> SUFFICES ASSUME IInv, [Next]_vars PROVE IInv'
  OBVIOUS
<1>1. CASE \E r \in Records : DispatcherStep(r) \/ DispatcherFail(r)
  BY <1>1, DispatcherInv
<1>2. CASE \E p \in Senders : \/ SenderStep(p) \/ SenderFail(p)
                              \/ \E d \in Deliveries : SenderReceive(p, d)
  BY <1>2, SenderInv, SenderFailInv, SenderReceiveInv
<1>3. CASE \E p \in Reapers : \/ ReaperStep(p) \/ QuietFail(p)
                              \/ \E d \in Deliveries : ReaperList(p, d)
  BY <1>3, ReaperInv, QuietFailInv, ReaperListInv DEF Runs
<1>4. CASE \E p \in Apis : \/ ApiStep(p) \/ QuietFail(p)
                           \/ \E d \in Deliveries : RedriveRead(p, d)
  BY <1>4, RedriveInv, QuietFailInv, RedriveReadInv DEF Runs
<1>5. CASE \E p \in Scripts : \/ ScriptStep(p) \/ QuietFail(p)
                              \/ \E d \in Deliveries : RedriveRead(p, d)
  BY <1>5, RedriveInv, QuietFailInv, RedriveReadInv DEF Runs
<1>6. CASE \E d \in Deliveries : Backstop(d)
  BY <1>6, BackstopInv
<1>7. CASE UNCHANGED vars
  BY <1>7 DEF vars, IInv, DataOK, RunsFit, QueueFits
<1>8. QED BY <1>1, <1>2, <1>3, <1>4, <1>5, <1>6, <1>7 DEF Next

LEMMA IInvAlways == Spec => []IInv
BY IInvInit, IInvNext, PTL DEF Spec

\* Every variable keeps its type, for any number of runs and failures.
THEOREM DeliveryTypes == Spec => []TypeOK
<1>1. IInv => TypeOK
  BY DEF IInv, DataOK, RunsFit, RunFits, TypeOK
<1>2. QED BY <1>1, IInvAlways, PTL

(***************************************************************************)
(* The outbox's promise                                                    *)
(***************************************************************************)
\* Writing one row moves one delivery of the abstract outbox, or none.
LEMMA RowMove ==
  ASSUME IInv, NEW d \in Deliveries, NEW new \in Row,
         row' = [row EXCEPT ![d] = new], UNCHANGED accepted
  PROVE  /\ Promise!Move(d, OutboxState(row[d].status), OutboxState(new.status))
         /\ OutboxState(row[d].status) = OutboxState(new.status) =>
              UNCHANGED Promise!vars
<1> DEFINE state == [e \in Deliveries |-> OutboxState(row[e].status)]
<1>1. row \in [Deliveries -> Row] /\ row'[d] = new
  BY DEF IInv, DataOK
<1>2. state' = [state EXCEPT ![d] = OutboxState(new.status)]
  BY <1>1
<1>3. state[d] = OutboxState(row[d].status)
  OBVIOUS
<1>4. OutboxState(row[d].status) = OutboxState(new.status) => state' = state
  BY <1>2
<1>5. QED
  BY <1>2, <1>3, <1>4 DEF Promise!Move, Promise!vars

\* A run that saves read the row as it is.
LEMMA SavedView ==
  ASSUME IInv, NEW p \in Runs, run[p].fresh
  PROVE  /\ run[p].id \in Deliveries
         /\ row[run[p].id] = run[p].view
         /\ run[p].view \in Row
         /\ run[p].pc \in Writing => OutboxState(run[p].view.status) = "live"
BY DEF IInv, RunsFit, RunFits, Run, OutboxState

\* What a run may write of a live row: it stays live, or dies.
LEMMA LiveWrite ==
  ASSUME IInv, NEW p \in Runs, run[p].pc \in Writing, NEW new \in Row, NEW mine,
         new.status \in Live, Save(p, new, mine), UNCHANGED accepted
  PROVE  UNCHANGED Promise!vars
<1> DEFINE d == run[p].id
<1>1. d \in Deliveries /\ OutboxState(row[d].status) = OutboxState(new.status)
  BY SavedView DEF Save, OutboxState
<1>2. row' = [row EXCEPT ![d] = new]
  BY DEF Save, Write
<1> HIDE DEF d
<1>3. QED BY <1>1, <1>2, RowMove

LEMMA DeadWrite ==
  ASSUME IInv, NEW p \in Runs, run[p].pc \in Writing, NEW mine,
         Save(p, MarkDead(run[p].view), mine), UNCHANGED accepted
  PROVE  Promise!Next
<1> DEFINE d == run[p].id
           new == MarkDead(run[p].view)
<1>1. d \in Deliveries /\ OutboxState(row[d].status) = "live"
  BY SavedView DEF Save
<1>2. new \in Row /\ OutboxState(new.status) = "dead"
  BY SavedView
  DEF Save, MarkDead, WithStatus, Row, Status, TERMINAL, Live, OutboxState
<1>3. row' = [row EXCEPT ![d] = new]
  BY DEF Save, Write
<1> HIDE DEF d, new
<1>4. Promise!Die(d)
  BY <1>1, <1>2, <1>3, RowMove DEF Promise!Die
<1>5. QED BY <1>1, <1>4 DEF Promise!Next

LEMMA OutboxInit == Init => Promise!Init
BY DEF Init, Promise!Init, NoRow, OutboxState, Live

LEMMA OutboxStep ==
  ASSUME IInv, [Next]_vars
  PROVE  [Promise!Next]_(Promise!vars)
<1>1. ASSUME UNCHANGED <<row, accepted>> PROVE UNCHANGED Promise!vars
  BY <1>1 DEF Promise!vars
<1>2. ASSUME NEW r \in Records, DispatcherStep(r) \/ DispatcherFail(r)
      PROVE  [Promise!Next]_(Promise!vars)
  <2>0. r \in Runs
    BY DEF Runs
  <2>1. CASE DispatcherCreate(r)
    <3> DEFINE d == Planned(r)
    <3>1. d \in Deliveries
      BY <2>1, PlanAssumption DEF DispatcherCreate, More, Planned, IInv, DataOK
    <3>2. NewRow \in Row /\ NewRow.status = "pending"
      BY <2>0, RunIsFit
    <3>3. /\ row' = [row EXCEPT ![d] = NewRow] /\ UNCHANGED accepted
          /\ row[d].status = "none"
      BY <2>1 DEF DispatcherCreate, Write
    <3> HIDE DEF d
    <3>4. Promise!Create(d)
      BY <3>1, <3>2, <3>3, RowMove DEF OutboxState, Live, Promise!Create
    <3>5. QED BY <3>1, <3>4 DEF Promise!Next
  <2>2. CASE DispatcherMark(r)
    <3> DEFINE new == MarkQueued(run[r].view)
    <3>1. run[r].fresh /\ run[r].pc \in Writing
      BY <2>2 DEF DispatcherMark, Save, Writing
    <3>2. new \in Row /\ new.status \in Live
      BY <2>0, <3>1, SavedView DEF MarkQueued, WithStatus, Row, Status, Live
    <3>3. QED BY <2>0, <2>2, <3>1, <3>2, LiveWrite DEF DispatcherMark
  <2>3. QED
    BY <1>1, <1>2, <2>1, <2>2
    DEF DispatcherStep, DispatcherFail, DispatcherStart, DispatcherSkip,
        DispatcherEnqueue, DispatcherConflict, DispatcherDone
<1>3. ASSUME NEW p \in Senders, SenderStep(p)
      PROVE  [Promise!Next]_(Promise!vars)
  <2>0. p \in Runs /\ RunFits(run[p], row, accepted)
    BY RunIsFit DEF Runs
  <2>1. CASE SenderClaim(p)
    <3> DEFINE new == Claimed(run[p].view)
    <3>1. run[p].fresh /\ run[p].pc \in Writing
      BY <2>1 DEF SenderClaim, Save, Writing
    <3>2. new \in Row /\ new.status \in Live
      BY <2>0, <3>1, SavedView DEF Claimed, Row, Status, Live
    <3>3. QED BY <2>0, <2>1, <3>1, <3>2, LiveWrite DEF SenderClaim
  <2>2. ASSUME NEW o \in Outcomes, SenderSend(p, o) PROVE [Promise!Next]_(Promise!vars)
    <3> DEFINE d == run[p].id
    <3>1. d \in Deliveries /\ row[d].status # "none" /\ row' = row
          /\ accepted' \in {accepted, accepted \cup {d}}
      BY <2>0, <2>2 DEF SenderSend, RunFits, Named, PC
    <3>2. OutboxState(row[d].status) # "none"
      BY <3>1 DEF OutboxState
    <3> HIDE DEF d
    <3>3. CASE accepted' = accepted BY <1>1, <3>1, <3>3
    <3>4. CASE accepted' = accepted \cup {d}
      <4>1. Promise!Accept(d) BY <3>1, <3>2, <3>4 DEF Promise!Accept
      <4>2. QED BY <3>1, <4>1 DEF Promise!Next
    <3>5. QED BY <3>1, <3>3, <3>4
  <2>3. CASE SenderMarkDelivered(p)
    <3> DEFINE new == MarkDelivered(run[p].view)
               d == run[p].id
    <3>1. run[p].fresh /\ row' = [row EXCEPT ![d] = new] /\ UNCHANGED accepted
          /\ run[p].pc \in Writing
      BY <2>3 DEF SenderMarkDelivered, Save, Write, Writing
    <3>2. new \in Row /\ OutboxState(new.status) = "delivered"
      BY <2>0, <3>1, SavedView
      DEF MarkDelivered, WithStatus, Row, Status, TERMINAL, Live, OutboxState
    <3>3. d \in accepted /\ d \in Deliveries /\ OutboxState(row[d].status) = "live"
      BY <2>0, <2>3, <3>1, SavedView DEF SenderMarkDelivered, RunFits
    <3> HIDE DEF new, d
    <3>4. Promise!Deliver(d)
      BY <3>1, <3>2, <3>3, RowMove DEF Promise!Deliver
    <3>5. QED BY <3>3, <3>4 DEF Promise!Next
  <2>4. CASE SenderMarkDead(p)
    BY <2>0, <2>4, DeadWrite DEF SenderMarkDead, Writing
  <2>5. CASE SenderScheduleRetry(p)
    <3> DEFINE new == ScheduleRetry(run[p].view)
    <3>1. run[p].fresh /\ run[p].pc \in Writing
      BY <2>5 DEF SenderScheduleRetry, Save, Writing
    <3>2. new \in Row /\ new.status \in Live
      BY <2>0, <3>1, SavedView DEF ScheduleRetry, WithStatus, Row, Status, Live
    <3>3. QED BY <2>0, <2>5, <3>1, <3>2, LiveWrite DEF SenderScheduleRetry
  <2>6. QED
    BY <1>1, <1>3, <2>1, <2>2, <2>3, <2>4, <2>5
    DEF SenderStep, SenderRecopy, SenderCopyDead, SenderRequeue, SenderConflict, SenderDone
<1>4. ASSUME NEW p \in Reapers, ReaperStep(p)
      PROVE  [Promise!Next]_(Promise!vars)
  <2>0. p \in Runs
    BY DEF Runs
  <2>1. CASE ReaperMarkDead(p)
    BY <2>0, <2>1, DeadWrite DEF ReaperMarkDead, Writing
  <2>2. CASE ReaperMarkQueued(p)
    <3> DEFINE new == MarkQueued(run[p].view)
    <3>1. run[p].fresh /\ run[p].pc \in Writing
      BY <2>2 DEF ReaperMarkQueued, Save, Writing
    <3>2. new \in Row /\ new.status \in Live
      BY <2>0, <3>1, SavedView DEF MarkQueued, WithStatus, Row, Status, Live
    <3>3. QED BY <2>0, <2>2, <3>1, <3>2, LiveWrite DEF ReaperMarkQueued
  <2>3. QED
    BY <1>1, <1>4, <2>1, <2>2 DEF ReaperStep, ReaperCopyDead, ReaperResend, ReaperConflict
<1>5. ASSUME NEW p \in Runs, ApiStep(p) \/ ScriptStep(p)
      PROVE  [Promise!Next]_(Promise!vars)
  <2>1. CASE ApiReset(p) \/ ScriptReset(p)
    <3> DEFINE d == run[p].id
    <3>1. row' = [row EXCEPT ![d] = NewRow] /\ UNCHANGED accepted
      BY <2>1 DEF ApiReset, ScriptReset, Save, Write
    <3>2. d \in Deliveries /\ NewRow \in Row /\ NewRow.status = "pending"
      BY <2>1, RunIsFit DEF ApiReset, ScriptReset, RunFits, Named, PC
    <3>3. row[d].status = "dead"
      BY <2>1, RunIsFit DEF ApiReset, ScriptReset, Save, RunFits
    <3> HIDE DEF d
    <3>4. Promise!Redrive(d)
      BY <3>1, <3>2, <3>3, RowMove DEF Promise!Redrive, OutboxState, Live
    <3>5. QED BY <3>2, <3>4 DEF Promise!Next
  <2>2. QED
    BY <1>1, <1>5, <2>1
    DEF ApiStep, ScriptStep, ApiNotDead, ApiSend, ScriptConflict, ScriptSend, ScriptDrain
<1>6. ASSUME \/ \E p \in Senders : SenderFail(p)
             \/ \E p \in Runs : QuietFail(p)
             \/ \E p \in Runs, d \in Deliveries :
                  SenderReceive(p, d) \/ ReaperList(p, d) \/ RedriveRead(p, d)
             \/ \E d \in Deliveries : Backstop(d)
             \/ UNCHANGED vars
      PROVE  [Promise!Next]_(Promise!vars)
  BY <1>1, <1>6 DEF SenderFail, QuietFail, SenderReceive, ReaperList, RedriveRead, Backstop, vars
<1>7. QED BY <1>2, <1>3, <1>4, <1>5, <1>6 DEF Next, Runs

\* The service implements the outbox: a delivery is created once, delivered is for
\* good and only said of what was accepted, and only a redrive undoes dead.
THEOREM OutboxIsKept == Spec => OutboxKept
<1>1. IInv /\ [Next]_vars => [Promise!Next]_(Promise!vars)
  BY OutboxStep
<1>2. QED
  BY <1>1, OutboxInit, IInvAlways, PTL DEF Spec, OutboxKept, Promise!Spec

(***************************************************************************)
(* Which runs a step moves                                                 *)
(***************************************************************************)
\* Only p moves: any other run may lose its view, and nothing else.
OnlyMoves(p) == \A q \in Runs \ {p} :
  run'[q].pc = run[q].pc /\ run'[q].id = run[q].id

\* A delivery that was created stays created.
RowsStay == \A d \in Deliveries : row[d].status # "none" => row'[d].status # "none"

LEMMA OvertakenMoves ==
  ASSUME NEW m \in Run, NEW d
  PROVE  Overtaken(m, d).pc = m.pc /\ Overtaken(m, d).id = m.id
BY DEF Overtaken, Run

LEMMA WriteMoves ==
  ASSUME IInv, NEW p \in Runs, NEW d, NEW new, NEW mine, Write(p, d, new, mine)
  PROVE  OnlyMoves(p) /\ run'[p] = mine
BY RunIsFit, OvertakenMoves DEF Write, OnlyMoves

LEMMA LocalMoves ==
  ASSUME IInv, NEW p \in Runs, NEW mine, run' = [run EXCEPT ![p] = mine]
  PROVE  OnlyMoves(p) /\ run'[p] = mine
BY DEF OnlyMoves, IInv, RunsFit

\* What the steps of a run have in common.
LEMMA Moves ==
  ASSUME IInv, NEW p \in Runs
  PROVE  /\ \A pc : Goto(p, pc) => OnlyMoves(p) /\ run'[p].pc = pc /\ run'[p].id = run[p].id
         /\ \A pc : \A d \in Deliveries : Read(p, d, pc) =>
              OnlyMoves(p) /\ run'[p].pc = pc /\ run'[p].id = d
         /\ Stop(p) => OnlyMoves(p) /\ run'[p] = Idle
         /\ Answer(p) => OnlyMoves(p) /\ run'[p].pc = "done" /\ run'[p].id = run[p].id
<1>0. run[p] \in Run
  BY RunIsFit
<1>1. ASSUME NEW pc, Goto(p, pc)
      PROVE  OnlyMoves(p) /\ run'[p].pc = pc /\ run'[p].id = run[p].id
  <2> DEFINE mine == [run[p] EXCEPT !.pc = pc]
  <2>1. mine.pc = pc /\ mine.id = run[p].id BY <1>0 DEF Run
  <2>2. run' = [run EXCEPT ![p] = mine] BY <1>1 DEF Goto
  <2> HIDE DEF mine
  <2>3. QED BY <2>1, <2>2, LocalMoves
<1>2. ASSUME NEW d \in Deliveries, NEW pc, Read(p, d, pc)
      PROVE  OnlyMoves(p) /\ run'[p].pc = pc /\ run'[p].id = d
  <2> DEFINE mine == [Idle EXCEPT !.pc = pc, !.id = d, !.view = row[d], !.fresh = TRUE]
  <2>1. mine.pc = pc /\ mine.id = d BY DEF Idle
  <2>2. run' = [run EXCEPT ![p] = mine] BY <1>2 DEF Read
  <2> HIDE DEF mine
  <2>3. QED BY <2>1, <2>2, LocalMoves
<1>3. ASSUME Stop(p) PROVE OnlyMoves(p) /\ run'[p] = Idle
  BY <1>3, LocalMoves DEF Stop
<1>4. ASSUME Answer(p)
      PROVE  OnlyMoves(p) /\ run'[p].pc = "done" /\ run'[p].id = run[p].id
  <2>1. Answering(p).pc = "done" /\ Answering(p).id = run[p].id
    BY DEF Answering, Idle
  <2>2. QED BY <1>4, <2>1, LocalMoves DEF Answer
<1>5. QED BY <1>1, <1>2, <1>3, <1>4

(***************************************************************************)
(* No death is hidden                                                      *)
(***************************************************************************)
\* What shows a death of d, in the dead-letter queue, the queue and the runs given.
Shown(d, dead, messages, runs) ==
  \/ d \in dead
  \/ messages[d] > 0
  \/ \E p \in Senders : runs[p].id = d /\ runs[p].pc \in {"copy", "recopy"}

\* The reaper's copy is sent before its write.
CopiedFirst == \A p \in Reapers : run[p].pc = "markdead" => run[p].id \in dlq

SeenInv == DeadIsSeen /\ CopiedFirst

\* A step of p that hides no death: each new one is seen, and what showed an old
\* one, a message or a copy that p had yet to send, is still there or copied.
HidesNothing(p) ==
  /\ OnlyMoves(p)
  /\ dlq \subseteq dlq'
  /\ \A d \in Deliveries : row'[d].status = "dead" /\ row[d].status # "dead" =>
       Shown(d, dlq', queue', run')
  /\ \A d \in Deliveries : row'[d].status = "dead" /\ queue[d] > 0 =>
       Shown(d, dlq', queue', run')
  /\ p \in Senders /\ run[p].pc \in {"copy", "recopy"} =>
       Shown(run[p].id, dlq', queue', run')
  /\ p \in Reapers /\ run'[p].pc = "markdead" => run'[p].id \in dlq'

LEMMA SeenStep ==
  ASSUME SeenInv, NEW p \in Runs, HidesNothing(p)
  PROVE  SeenInv'
<1>1. ASSUME NEW d \in Deliveries, row'[d].status = "dead" PROVE Shown(d, dlq', queue', run')
  <2>1. CASE row[d].status # "dead" BY <1>1, <2>1 DEF HidesNothing
  <2>2. CASE d \in dlq BY <2>2 DEF Shown, HidesNothing
  <2>3. CASE queue[d] > 0 BY <1>1, <2>3 DEF HidesNothing
  <2>4. ASSUME NEW q \in Senders, run[q].id = d, run[q].pc \in {"copy", "recopy"}
        PROVE  Shown(d, dlq', queue', run')
    <3>1. CASE q = p BY <2>4, <3>1 DEF HidesNothing
    <3>2. CASE q # p
      <4>1. run'[q].pc = run[q].pc /\ run'[q].id = run[q].id
        BY <3>2 DEF HidesNothing, OnlyMoves, Runs
      <4>2. QED BY <2>4, <4>1 DEF Shown
    <3>3. QED BY <3>1, <3>2
  <2>5. row[d].status = "dead" => Shown(d, dlq, queue, run)
    BY DEF SeenInv, DeadIsSeen, Shown
  <2>6. QED BY <2>1, <2>2, <2>3, <2>4, <2>5 DEF Shown
<1>2. CopiedFirst'
  BY DEF SeenInv, CopiedFirst, HidesNothing, OnlyMoves, Runs
<1>3. QED BY <1>1, <1>2 DEF SeenInv, DeadIsSeen, Shown

LEMMA DispatcherSeen ==
  ASSUME IInv, SeenInv, NEW r \in Records, DispatcherStep(r) \/ DispatcherFail(r)
  PROVE  SeenInv'
<1>0. /\ r \in Runs /\ r \notin Senders /\ r \notin Reapers
      /\ row \in [Deliveries -> Row] /\ queue \in [Deliveries -> Nat]
      /\ RunFits(run[r], row, accepted)
  BY RunIsFit, RunsAssumption DEF Runs, IInv, DataOK
<1>1. OnlyMoves(r)
  BY <1>0, Moves, WriteMoves
  DEF DispatcherStep, DispatcherStart, DispatcherCreate, DispatcherSkip, DispatcherEnqueue,
      DispatcherMark, DispatcherConflict, DispatcherDone, DispatcherFail, Report, Save, OnlyMoves
<1>2. dlq' = dlq /\ \A d \in Deliveries : queue[d] > 0 => queue'[d] > 0
  BY <1>0
  DEF DispatcherStep, DispatcherStart, DispatcherCreate, DispatcherSkip, DispatcherEnqueue,
      DispatcherMark, DispatcherConflict, DispatcherDone, DispatcherFail, Enqueue
<1>3. ASSUME NEW d \in Deliveries, row'[d].status = "dead" PROVE row[d].status = "dead"
  <2>1. CASE DispatcherCreate(r)
    BY <1>0, <1>3, <2>1 DEF DispatcherCreate, Write, NewRow
  <2>2. CASE DispatcherMark(r)
    <3>1. run[r].view \in Row
      BY <1>0 DEF RunFits, Run
    <3>2. MarkQueued(run[r].view).status = "queued"
      BY <3>1 DEF MarkQueued, WithStatus, Row
    <3>3. row' = [row EXCEPT ![run[r].id] = MarkQueued(run[r].view)]
      BY <2>2 DEF DispatcherMark, Save, Write
    <3>4. QED BY <1>0, <1>3, <3>2, <3>3
  <2>3. QED
    BY <1>3, <2>1, <2>2
    DEF DispatcherStep, DispatcherStart, DispatcherSkip, DispatcherEnqueue,
        DispatcherConflict, DispatcherDone, DispatcherFail
<1>4. \A d \in Deliveries : queue[d] > 0 => Shown(d, dlq', queue', run')
  BY <1>2 DEF Shown
<1>5. HidesNothing(r)
  BY <1>0, <1>1, <1>2, <1>3, <1>4 DEF HidesNothing
<1>6. QED BY <1>0, <1>5, SeenStep

\* A write of anything but a death makes no delivery dead.
LEMMA LiveWriteSeen ==
  ASSUME IInv, NEW p, NEW d, NEW new, NEW mine, Write(p, d, new, mine), new.status # "dead"
  PROVE  \A e \in Deliveries : row'[e].status = "dead" => row[e].status = "dead"
BY DEF Write, IInv, DataOK

\* A step of a run that only moves itself, or enqueues, while it has no copy to send.
LEMMA QuietSeen ==
  ASSUME IInv, SeenInv, NEW p \in Runs, OnlyMoves(p),
         p \in Senders => run[p].pc \notin {"copy", "recopy"},
         p \in Reapers => run'[p].pc # "markdead",
         \A d \in Deliveries : row'[d].status = "dead" => row[d].status = "dead",
         dlq' = dlq,
         queue' = queue \/ \E d \in Deliveries : Enqueue(d)
  PROVE  SeenInv'
<1>1. \A d \in Deliveries : queue[d] > 0 => queue'[d] > 0
  BY DEF Enqueue, IInv, DataOK
<1>2. HidesNothing(p)
  BY <1>1 DEF HidesNothing, Shown
<1>3. QED BY <1>2, SeenStep

LEMMA SenderSeen ==
  ASSUME IInv, SeenInv, NEW p \in Senders, SenderStep(p)
  PROVE  SeenInv'
<1>0. /\ p \in Runs /\ p \notin Reapers
      /\ row \in [Deliveries -> Row] /\ queue \in [Deliveries -> Nat]
      /\ run[p] \in Run
      /\ run[p].pc \in Named => run[p].id \in Deliveries
  BY RunIsFit, RunsAssumption DEF Runs, IInv, DataOK, RunFits
<1>1. CASE SenderRecopy(p) \/ SenderCopyDead(p)
  <2>1. OnlyMoves(p)
    BY <1>0, <1>1, Moves DEF SenderRecopy, SenderCopyDead
  <2>2. HidesNothing(p)
    BY <1>0, <1>1, <2>1 DEF SenderRecopy, SenderCopyDead, CopyDead, HidesNothing, Shown
  <2>3. QED BY <1>0, <2>2, SeenStep
<1>2. ASSUME NEW new, NEW mine, Save(p, new, mine), new.status # "dead",
             run[p].pc \in {"claim", "record"}, UNCHANGED <<queue, dlq>>
      PROVE  SeenInv'
  <2>1. Write(p, run[p].id, new, mine)
    BY <1>2 DEF Save
  <2>2. OnlyMoves(p)
    BY <1>0, <2>1, WriteMoves
  <2>3. \A d \in Deliveries : row'[d].status = "dead" => row[d].status = "dead"
    BY <1>2, <2>1, LiveWriteSeen
  <2>4. QED BY <1>0, <1>2, <2>2, <2>3, QuietSeen
<1>3. CASE SenderClaim(p)
  <2>1. Claimed(run[p].view).status # "dead"
    BY DEF Claimed
  <2>2. QED BY <1>2, <1>3, <2>1 DEF SenderClaim
<1>4. CASE SenderMarkDelivered(p)
  <2>1. MarkDelivered(run[p].view).status # "dead"
    BY <1>0 DEF MarkDelivered, WithStatus, Run, Row
  <2>2. QED BY <1>2, <1>4, <2>1 DEF SenderMarkDelivered
<1>5. CASE SenderScheduleRetry(p)
  <2>1. ScheduleRetry(run[p].view).status # "dead"
    BY <1>0 DEF ScheduleRetry, WithStatus, Run, Row
  <2>2. QED BY <1>2, <1>5, <2>1 DEF SenderScheduleRetry
<1>6. CASE SenderMarkDead(p)
  <2> DEFINE mine == With(p, MarkDead(run[p].view), "copy")
  <2>1. mine.pc = "copy" /\ mine.id = run[p].id
    BY <1>0 DEF With, Run
  <2>2. Write(p, run[p].id, MarkDead(run[p].view), mine)
    BY <1>6 DEF SenderMarkDead, Save
  <2> HIDE DEF mine
  <2>3. OnlyMoves(p) /\ run'[p] = mine
    BY <1>0, <2>2, WriteMoves
  <2>4. \A d \in Deliveries : row'[d].status = "dead" =>
          row[d].status = "dead" \/ Shown(d, dlq', queue', run')
    BY <1>0, <2>1, <2>2, <2>3 DEF Write, Shown
  <2>5. HidesNothing(p)
    BY <1>0, <1>6, <2>3, <2>4 DEF SenderMarkDead, HidesNothing, Shown
  <2>6. QED BY <1>0, <2>5, SeenStep
<1>7. CASE \E o \in Outcomes : SenderSend(p, o)
  <2>1. OnlyMoves(p)
    BY <1>0, <1>7 DEF SenderSend, OnlyMoves, IInv, RunsFit
  <2>2. QED BY <1>0, <1>7, <2>1, QuietSeen DEF SenderSend
<1>8. CASE SenderRequeue(p)
  <2>1. OnlyMoves(p)
    BY <1>0, <1>8, Moves DEF SenderRequeue
  <2>2. run[p].id \in Deliveries
    BY <1>0, <1>8 DEF SenderRequeue, Named, PC
  <2>3. QED BY <1>0, <1>8, <2>1, <2>2, QuietSeen DEF SenderRequeue
<1>9. CASE SenderConflict(p) \/ SenderDone(p)
  <2>1. OnlyMoves(p)
    BY <1>0, <1>9, Moves DEF SenderConflict, SenderDone
  <2>2. QED BY <1>0, <1>9, <2>1, QuietSeen DEF SenderConflict, SenderDone
<1>10. QED BY <1>1, <1>3, <1>4, <1>5, <1>6, <1>7, <1>8, <1>9 DEF SenderStep

LEMMA SenderReceiveSeen ==
  ASSUME IInv, SeenInv, NEW p \in Senders, NEW d \in Deliveries, SenderReceive(p, d)
  PROVE  SeenInv'
<1>0. p \in Runs /\ p \notin Reapers /\ queue \in [Deliveries -> Nat]
  BY RunsAssumption DEF Runs, IInv, DataOK
<1>1. PICK pc : /\ Read(p, d, pc)
                /\ row[d].status = "dead" => pc = "recopy"
  BY DEF SenderReceive, Live
<1>2. OnlyMoves(p) /\ run'[p].pc = pc /\ run'[p].id = d
  BY <1>0, <1>1, Moves
<1>3. HidesNothing(p)
  BY <1>0, <1>1, <1>2 DEF SenderReceive, HidesNothing, Shown
<1>4. QED BY <1>0, <1>3, SeenStep

LEMMA SenderFailSeen ==
  ASSUME IInv, SeenInv, NEW p \in Senders, SenderFail(p)
  PROVE  SeenInv'
<1>0. /\ p \in Runs /\ p \notin Reapers /\ queue \in [Deliveries -> Nat]
      /\ run[p].pc \in Named => run[p].id \in Deliveries
  BY RunIsFit, RunsAssumption DEF Runs, IInv, DataOK, RunFits
<1>1. OnlyMoves(p)
  BY <1>0, Moves DEF SenderFail
<1>2. HidesNothing(p)
  BY <1>0, <1>1 DEF SenderFail, Enqueue, HidesNothing, Shown, Named, PC
<1>3. QED BY <1>0, <1>2, SeenStep

\* The queue's own step moves no run.
LEMMA BackstopSeen ==
  ASSUME IInv, SeenInv, NEW d \in Deliveries, Backstop(d)
  PROVE  SeenInv'
<1>1. DeadIsSeen'
  BY DEF Backstop, CopyDead, SeenInv, DeadIsSeen, IInv, DataOK
<1>2. CopiedFirst'
  BY DEF Backstop, CopyDead, SeenInv, CopiedFirst
<1>3. QED BY <1>1, <1>2 DEF SeenInv

LEMMA ReaperSeen ==
  ASSUME IInv, SeenInv, NEW p \in Reapers, ReaperStep(p)
  PROVE  SeenInv'
<1>0. /\ p \in Runs /\ p \notin Senders
      /\ row \in [Deliveries -> Row] /\ run[p] \in Run
      /\ run[p].pc \in Named => run[p].id \in Deliveries
  BY RunIsFit, RunsAssumption DEF Runs, IInv, DataOK, RunFits
<1>1. CASE ReaperCopyDead(p)
  <2>1. OnlyMoves(p) /\ run'[p].id = run[p].id
    BY <1>0, <1>1, Moves DEF ReaperCopyDead
  <2>2. HidesNothing(p)
    BY <1>0, <1>1, <2>1 DEF ReaperCopyDead, CopyDead, HidesNothing, Shown
  <2>3. QED BY <1>0, <2>2, SeenStep
<1>2. CASE ReaperMarkDead(p)
  <2>1. Write(p, run[p].id, MarkDead(run[p].view), Idle)
    BY <1>2 DEF ReaperMarkDead, Save
  <2>2. OnlyMoves(p) /\ run'[p] = Idle
    BY <1>0, <2>1, WriteMoves
  <2>3. run[p].id \in dlq
    BY <1>2 DEF ReaperMarkDead, SeenInv, CopiedFirst
  <2>4. \A d \in Deliveries : row'[d].status = "dead" => row[d].status = "dead" \/ d \in dlq
    BY <1>0, <2>1, <2>3 DEF Write
  <2>5. HidesNothing(p)
    BY <1>0, <1>2, <2>2, <2>4 DEF ReaperMarkDead, HidesNothing, Shown, Idle
  <2>6. QED BY <1>0, <2>5, SeenStep
<1>3. CASE ReaperMarkQueued(p)
  <2> DEFINE new == MarkQueued(run[p].view)
             mine == With(p, new, "resend")
  <2>1. new.status = "queued" /\ mine.pc = "resend"
    BY <1>0 DEF MarkQueued, WithStatus, With, Run, Row
  <2>2. Write(p, run[p].id, new, mine)
    BY <1>3 DEF ReaperMarkQueued, Save
  <2> HIDE DEF new, mine
  <2>3. OnlyMoves(p) /\ run'[p] = mine
    BY <1>0, <2>2, WriteMoves
  <2>4. \A d \in Deliveries : row'[d].status = "dead" => row[d].status = "dead"
    BY <2>1, <2>2, LiveWriteSeen
  <2>5. QED BY <1>0, <1>3, <2>1, <2>3, <2>4, QuietSeen DEF ReaperMarkQueued
<1>4. CASE ReaperResend(p) \/ ReaperConflict(p)
  <2>1. OnlyMoves(p) /\ run'[p] = Idle
    BY <1>0, <1>4, Moves DEF ReaperResend, ReaperConflict
  <2>2. queue' = queue \/ \E d \in Deliveries : Enqueue(d)
    BY <1>0, <1>4 DEF ReaperResend, ReaperConflict, Named, PC
  <2>3. row' = row /\ dlq' = dlq
    BY <1>4 DEF ReaperResend, ReaperConflict
  <2>4. QED BY <1>0, <2>1, <2>2, <2>3, QuietSeen DEF Idle
<1>5. QED BY <1>1, <1>2, <1>3, <1>4 DEF ReaperStep

LEMMA ReadSeen ==
  ASSUME IInv, SeenInv, NEW p \in Reapers \cup Apis, NEW d \in Deliveries,
         ReaperList(p, d) \/ RedriveRead(p, d)
  PROVE  SeenInv'
<1>0. p \in Runs /\ p \notin Senders
  BY RunsAssumption DEF Runs
<1>1. PICK pc : Read(p, d, pc) /\ pc # "markdead"
  BY DEF ReaperList, RedriveRead
<1>2. OnlyMoves(p) /\ run'[p].pc = pc
  BY <1>0, <1>1, Moves
<1>3. QED BY <1>0, <1>1, <1>2, QuietSeen DEF ReaperList, RedriveRead

LEMMA QuietFailSeen ==
  ASSUME IInv, SeenInv, NEW p \in Reapers \cup Apis, QuietFail(p)
  PROVE  SeenInv'
<1>0. p \in Runs /\ p \notin Senders
  BY RunsAssumption DEF Runs
<1>1. OnlyMoves(p) /\ run'[p] = Idle
  BY <1>0, Moves DEF QuietFail
<1>2. QED BY <1>0, <1>1, QuietSeen DEF QuietFail, Idle

LEMMA ApiSeen ==
  ASSUME IInv, SeenInv, NEW p \in Apis, ApiStep(p)
  PROVE  SeenInv'
<1>0. /\ p \in Runs /\ p \notin Senders /\ p \notin Reapers
      /\ run[p].pc \in Named => run[p].id \in Deliveries
  BY RunIsFit, RunsAssumption DEF Runs, RunFits
<1>1. CASE ApiReset(p)
  <2>1. Write(p, run[p].id, NewRow, With(p, NewRow, "resetsend"))
    BY <1>1 DEF ApiReset
  <2>2. OnlyMoves(p)
    BY <1>0, <2>1, WriteMoves
  <2>3. \A d \in Deliveries : row'[d].status = "dead" => row[d].status = "dead"
    BY <2>1, LiveWriteSeen DEF NewRow
  <2>4. QED BY <1>0, <1>1, <2>2, <2>3, QuietSeen DEF ApiReset
<1>2. CASE ApiNotDead(p) \/ ApiSend(p)
  <2>1. OnlyMoves(p)
    BY <1>0, <1>2, Moves DEF ApiNotDead, ApiSend
  <2>2. queue' = queue \/ \E d \in Deliveries : Enqueue(d)
    BY <1>0, <1>2 DEF ApiNotDead, ApiSend, Named, PC
  <2>3. row' = row /\ dlq' = dlq
    BY <1>2 DEF ApiNotDead, ApiSend
  <2>4. QED BY <1>0, <2>1, <2>2, <2>3, QuietSeen
<1>3. QED BY <1>1, <1>2 DEF ApiStep

LEMMA SeenInit == Init => SeenInv
BY DEF Init, SeenInv, DeadIsSeen, CopiedFirst, NoRow, Idle, Runs

LEMMA SeenNext ==
  ASSUME Scripts = {}, IInv, SeenInv, [Next]_vars
  PROVE  SeenInv'
<1>1. CASE UNCHANGED vars
  BY <1>1 DEF vars, SeenInv, DeadIsSeen, CopiedFirst
<1>2. CASE Next
  <2>1. ASSUME NEW p \in Senders,
               SenderStep(p) \/ SenderFail(p) \/ \E d \in Deliveries : SenderReceive(p, d)
        PROVE  SeenInv'
    BY <2>1, SenderSeen, SenderFailSeen, SenderReceiveSeen
  <2>2. ASSUME NEW p \in Reapers,
               ReaperStep(p) \/ QuietFail(p) \/ \E d \in Deliveries : ReaperList(p, d)
        PROVE  SeenInv'
    BY <2>2, ReaperSeen, QuietFailSeen, ReadSeen
  <2>3. ASSUME NEW p \in Apis,
               ApiStep(p) \/ QuietFail(p) \/ \E d \in Deliveries : RedriveRead(p, d)
        PROVE  SeenInv'
    BY <2>3, ApiSeen, QuietFailSeen, ReadSeen
  <2>4. QED BY <1>2, <2>1, <2>2, <2>3, DispatcherSeen, BackstopSeen DEF Next
<1>3. QED BY <1>1, <1>2

\* While no redrive script drains the dead-letter queue, a dead delivery always has a
\* copy there, a run about to send one, or a message whose receiver will.
THEOREM DeadAreSeen ==
  ASSUME Scripts = {} PROVE Spec => []DeadIsSeen
<1>1. IInv /\ SeenInv /\ [Next]_vars => SeenInv'
  BY SeenNext
<1>2. SeenInv => DeadIsSeen
  BY DEF SeenInv
<1>3. QED
  BY <1>1, <1>2, SeenInit, IInvAlways, PTL DEF Spec

(***************************************************************************)
(* No record is done with too early                                        *)
(***************************************************************************)
\* The deliveries of record r up to, and not including, its n-th have a row.
CreatedBelow(r, n) == \A i \in 1..Len(Plan[r]) : i < n => row[Plan[r][i]].status # "none"

RecordOK(r) ==
  /\ run[r].pc # "idle" => stream[r].state = "dispatching"
  /\ run[r].pc \in {"idle", "create", "enqueue", "mark"}
  /\ run[r].pc \in {"enqueue", "mark"} =>
       stream[r].at <= Len(Plan[r]) /\ run[r].id = Planned(r)
  /\ stream[r].state = "dispatching" => CreatedBelow(r, stream[r].at)
  /\ stream[r].state = "done" => CreatedBelow(r, Len(Plan[r]) + 1)

RecInv == \A r \in Records : RecordOK(r)

LEMMA RowsAreKept == ASSUME IInv, [Next]_vars PROVE RowsStay
<1>1. [Promise!Next]_(Promise!vars)
  BY OutboxStep
<1>2. ASSUME NEW d \in Deliveries PROVE OutboxState(row[d].status) = "none" <=> row[d].status = "none"
  BY DEF OutboxState, Live
<1>3. ASSUME NEW d \in Deliveries PROVE OutboxState(row'[d].status) = "none" <=> row'[d].status = "none"
  BY DEF OutboxState, Live
<1>4. ASSUME NEW d \in Deliveries, OutboxState(row[d].status) # "none"
      PROVE  OutboxState(row'[d].status) # "none"
  BY <1>1, <1>4
  DEF Promise!Next, Promise!vars, Promise!Create, Promise!Deliver, Promise!Die,
      Promise!Redrive, Promise!Accept, Promise!Move
<1>5. QED BY <1>2, <1>3, <1>4 DEF RowsStay

LEMMA SenderMoves ==
  ASSUME IInv, NEW p \in Senders,
         SenderStep(p) \/ SenderFail(p) \/ \E d \in Deliveries : SenderReceive(p, d)
  PROVE  OnlyMoves(p) /\ UNCHANGED stream
<1>0. p \in Runs
  BY DEF Runs
<1>1. CASE \E o \in Outcomes : SenderSend(p, o)
  BY <1>0, <1>1 DEF SenderSend, OnlyMoves, IInv, RunsFit
<1>2. CASE SenderClaim(p) \/ SenderMarkDelivered(p) \/ SenderMarkDead(p) \/ SenderScheduleRetry(p)
  <2>1. \E new, mine : Write(p, run[p].id, new, mine)
    BY <1>2 DEF SenderClaim, SenderMarkDelivered, SenderMarkDead, SenderScheduleRetry, Save
  <2>2. QED
    BY <1>0, <1>2, <2>1, WriteMoves
    DEF SenderClaim, SenderMarkDelivered, SenderMarkDead, SenderScheduleRetry
<1>3. QED
  BY <1>0, <1>1, <1>2, Moves
  DEF SenderStep, SenderRecopy, SenderCopyDead, SenderRequeue, SenderConflict, SenderDone,
      SenderFail, SenderReceive

LEMMA OtherMoves ==
  ASSUME IInv, NEW p \in Reapers \cup Apis \cup Scripts,
         \/ ReaperStep(p) \/ ApiStep(p) \/ ScriptStep(p) \/ QuietFail(p)
         \/ \E d \in Deliveries : ReaperList(p, d) \/ RedriveRead(p, d)
  PROVE  OnlyMoves(p) /\ UNCHANGED stream
<1>0. p \in Runs
  BY DEF Runs
<1>1. CASE ReaperMarkDead(p) \/ ReaperMarkQueued(p) \/ ApiReset(p) \/ ScriptReset(p)
  <2>1. \E new, mine : Write(p, run[p].id, new, mine)
    BY <1>1 DEF ReaperMarkDead, ReaperMarkQueued, ApiReset, ScriptReset, Save
  <2>2. QED
    BY <1>0, <1>1, <2>1, WriteMoves DEF ReaperMarkDead, ReaperMarkQueued, ApiReset, ScriptReset
<1>2. QED
  BY <1>0, <1>1, Moves
  DEF ReaperStep, ReaperCopyDead, ReaperResend, ReaperConflict, ReaperList, QuietFail,
      ApiStep, ApiNotDead, ApiSend, RedriveRead,
      ScriptStep, ScriptConflict, ScriptSend, ScriptDrain

LEMMA DispatcherMoves ==
  ASSUME IInv, NEW r \in Records, DispatcherStep(r) \/ DispatcherFail(r)
  PROVE  OnlyMoves(r) /\ \A q \in Records \ {r} : stream'[q] = stream[q]
<1>0. /\ r \in Runs
      /\ stream \in [Records -> [state : StreamState, at : Nat \ {0}, tries : Nat]]
  BY DEF Runs, IInv, DataOK
<1>1. OnlyMoves(r)
  BY <1>0, Moves, WriteMoves
  DEF DispatcherStep, DispatcherStart, DispatcherCreate, DispatcherSkip, DispatcherEnqueue,
      DispatcherMark, DispatcherConflict, DispatcherDone, DispatcherFail, Report, Save, OnlyMoves
<1>2. QED
  BY <1>0, <1>1
  DEF DispatcherStep, DispatcherStart, DispatcherCreate, DispatcherSkip, DispatcherEnqueue,
      DispatcherMark, DispatcherConflict, DispatcherDone, DispatcherFail, Report, Advance

\* A record that the step does not move.
LEMMA StillOK ==
  ASSUME RecInv, RowsStay, NEW r \in Records,
         run'[r].pc = run[r].pc, run'[r].id = run[r].id, stream'[r] = stream[r]
  PROVE  RecordOK(r)'
BY PlanAssumption, SMTT(60) DEF RecInv, RecordOK, RowsStay, CreatedBelow, Planned

\* The loop's index moves past a delivery that has a row.
LEMMA PastCreated ==
  ASSUME RowsStay, NEW r \in Records, NEW n \in Nat \ {0}, CreatedBelow(r, n),
         n <= Len(Plan[r]) => row[Plan[r][n]].status # "none"
  PROVE  \A i \in 1..Len(Plan[r]) : i < n + 1 => row'[Plan[r][i]].status # "none"
<1> SUFFICES ASSUME NEW i \in 1..Len(Plan[r]), i < n + 1
             PROVE  row'[Plan[r][i]].status # "none"
  OBVIOUS
<1>1. Plan[r] \in Seq(Deliveries)
  BY PlanAssumption
<1>2. i < n \/ i = n
  OBVIOUS
<1>3. row[Plan[r][i]].status # "none"
  BY <1>1, <1>2 DEF CreatedBelow
<1>4. Plan[r][i] \in Deliveries
  BY <1>1
<1>5. QED BY <1>3, <1>4 DEF RowsStay

\* The dispatcher's own record: its index moves past a delivery only when that
\* delivery has a row, and the record is done with only at the end of the plan.
LEMMA OwnRecord ==
  ASSUME IInv, IInv', RecInv, RowsStay, NEW r \in Records,
         DispatcherStep(r) \/ DispatcherFail(r)
  PROVE  RecordOK(r)'
<1> DEFINE n == stream[r].at
           N == Len(Plan[r])
<1>0. /\ r \in Runs
      /\ stream \in [Records -> [state : StreamState, at : Nat \ {0}, tries : Nat]]
      /\ stream[r] \in [state : StreamState, at : Nat \ {0}, tries : Nat]
      /\ n \in Nat \ {0} /\ N \in Nat
      /\ \A i \in 1..N : Plan[r][i] \in Deliveries
      /\ run[r].id \in Deliveries => row[run[r].id].status # "none"
      /\ run[r].pc \in Named => run[r].id \in Deliveries
      /\ RecordOK(r)
  BY PlanAssumption, RunIsFit DEF Runs, IInv, DataOK, RecInv, RunFits
<1>2. CASE DispatcherStart(r)
  <2>1. run'[r].pc = "create"
    BY <1>0, <1>2, Moves DEF DispatcherStart
  <2>2. stream'[r].state = "dispatching" /\ stream'[r].at = 1
    BY <1>0, <1>2 DEF DispatcherStart
  <2>3. QED BY <2>1, <2>2 DEF RecordOK, CreatedBelow
<1>3. CASE DispatcherCreate(r)
  <2> DEFINE mine == [Idle EXCEPT !.pc = "enqueue", !.id = Planned(r),
                                  !.view = NewRow, !.fresh = TRUE]
  <2>1. mine.pc = "enqueue" /\ mine.id = Planned(r)
    BY DEF Idle
  <2>2. Write(r, Planned(r), NewRow, mine) /\ run[r].pc = "create" /\ n <= N /\ stream' = stream
    BY <1>3 DEF DispatcherCreate, More
  <2> HIDE DEF mine
  <2>3. run'[r] = mine
    BY <1>0, <2>2, WriteMoves
  <2>4. QED
    BY <1>0, <2>1, <2>2, <2>3 DEF RecordOK, CreatedBelow, RowsStay, Planned
<1>4. CASE DispatcherSkip(r)
  <2>1. /\ run[r].pc = "create" /\ n <= N /\ run' = run
        /\ row[Plan[r][n]].status # "none"
        /\ stream'[r].at = n + 1 /\ stream'[r].state = stream[r].state
    BY <1>0, <1>4 DEF DispatcherSkip, More, Planned, Advance
  <2>2. CreatedBelow(r, n)
    BY <1>0, <2>1 DEF RecordOK
  <2>3. \A i \in 1..N : i < n + 1 => row'[Plan[r][i]].status # "none"
    BY <1>0, <2>1, <2>2, PastCreated
  <2>4. QED BY <1>0, <2>1, <2>3 DEF RecordOK, CreatedBelow
<1>5. CASE DispatcherEnqueue(r)
  <2>1. run[r].pc = "enqueue" /\ run'[r].pc = "mark" /\ run'[r].id = run[r].id /\ stream' = stream
    BY <1>0, <1>5, Moves DEF DispatcherEnqueue
  <2>2. QED BY <1>0, <2>1 DEF RecordOK, CreatedBelow, RowsStay, Planned
<1>6. CASE DispatcherMark(r)
  <2> DEFINE mine == [Idle EXCEPT !.pc = "create"]
  <2>1. Write(r, run[r].id, MarkQueued(run[r].view), mine)
    BY <1>6 DEF DispatcherMark, Save
  <2>2. run'[r].pc = "create"
    BY <1>0, <2>1, WriteMoves DEF Idle
  <2>3. /\ run[r].pc = "mark" /\ stream'[r].at = n + 1 /\ stream'[r].state = stream[r].state
    BY <1>0, <1>6 DEF DispatcherMark, Advance
  <2>4. n <= N /\ run[r].id = Plan[r][n] /\ stream[r].state = "dispatching" /\ CreatedBelow(r, n)
    BY <1>0, <2>3 DEF RecordOK, Planned
  <2>5. row[Plan[r][n]].status # "none"
    BY <1>0, <2>4
  <2>6. \A i \in 1..N : i < n + 1 => row'[Plan[r][i]].status # "none"
    BY <1>0, <2>4, <2>5, PastCreated
  <2>7. QED BY <2>2, <2>3, <2>4, <2>6 DEF RecordOK, CreatedBelow
<1>7. CASE DispatcherDone(r)
  <2>1. run[r].pc = "create" /\ n > N /\ run'[r].pc = "idle" /\ stream'[r].state = "done"
    BY <1>0, <1>7, Moves DEF DispatcherDone, Idle
  <2>2. CreatedBelow(r, n)
    BY <1>0, <2>1 DEF RecordOK
  <2>3. \A i \in 1..N : i < n + 1 => row'[Plan[r][i]].status # "none"
    BY <1>0, <2>1, <2>2, PastCreated
  <2>4. \A i \in 1..N : row'[Plan[r][i]].status # "none"
    BY <1>0, <2>1, <2>3
  <2>5. QED BY <2>1, <2>4 DEF RecordOK, CreatedBelow
<1>8. CASE DispatcherConflict(r) \/ DispatcherFail(r)
  <2>1. run'[r].pc = "idle"
    BY <1>0, <1>8, Moves DEF DispatcherConflict, DispatcherFail, Report, Idle
  <2>2. stream'[r].state \in {"waiting", "discarded"}
    BY <1>0, <1>8 DEF DispatcherConflict, DispatcherFail, Report
  <2>3. QED BY <2>1, <2>2 DEF RecordOK
<1>9. QED BY <1>2, <1>3, <1>4, <1>5, <1>6, <1>7, <1>8 DEF DispatcherStep

LEMMA RecInit == Init => RecInv
BY DEF Init, RecInv, RecordOK, Runs, Idle

LEMMA RecNext ==
  ASSUME IInv, IInv', RecInv, [Next]_vars
  PROVE  RecInv'
<1>0. RowsStay
  BY RowsAreKept
<1> SUFFICES ASSUME NEW r \in Records PROVE RecordOK(r)'
  BY DEF RecInv
<1>1. CASE DispatcherStep(r) \/ DispatcherFail(r)
  BY <1>0, <1>1, OwnRecord
<1>2. ASSUME NEW p \in Runs \ {r}, OnlyMoves(p), stream'[r] = stream[r]
      PROVE  RecordOK(r)'
  <2>1. run'[r].pc = run[r].pc /\ run'[r].id = run[r].id
    BY <1>2 DEF OnlyMoves, Runs
  <2>2. QED BY <1>0, <1>2, <2>1, StillOK
<1>3. ASSUME NEW q \in Records \ {r}, DispatcherStep(q) \/ DispatcherFail(q)
      PROVE  RecordOK(r)'
  <2>1. OnlyMoves(q) /\ stream'[r] = stream[r]
    BY <1>3, DispatcherMoves
  <2>2. QED BY <1>2, <2>1 DEF Runs
<1>4. ASSUME NEW p \in Senders,
             SenderStep(p) \/ SenderFail(p) \/ \E d \in Deliveries : SenderReceive(p, d)
      PROVE  RecordOK(r)'
  <2>1. OnlyMoves(p) /\ stream' = stream
    BY <1>4, SenderMoves
  <2>2. QED BY <1>2, <2>1, RunsAssumption DEF Runs
<1>5. ASSUME NEW p \in Reapers \cup Apis \cup Scripts,
             \/ ReaperStep(p) \/ ApiStep(p) \/ ScriptStep(p) \/ QuietFail(p)
             \/ \E d \in Deliveries : ReaperList(p, d) \/ RedriveRead(p, d)
      PROVE  RecordOK(r)'
  <2>1. OnlyMoves(p) /\ stream' = stream
    BY <1>5, OtherMoves
  <2>2. QED BY <1>2, <2>1, RunsAssumption DEF Runs
<1>6. CASE UNCHANGED vars \/ \E d \in Deliveries : Backstop(d)
  <2>1. run' = run /\ stream' = stream
    BY <1>6 DEF vars, Backstop
  <2>2. QED BY <1>0, <2>1, StillOK
<1>7. QED BY <1>1, <1>3, <1>4, <1>5, <1>6 DEF Next

\* A stream record is done with only when each delivery that it plans was created,
\* however often the record comes, wherever its earlier runs ended, and whatever
\* senders, sweeps and redrives do to those deliveries meanwhile.
THEOREM NoRecordIsLost == Spec => []RecordsComplete
<1>1. IInv /\ IInv' /\ RecInv /\ [Next]_vars => RecInv'
  BY RecNext
<1>2. RecInv => RecordsComplete
  BY PlanAssumption DEF RecInv, RecordOK, CreatedBelow, RecordsComplete
<1>3. QED
  BY <1>1, <1>2, RecInit, IInvAlways, PTL DEF Spec
=============================================================================
