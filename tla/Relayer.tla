------------------------------ MODULE Relayer ------------------------------
(***************************************************************************)
(* The relayer's core: one signer address on one chain.  A client submits  *)
(* payloads; the signer Lambda gives each a nonce, signs it and sends it;  *)
(* sweeper Lambdas rebroadcast, replace, and settle what the signer sent.  *)
(* All of them work on rows of one DynamoDB table, each on the snapshot it *)
(* read, and every write of a row is conditional on the row's version.     *)
(*                                                                         *)
(* A run of a Lambda over one transaction is a process.  It is modelled    *)
(* one store write, one send and one chain lookup at a time, so that the   *)
(* other processes and the chain act between any two of them, and it may   *)
(* end at any of them (a crash, a timeout, an RPC error, a conflict).      *)
(***************************************************************************)
EXTENDS Integers, Sequences, FiniteSets

CONSTANTS
  Payloads,       \* transactions that clients submit
  Fillers,        \* ids of the 0-value self transfers that fill a failed one's nonce
  NoTx,           \* the absent transaction id
  Signer,         \* the signer Lambda: its FIFO group admits one run at a time
  Sweepers,       \* sweeper runs that may overlap, or read an index that lags
  DependsOn,      \* [Payloads -> Payloads \cup {NoTx}], a payload's dependsOn
  Reverts,        \* payloads whose execution reverts
  Confirmations,  \* depth, counting its own block, at which mined is confirmed
  AgeBlocks,      \* the blocks that nonceUsedMinAgeMs stands for
  MaxResets,      \* MAX_NONCE_RESETS
  LostAnswers,    \* may a run end between a node's answer and the write of it?
  TriesTimeOut,   \* may a try of a send time out although the node took it?
  MaxAttempts,    \* bound: signatures per transaction (the fee cap, MAX_ATTEMPTS)
  MaxHead,        \* bound: blocks
  MaxReorgs,      \* bound: reorgs
  MaxForeign      \* bound: nonces at which another sender of this key sends

Ids == Payloads \cup Fillers
Procs == {Signer} \cup Sweepers

ASSUME IdsAssumption ==
  /\ Payloads \cap Fillers = {}
  /\ NoTx \notin Ids
  /\ DependsOn \in [Payloads -> Payloads \cup {NoTx}]
  /\ Reverts \subseteq Payloads

ASSUME ProcsAssumption == Signer \notin Sweepers

ASSUME BoundsAssumption ==
  /\ Confirmations \in Nat \ {0}
  /\ AgeBlocks \in Nat
  /\ MaxResets \in Nat
  /\ LostAnswers \in BOOLEAN
  /\ TriesTimeOut \in BOOLEAN
  /\ MaxAttempts \in Nat \ {0}
  /\ MaxHead \in Nat
  /\ MaxReorgs \in Nat
  /\ MaxForeign \in Nat

NoNonce == -1

Status == {"none", "queued", "submitted", "mined", "confirmed", "failed"}
Settled == {"confirmed", "failed"}
Pending == {"queued", "submitted", "mined"}

\* What a node may say of a raw transaction.  "taken" is accepted or already known.
Answers == {"taken", "unknown", "underpriced", "no-funds", "too-low", "rejected"}

\* A signature's hash is the transaction, the nonce and which attempt it is.
Signature == [id : Ids, nonce : Nat, n : Nat]
Foreign(nonce) == [id |-> NoTx, nonce |-> nonce, n |-> 0]

Attempt == [accepted : BOOLEAN, refused : BOOLEAN]
NewAttempt == [accepted |-> FALSE, refused |-> FALSE]

Row == [status : Status, nonce : Int, attempts : Seq(Attempt),
        mined : [n : Nat, block : Nat],        \* n = 0: no mined record
        usedAt : [block : Nat, time : Nat],    \* block = 0: no stamp
        fills : Ids \cup {NoTx}]

NoMined == [n |-> 0, block |-> 0]
NoStamp == [block |-> 0, time |-> 0]
NoRow == [status |-> "none", nonce |-> NoNonce, attempts |-> << >>,
          mined |-> NoMined, usedAt |-> NoStamp, fills |-> NoTx]

PC == {"idle", "dead-end", "nonce", "sign", "send", "answered",
       "view", "active", "resumed", "bump", "resend", "mark", "confirm", "fail"}

\* One run's local state.  `fresh` says whether the version in `view` is still
\* the stored one, which is all that a version number is ever asked.
Proc == [pc : PC, id : Ids \cup {NoTx}, view : Row, fresh : BOOLEAN,
         n : Nat,                                    \* the attempt in hand
         how : {"none", "first", "replace", "rebroadcast"},
         answer : Answers \cup {"none"},
         head : Nat,                                 \* the head the sweep read
         block : Nat,                                \* the receipt's block
         taken : BOOLEAN,                            \* tx.nonce = takenNonce
         resets : Nat]

Idle == [pc |-> "idle", id |-> NoTx, view |-> NoRow, fresh |-> FALSE, n |-> 0,
         how |-> "none", answer |-> "none", head |-> 0, block |-> 0,
         taken |-> FALSE, resets |-> 0]

VARIABLES
  tx,          \* the table: [Ids -> Row]
  nextNonce,   \* the nonce counter item
  paused,      \* whether the signer's pause item exists
  queue,       \* transactions with a message in the signer's FIFO queue
  proc,        \* [Procs -> Proc]
  reconciled,  \* whether the signer's container has raised the counter
  head,        \* the chain's height
  used,        \* what used each nonce: a sequence of [sig, block]
  reached,     \* signatures some node took; any of them may be mined
  usedMax,     \* the most nonces that were ever used
  foreign,     \* nonces at which another sender of this key has sent; what it
               \* sent may be in a pool, be mined, or have been dropped
  reorgs       \* bounded counter

storeVars == <<tx, nextNonce, paused, queue>>
chainVars == <<head, used, reached, usedMax, reorgs, foreign>>
vars == <<tx, nextNonce, paused, queue, proc, reconciled,
          head, used, reached, usedMax, reorgs, foreign>>

Init ==
  /\ tx = [t \in Ids |-> NoRow]
  /\ nextNonce = 0
  /\ paused = FALSE
  /\ queue = {}
  /\ proc = [p \in Procs |-> Idle]
  /\ reconciled = FALSE
  /\ head = 1
  /\ used = << >>
  /\ reached = {}
  /\ usedMax = 0
  /\ reorgs = 0
  /\ foreign = {}

(***************************************************************************)
(* Rows                                                                    *)
(***************************************************************************)
Sig(t, row, i) == [id |-> t, nonce |-> row.nonce, n |-> i]

MarkAccepted(row, i) == [row EXCEPT !.attempts[i].accepted = TRUE]
MarkRefused(row, i) == [row EXCEPT !.attempts[i].refused = TRUE]
WithStatus(row, s) == [row EXCEPT !.status = s]

\* The newest signature no node refused; 0 when there is none.
LiveAttempt(row) ==
  LET live == {i \in DOMAIN row.attempts : ~row.attempts[i].refused}
  IN  IF live = {} THEN 0 ELSE CHOOSE i \in live : \A j \in live : j <= i

\* A node took one of the signatures, or another one has no answer yet.
MayBeMined(row, n) ==
  \E i \in DOMAIN row.attempts :
     \/ row.attempts[i].accepted
     \/ ~row.attempts[i].refused /\ i # n

\* Mutant: a dependency counts as soon as it is mined.
DependencyStateAtMined(t) ==
  IF tx[t].status \in {"mined", "confirmed"} THEN "ready"
  ELSE IF tx[t].status \in {"failed", "none"} THEN "unsuccessful"
  ELSE "waiting"

DependencyState(t) ==
  LET d == tx[t]
  IN  IF d.status = "confirmed" THEN IF t \in Reverts THEN "unsuccessful" ELSE "ready"
      ELSE IF d.status \in {"failed", "none"} THEN "unsuccessful"
      ELSE "waiting"

HasDependency(t) == t \in Payloads /\ DependsOn[t] # NoTx

(***************************************************************************)
(* The chain as its nodes show it                                          *)
(***************************************************************************)
IsMined(sig) == sig.nonce \in 0 .. Len(used) - 1 /\ used[sig.nonce + 1].sig = sig

\* The block of a signature's receipt, 0 for no receipt: a lagging node has
\* none for a signature that is mined, no node has one for another.
Receipts(sig) == {0} \cup (IF IsMined(sig) THEN {used[sig.nonce + 1].block} ELSE {})

\* A transaction count: what the chain has, or what it had.
NonceReads == 0 .. Len(used)

\* One with pending transactions: on from the mined ones, those without a gap that
\* the node has in its pool, ours and another sender's.
Pooled == {sig.nonce : sig \in reached} \cup foreign
PendingReads ==
  {n \in NonceReads \cup {k + 1 : k \in Pooled} : Len(used) .. n - 1 \subseteq Pooled}

(***************************************************************************)
(* Versioned writes                                                        *)
(***************************************************************************)
\* Mutant: the write is not conditional on the version.
SaveTxUnversioned(p, row, next) ==
  /\ tx' = [tx EXCEPT ![proc[p].id] = row]
  /\ proc' = [proc EXCEPT ![p] = next]

\* p writes `row` over its transaction and goes on as `next`.  Every other run
\* that holds the transaction has a version that is no longer the stored one.
SaveTx(p, row, next) ==
  /\ proc[p].fresh
  /\ tx' = [tx EXCEPT ![proc[p].id] = row]
  /\ proc' = [q \in Procs |->
                IF q = p THEN next
                ELSE IF proc[q].id = proc[p].id THEN [proc[q] EXCEPT !.fresh = FALSE]
                ELSE proc[q]]

\* The run after a write: its snapshot is what it wrote.
Holding(p, row, pc) == [proc[p] EXCEPT !.view = row, !.pc = pc]

Goto(p, pc) == proc' = [proc EXCEPT ![p].pc = pc]
Finish(p) == proc' = [proc EXCEPT ![p] = Idle]

\* A finished signer run deletes its message; a sweeper run has none.
Delete(p) == IF p = Signer THEN queue \ {proc[p].id} ELSE queue

\* Without lost answers no other run may make the signer's version stale.
SignerUndisturbed(t) == LostAnswers \/ proc[Signer].id # t

(***************************************************************************)
(* Submission                                                              *)
(***************************************************************************)
\* submitTx: the row is stored, then its message is sent, or lost.
Submit(t) ==
  /\ t \in Payloads
  /\ tx[t].status = "none"
  /\ HasDependency(t) => /\ tx[DependsOn[t]].status # "none"
                         /\ DependencyState(DependsOn[t]) # "unsuccessful"
  /\ tx' = [tx EXCEPT ![t] = WithStatus(NoRow, "queued")]
  /\ queue' \in {queue, queue \cup {t}}
  /\ UNCHANGED <<nextNonce, paused, proc, reconciled, chainVars>>

(***************************************************************************)
(* The signer                                                              *)
(***************************************************************************)
Waiting(t) ==
  HasDependency(t) /\ tx[t].nonce = NoNonce /\ DependencyState(DependsOn[t]) = "waiting"

\* The early returns of processTx: not queued, paused, waiting.
SignerSkip(t) ==
  /\ proc[Signer].pc = "idle"
  /\ t \in queue
  /\ tx[t].status # "queued" \/ paused \/ Waiting(t)
  /\ queue' = queue \ {t}
  /\ UNCHANGED <<tx, nextNonce, paused, proc, reconciled, chainVars>>

\* The reads of processTx.  A dependent transaction whose dependency did not
\* succeed, or whose estimate now reverts, is to be failed before it takes a nonce.
SignerTake(t) ==
  LET row == tx[t]
      dependent == HasDependency(t) /\ row.nonce = NoNonce
      onward == IF row.nonce = NoNonce THEN "nonce"
                ELSE IF row.attempts = << >> THEN "sign" ELSE "send"
  IN  /\ proc[Signer].pc = "idle"
      /\ t \in queue
      /\ row.status = "queued" /\ ~paused /\ ~Waiting(t)
      /\ \E pc \in {onward, "dead-end"} :
           /\ pc = "dead-end" => dependent
           /\ dependent /\ DependencyState(DependsOn[t]) = "unsuccessful" => pc = "dead-end"
           /\ proc' = [proc EXCEPT ![Signer] =
                         [Idle EXCEPT !.pc = pc, !.id = t, !.view = row, !.fresh = TRUE,
                                      !.n = Len(row.attempts), !.how = "first"]]
      /\ reconciled' \in {reconciled, FALSE}   \* this container, or a cold one
      /\ UNCHANGED <<tx, nextNonce, paused, queue, chainVars>>

\* No nonce was taken, so no filler is needed.
FailDependent ==
  LET p == Signer IN
  /\ proc[p].pc = "dead-end"
  /\ SaveTx(p, WithStatus(proc[p].view, "failed"), Idle)
  /\ queue' = Delete(p)
  /\ UNCHANGED <<nextNonce, paused, reconciled, chainVars>>

\* Mutant: the counter is set to the node's count even when that is lower.
SetNonce ==
  /\ proc[Signer].pc = "nonce"
  /\ ~reconciled
  /\ nextNonce' \in PendingReads
  /\ reconciled' = TRUE
  /\ UNCHANGED <<tx, paused, queue, proc, chainVars>>

\* raiseNonce, from the node's pending count: past what another sender used, and
\* past what it has pending, which may yet be dropped.
RaiseNonce ==
  /\ proc[Signer].pc = "nonce"
  /\ ~reconciled
  /\ \E n \in PendingReads : nextNonce' = IF n > nextNonce THEN n ELSE nextNonce
  /\ reconciled' = TRUE
  /\ UNCHANGED <<tx, paused, queue, proc, chainVars>>

\* The counter and the row change in one store transaction.
AssignNonce ==
  LET p == Signer
      row == [proc[p].view EXCEPT !.nonce = nextNonce]
  IN  /\ proc[p].pc = "nonce"
      /\ reconciled
      /\ SaveTx(p, row, [Holding(p, row, "sign") EXCEPT !.taken = TRUE])
      /\ nextNonce' = nextNonce + 1
      /\ UNCHANGED <<paused, queue, reconciled, chainVars>>

\* The signature is saved before it is sent.
SignAttempt ==
  LET p == Signer
      row == [proc[p].view EXCEPT !.attempts = <<NewAttempt>>]
  IN  /\ proc[p].pc = "sign"
      /\ SaveTx(p, row, [Holding(p, row, "send") EXCEPT !.n = 1])
      /\ UNCHANGED <<nextNonce, paused, queue, reconciled, chainVars>>

(***************************************************************************)
(* Sending, by the signer and by sweepers                                  *)
(***************************************************************************)
\* chain.send: the answer of the first URL that gives a decisive one.  "unknown"
\* is what is left when none does, and a node may have taken the bytes.
Send(p) ==
  LET sig == Sig(proc[p].id, proc[p].view, proc[p].n) IN
  /\ proc[p].pc = "send"
  /\ \E a \in Answers :
       /\ a = "too-low" => sig.nonce < Len(used)
       /\ reached' \in {reached, reached \cup {sig}}
       /\ a = "taken" => sig \in reached'
       /\ a \notin {"taken", "unknown"} => reached' = reached
       /\ proc' = [proc EXCEPT ![p].pc = "answered", ![p].answer = a]
  /\ UNCHANGED <<storeVars, reconciled, head, used, usedMax, reorgs, foreign>>

\* A try that times out is made again, on that URL and then on the others, though
\* the node may have taken the bytes.
SendTimedOut(p) ==
  /\ TriesTimeOut
  /\ proc[p].pc = "send"
  /\ reached' = reached \cup {Sig(proc[p].id, proc[p].view, proc[p].n)}
  /\ UNCHANGED <<storeVars, proc, reconciled, head, used, usedMax, reorgs, foreign>>

Answered(p, how, answers) ==
  /\ proc[p].pc = "answered"
  /\ proc[p].how \in how
  /\ proc[p].answer \in answers

\* "unknown" counts as taken: it may still have reached a mempool.
SignerSubmitted ==
  LET p == Signer
      row == WithStatus(MarkAccepted(proc[p].view, proc[p].n), "submitted")
  IN  /\ Answered(p, {"first"}, {"taken", "unknown"})
      /\ SaveTx(p, row, Idle)
      /\ queue' = Delete(p)
      /\ UNCHANGED <<nextNonce, paused, reconciled, chainVars>>

SignerUnderpriced ==
  LET p == Signer
      row == WithStatus(MarkRefused(proc[p].view, proc[p].n), "submitted")
  IN  /\ Answered(p, {"first"}, {"underpriced"})
      /\ SaveTx(p, row, Idle)
      /\ queue' = Delete(p)
      /\ UNCHANGED <<nextNonce, paused, reconciled, chainVars>>

\* A pause that is there already is written over: its amount may be another.
PauseForFunds == paused' = TRUE

SignerNoFunds ==
  /\ Answered(Signer, {"first"}, {"no-funds"})
  /\ PauseForFunds
  /\ Finish(Signer)
  /\ queue' = Delete(Signer)
  /\ UNCHANGED <<tx, nextNonce, reconciled, chainVars>>

\* Nonce too low: one of the signatures has a receipt, or this run did not take
\* the nonce itself, so the sweeper settles it.
SignerTooLowSubmitted ==
  LET p == Signer
      view == proc[p].view
  IN  /\ Answered(p, {"first"}, {"too-low"})
      /\ \/ ~proc[p].taken
         \/ \E i \in DOMAIN view.attempts : IsMined(Sig(proc[p].id, view, i))
      /\ SaveTx(p, WithStatus(view, "submitted"), Idle)
      /\ queue' = Delete(p)
      /\ UNCHANGED <<nextNonce, paused, reconciled, chainVars>>

\* Mutant: the resets are counted down.
SignerDropCountingDown ==
  LET p == Signer
      row == [proc[p].view EXCEPT !.nonce = NoNonce, !.attempts = << >>]
  IN  /\ Answered(p, {"first"}, {"too-low"})
      /\ proc[p].taken
      /\ proc[p].resets < MaxResets
      /\ SaveTx(p, row, [Holding(p, row, "nonce") EXCEPT
                           !.n = 0, !.answer = "none", !.taken = FALSE, !.resets = @ - 1])
      /\ reconciled' = FALSE
      /\ UNCHANGED <<nextNonce, paused, queue, chainVars>>

\* Nonce too low on a nonce this run took: give it up for a fresh one.
SignerDropNonce ==
  LET p == Signer
      row == [proc[p].view EXCEPT !.nonce = NoNonce, !.attempts = << >>]
  IN  /\ Answered(p, {"first"}, {"too-low"})
      /\ proc[p].taken
      /\ proc[p].resets < MaxResets
      /\ SaveTx(p, row, [Holding(p, row, "nonce") EXCEPT
                           !.n = 0, !.answer = "none", !.taken = FALSE, !.resets = @ + 1])
      /\ reconciled' = FALSE
      /\ UNCHANGED <<nextNonce, paused, queue, chainVars>>

\* refuseAttempt when a signature may be mined: the attempt is only marked.
RefuseMarked(p) ==
  LET row == WithStatus(MarkRefused(proc[p].view, proc[p].n), "submitted") IN
  /\ Answered(p, {"first", "replace", "rebroadcast"}, {"rejected"})
  /\ MayBeMined(proc[p].view, proc[p].n)
  /\ SaveTx(p, row, Idle)
  /\ queue' = Delete(p)
  /\ UNCHANGED <<nextNonce, paused, reconciled, chainVars>>

\* failRefused for a filler: the nonce stays open.
RefuseFiller(p) ==
  LET row == WithStatus(MarkRefused(proc[p].view, proc[p].n), "failed") IN
  /\ Answered(p, {"first", "replace", "rebroadcast"}, {"rejected"})
  /\ ~MayBeMined(proc[p].view, proc[p].n)
  /\ proc[p].id \in Fillers
  /\ SaveTx(p, row, Idle)
  /\ queue' = Delete(p)
  /\ UNCHANGED <<nextNonce, paused, reconciled, chainVars>>

\* Mutant: a refused transaction fails and nothing takes its nonce.
FailWithoutFiller(p) ==
  /\ Answered(p, {"first", "replace", "rebroadcast"}, {"rejected"})
  /\ ~MayBeMined(proc[p].view, proc[p].n)
  /\ proc[p].id \in Payloads
  /\ SaveTx(p, WithStatus(MarkRefused(proc[p].view, proc[p].n), "failed"), Idle)
  /\ queue' = Delete(p)
  /\ UNCHANGED <<nextNonce, paused, reconciled, chainVars>>

\* store.failWithFiller: the failed row, on its version, and the filler's, on the
\* condition that there is none yet, in one transaction.
SaveWithFiller(p, row, f) ==
  /\ proc[p].fresh
  /\ tx[f].status = "none"
  /\ tx' = [tx EXCEPT ![proc[p].id] = row,
                      ![f] = [NoRow EXCEPT !.status = "queued",
                                           !.nonce = row.nonce, !.fills = proc[p].id]]
  /\ proc' = [q \in Procs |->
                IF q = p THEN Idle
                ELSE IF proc[q].id = proc[p].id THEN [proc[q] EXCEPT !.fresh = FALSE]
                ELSE proc[q]]

\* failRefused: the transaction fails and its filler is created; the filler's
\* message is sent, or lost.
FailWithFiller(p) ==
  LET row == WithStatus(MarkRefused(proc[p].view, proc[p].n), "failed") IN
  /\ Answered(p, {"first", "replace", "rebroadcast"}, {"rejected"})
  /\ ~MayBeMined(proc[p].view, proc[p].n)
  /\ proc[p].id \in Payloads
  /\ \E f \in Fillers :
       /\ SaveWithFiller(p, row, f)
       /\ queue' \in {Delete(p), Delete(p) \cup {f}}
  /\ UNCHANGED <<nextNonce, paused, reconciled, chainVars>>

(***************************************************************************)
(* Sweepers                                                                *)
(***************************************************************************)
\* The head was read with the sweep's first page, so it may be older than the row.
SweepRead(s, t) ==
  /\ proc[s].pc = "idle"
  /\ tx[t].status \in Pending
  /\ \E h \in 1 .. head :
       proc' = [proc EXCEPT ![s] = [Idle EXCEPT !.pc = "view", !.id = t, !.view = tx[t],
                                                !.fresh = TRUE, !.head = h]]
  /\ UNCHANGED <<storeVars, reconciled, chainVars>>

Viewing(s, status) == proc[s].pc = "view" /\ proc[s].view.status = status

\* The run leaves the transaction as it is: paused, not stale, not deep enough,
\* still within the wait, or known to the node.
SweepDone(s) ==
  /\ proc[s].pc \in {"view", "active", "resumed", "bump", "resend"}
  /\ Finish(s)
  /\ UNCHANGED <<storeVars, reconciled, chainVars>>

\* checkPause, when there is no pause.
ReadActive(s) ==
  /\ Viewing(s, "queued")
  /\ ~paused
  /\ Goto(s, "active")
  /\ UNCHANGED <<storeVars, reconciled, chainVars>>

\* checkPause: the balance covers the transaction again.
Unpause(s) ==
  /\ Viewing(s, "queued")
  /\ paused
  /\ paused' = FALSE
  /\ Goto(s, "resumed")
  /\ UNCHANGED <<tx, nextNonce, queue, reconciled, chainVars>>

\* Mutant: only a resume puts messages back.
RequeueResumed(s) ==
  /\ proc[s].pc = "resumed"
  /\ SignerUndisturbed(proc[s].id)
  /\ SaveTx(s, proc[s].view, Idle)
  /\ queue' \in {queue, queue \cup {proc[s].id}}
  /\ UNCHANGED <<nextNonce, paused, reconciled, chainVars>>

\* requeue: after a resume, or when stale; a dependent one once it need not wait.
Requeue(s) ==
  LET t == proc[s].id IN
  /\ \/ proc[s].pc = "resumed"
     \/ /\ proc[s].pc = "active"
        /\ HasDependency(t) /\ proc[s].view.nonce = NoNonce
             => DependencyState(DependsOn[t]) # "waiting"
  /\ SignerUndisturbed(t)
  /\ SaveTx(s, proc[s].view, Idle)
  /\ queue' \in {queue, queue \cup {t}}
  /\ UNCHANGED <<nextNonce, paused, reconciled, chainVars>>

\* checkMined: the receipt is gone or in another block, so the transaction is
\* submitted again and its bytes go out again.
SweepReorged(s) ==
  LET view == proc[s].view
      row == [view EXCEPT !.status = "submitted", !.mined = NoMined]
  IN  /\ Viewing(s, "mined")
      /\ \E b \in Receipts(Sig(proc[s].id, view, view.mined.n)) : b # view.mined.block
      /\ SaveTx(s, row, [Holding(s, row, "send") EXCEPT !.n = view.mined.n,
                                                        !.how = "rebroadcast"])
      /\ UNCHANGED <<nextNonce, paused, queue, reconciled, chainVars>>

Deep(block, h) == h - block + 1 >= Confirmations

SweepConfirmed(s) ==
  LET view == proc[s].view IN
  /\ Viewing(s, "mined")
  /\ \E b \in Receipts(Sig(proc[s].id, view, view.mined.n)) : b = view.mined.block
  /\ Deep(view.mined.block, proc[s].head)
  /\ SaveTx(s, WithStatus(view, "confirmed"), Idle)
  /\ UNCHANGED <<nextNonce, paused, queue, reconciled, chainVars>>

\* Mutant: the first sight of a used nonce is enough.
ReadyAtSight(s) == proc[s].view.usedAt # NoStamp

\* readyToFail: the confirmation depth and the minimum age since the stamp.
ReadyToFail(s) ==
  LET at == proc[s].view.usedAt IN
  /\ at # NoStamp
  /\ proc[s].head - at.block >= Confirmations
  /\ head - at.time >= AgeBlocks

\* A receipt for one of the signatures: before the nonce is read, or in the
\* walk over every URL once the nonce has read as used for long enough.
SweepFound(s) ==
  LET view == proc[s].view IN
  /\ Viewing(s, "submitted")
  /\ \E i \in DOMAIN view.attempts :
       /\ IsMined(Sig(proc[s].id, view, i))
       /\ proc' = [proc EXCEPT ![s].pc = "mark", ![s].n = i,
                               ![s].block = used[view.nonce + 1].block]
  /\ UNCHANGED <<storeVars, reconciled, chainVars>>

\* markMined: a receipt proves that a node took the signature.
MarkMined(s) ==
  LET p == proc[s]
      row == [MarkAccepted(p.view, p.n) EXCEPT !.status = "mined", !.usedAt = NoStamp,
                                               !.mined = [n |-> p.n, block |-> p.block]]
  IN  /\ p.pc = "mark"
      /\ SaveTx(s, row, IF Deep(p.block, p.head) THEN Holding(s, row, "confirm") ELSE Idle)
      /\ UNCHANGED <<nextNonce, paused, queue, reconciled, chainVars>>

ConfirmMined(s) ==
  /\ proc[s].pc = "confirm"
  /\ SaveTx(s, WithStatus(proc[s].view, "confirmed"), Idle)
  /\ UNCHANGED <<nextNonce, paused, queue, reconciled, chainVars>>

\* The nonce reads as used and no node asked shows a receipt: the wait starts.
StampUsed(s) ==
  LET row == [proc[s].view EXCEPT !.usedAt = [block |-> proc[s].head, time |-> head]] IN
  /\ Viewing(s, "submitted")
  /\ proc[s].view.usedAt = NoStamp
  /\ \E m \in NonceReads : m > proc[s].view.nonce
  /\ SaveTx(s, row, Idle)
  /\ UNCHANGED <<nextNonce, paused, queue, reconciled, chainVars>>

\* The wait is over and every URL answered that no signature has a receipt.
WalkEmpty(s) ==
  LET view == proc[s].view IN
  /\ Viewing(s, "submitted")
  /\ ReadyToFail(s)
  /\ \E m \in NonceReads : m > view.nonce
  /\ \A i \in DOMAIN view.attempts : ~IsMined(Sig(proc[s].id, view, i))
  /\ Goto(s, "fail")
  /\ UNCHANGED <<storeVars, reconciled, chainVars>>

FailUsed(s) ==
  /\ proc[s].pc = "fail"
  /\ SaveTx(s, WithStatus(proc[s].view, "failed"), Idle)
  /\ UNCHANGED <<nextNonce, paused, queue, reconciled, chainVars>>

\* The nonce does not read as used: an earlier stamp is cleared, and when the
\* nonce is the next one to be mined the transaction may be replaced.
NonceUnused(s) ==
  LET view == proc[s].view
      row == [view EXCEPT !.usedAt = NoStamp]
  IN  /\ Viewing(s, "submitted")
      /\ \E m \in NonceReads :
           LET onward == IF m = view.nonce THEN "bump" ELSE "resend" IN
           /\ m <= view.nonce
           /\ \/ /\ view.usedAt # NoStamp
                 /\ SaveTx(s, row, Holding(s, row, onward))
              \/ /\ view.usedAt = NoStamp
                 /\ Goto(s, onward)
                 /\ UNCHANGED tx
      /\ UNCHANGED <<nextNonce, paused, queue, reconciled, chainVars>>

\* Writes of fields that are not modelled: how far a walk over the hashes got,
\* and that the fee cap or the attempt limit was reached.
SaveProgress(s) ==
  /\ \/ Viewing(s, "submitted") /\ SaveTx(s, proc[s].view, Idle)
     \/ proc[s].pc = "bump" /\ SaveTx(s, proc[s].view, proc[s])
  /\ UNCHANGED <<nextNonce, paused, queue, reconciled, chainVars>>

\* replace: a new signature, saved before it is sent.
Replace(s) ==
  LET i == Len(proc[s].view.attempts) + 1
      row == [proc[s].view EXCEPT !.attempts = Append(@, NewAttempt)]
  IN  /\ proc[s].pc = "bump"
      /\ i <= MaxAttempts
      /\ SaveTx(s, row, [Holding(s, row, "send") EXCEPT !.n = i, !.how = "replace"])
      /\ UNCHANGED <<nextNonce, paused, queue, reconciled, chainVars>>

\* The live signature goes out again, or, in a replacement with every one
\* refused, a refused one whose fees are no lower than a new one's would be.
Rebroadcast(s) ==
  LET view == proc[s].view
      live == LiveAttempt(view)
  IN  /\ proc[s].pc \in {"bump", "resend"}
      /\ \E i \in DOMAIN view.attempts :
           /\ IF live # 0 THEN i = live ELSE proc[s].pc = "bump"
           /\ proc' = [proc EXCEPT ![s].pc = "send", ![s].n = i, ![s].how = "rebroadcast"]
      /\ UNCHANGED <<storeVars, reconciled, chainVars>>

\* A node took the bytes sent again: a refused signature is live again.
RebroadcastTaken(s) ==
  LET view == proc[s].view
      n == proc[s].n
      row == [view EXCEPT !.attempts[n] = [accepted |-> TRUE, refused |-> FALSE]]
  IN  /\ Answered(s, {"rebroadcast"}, {"taken", "unknown"})
      /\ IF row = view THEN Finish(s) /\ UNCHANGED tx ELSE SaveTx(s, row, Idle)
      /\ UNCHANGED <<nextNonce, paused, queue, reconciled, chainVars>>

\* needsBump is saved unless it is set already; it is not a field of the model.
RebroadcastUnderpriced(s) ==
  /\ Answered(s, {"rebroadcast"}, {"underpriced"})
  /\ \/ SaveTx(s, proc[s].view, Idle)
     \/ Finish(s) /\ UNCHANGED tx
  /\ UNCHANGED <<nextNonce, paused, queue, reconciled, chainVars>>

ReplaceTaken(s) ==
  /\ Answered(s, {"replace"}, {"taken", "unknown"})
  /\ SaveTx(s, MarkAccepted(proc[s].view, proc[s].n), Idle)
  /\ UNCHANGED <<nextNonce, paused, queue, reconciled, chainVars>>

\* A refused replacement does not fail the transaction.
ReplaceUnderpriced(s) ==
  /\ Answered(s, {"replace"}, {"underpriced"})
  /\ SaveTx(s, MarkRefused(proc[s].view, proc[s].n), Idle)
  /\ UNCHANGED <<nextNonce, paused, queue, reconciled, chainVars>>

\* pauseSigner: a rebroadcast ends there, a replacement then marks its attempt
\* refused, as it does when underpriced.
SweepNoFunds(s) ==
  /\ Answered(s, {"replace", "rebroadcast"}, {"no-funds"})
  /\ PauseForFunds
  /\ IF proc[s].how = "replace"
       THEN proc' = [proc EXCEPT ![s].answer = "underpriced"]
       ELSE Finish(s)
  /\ UNCHANGED <<tx, nextNonce, queue, reconciled, chainVars>>

SweepTooLow(s) ==
  /\ Answered(s, {"replace", "rebroadcast"}, {"too-low"})
  /\ Finish(s)
  /\ UNCHANGED <<storeVars, reconciled, chainVars>>

(***************************************************************************)
(* Runs that end early, and the chain                                      *)
(***************************************************************************)
\* A crash, a timeout, a failed call, a TxConflictError, or the reset limit.
\* The signer's message is delivered again, or goes to the dead-letter queue.
Abort(p) ==
  /\ proc[p].pc # "idle"
  /\ \/ LostAnswers \/ ~proc[p].fresh \/ proc[p].pc # "answered"
     \/ proc[p].answer \notin {"taken", "unknown"}
  /\ Finish(p)
  /\ queue' \in {queue, Delete(p)}
  /\ reconciled' \in {reconciled, reconciled /\ p # Signer}
  /\ UNCHANGED <<tx, nextNonce, paused, chainVars>>

EmptyBlock ==
  /\ head < MaxHead
  /\ head' = head + 1
  /\ UNCHANGED <<storeVars, proc, reconciled, used, reached, usedMax, reorgs, foreign>>

\* A block with the next nonce: ours, once a node took it, or another sender's.
MineNonce ==
  /\ head < MaxHead
  /\ head' = head + 1
  /\ \E sig \in reached \cup {Foreign(n) : n \in foreign} :
       /\ sig.nonce = Len(used)
       /\ used' = Append(used, [sig |-> sig, block |-> head + 1])
  /\ usedMax' = IF Len(used') > usedMax THEN Len(used') ELSE usedMax
  /\ UNCHANGED <<storeVars, proc, reconciled, reached, reorgs, foreign>>

\* Another program sends with the key, at a nonce that a node told it is the next.
ForeignSend ==
  /\ Cardinality(foreign) < MaxForeign
  /\ \E n \in PendingReads \ foreign :
       /\ n >= Len(used)
       /\ foreign' = foreign \cup {n}
  /\ UNCHANGED <<storeVars, proc, reconciled, head, used, reached, usedMax, reorgs>>

\* The newest blocks, fewer than the confirmation depth, are replaced by as many
\* others without our transactions, any of which may be mined again later.
Reorg ==
  /\ reorgs < MaxReorgs
  /\ reorgs' = reorgs + 1
  /\ \E m \in 0 .. Len(used) - 1 :
       /\ ~Deep(used[m + 1].block, head)
       /\ used' = SubSeq(used, 1, m)
  /\ UNCHANGED <<storeVars, proc, reconciled, head, reached, usedMax, foreign>>

(***************************************************************************)
(* The specification                                                       *)
(***************************************************************************)
SignerNext ==
  \/ \E t \in Ids : SignerSkip(t) \/ SignerTake(t)
  \/ FailDependent \/ RaiseNonce \/ AssignNonce \/ SignAttempt
  \/ SignerSubmitted \/ SignerUnderpriced \/ SignerNoFunds
  \/ SignerTooLowSubmitted \/ SignerDropNonce

SweeperNext(s) ==
  \/ \E t \in Ids : SweepRead(s, t)
  \/ SweepDone(s) \/ ReadActive(s) \/ Unpause(s) \/ Requeue(s)
  \/ SweepReorged(s) \/ SweepConfirmed(s)
  \/ SweepFound(s) \/ MarkMined(s) \/ ConfirmMined(s)
  \/ StampUsed(s) \/ WalkEmpty(s) \/ FailUsed(s)
  \/ NonceUnused(s) \/ SaveProgress(s) \/ Replace(s) \/ Rebroadcast(s)
  \/ RebroadcastTaken(s) \/ RebroadcastUnderpriced(s)
  \/ ReplaceTaken(s) \/ ReplaceUnderpriced(s)
  \/ SweepNoFunds(s) \/ SweepTooLow(s)

EitherNext(p) ==
  Send(p) \/ SendTimedOut(p) \/ RefuseMarked(p) \/ RefuseFiller(p) \/ FailWithFiller(p) \/ Abort(p)

ChainNext == EmptyBlock \/ MineNonce \/ ForeignSend \/ Reorg

Next ==
  \/ \E t \in Payloads : Submit(t)
  \/ SignerNext
  \/ \E s \in Sweepers : SweeperNext(s)
  \/ \E p \in Procs : EitherNext(p)
  \/ ChainNext

Spec == Init /\ [][Next]_vars

(***************************************************************************)
(* What the schedule and the queue give once nodes and Lambdas are well    *)
(***************************************************************************)
\* The message of t is in the queue, or the signer is at work on it.
UnderWay(t) == t \in queue \/ proc[Signer].id = t

SignerWorks ==
  SignerNext \/ Send(Signer) \/ RefuseMarked(Signer) \/ RefuseFiller(Signer) \/ FailWithFiller(Signer)

\* A step while nothing fails.  Nodes take what they are sent unless its nonce is
\* used, and a signer's run ends early only where it can do nothing else (a conflict,
\* the reset limit).  The requeue age is far above what a message then takes to be
\* handled, so a sweep requeues, and its message arrives, just when none is under way.
Healthy ==
  /\ \A p \in Procs :
       proc[p].pc = "send" /\ proc'[p].pc = "answered" => proc'[p].answer \in {"taken", "too-low"}
  /\ Abort(Signer) => ~ENABLED SignerWorks
  /\ \A s \in Sweepers :
       LET t == proc[s].id
           ends == proc[s].pc # "idle" /\ proc'[s].pc = "idle"
       IN  /\ Requeue(s) => ~UnderWay(t) /\ t \in queue'
           /\ ends /\ proc[s].view.status = "queued" /\ ~UnderWay(t)
                => Requeue(s) \/ ~ENABLED (ReadActive(s) \/ Unpause(s) \/ Requeue(s))

\* The signer and each sweep that has begun go on, each scheduled sweep comes to every
\* unsettled row again and again, and failures end at some time.
Fairness ==
  /\ WF_vars(SignerNext \/ EitherNext(Signer))
  /\ \A s \in Sweepers :
       /\ WF_vars(SweeperNext(s) \/ EitherNext(s))
       /\ \A t \in Ids : SF_vars(SweepRead(s, t))
  /\ <>[][Healthy]_vars

FairSpec == Spec /\ Fairness

(***************************************************************************)
(* Properties                                                              *)
(***************************************************************************)
\* Every variable has its type.
TypeOK ==
  /\ tx \in [Ids -> Row]
  /\ nextNonce \in Nat
  /\ paused \in BOOLEAN
  /\ queue \subseteq Ids
  /\ proc \in [Procs -> Proc]
  /\ reconciled \in BOOLEAN
  /\ head \in Nat
  /\ used \in Seq([sig : [id : Ids \cup {NoTx}, nonce : Nat, n : Nat], block : Nat])
  /\ reached \subseteq Signature
  /\ usedMax \in Nat
  /\ reorgs \in Nat
  /\ foreign \subseteq Nat

\* Whatever a node ever took is on the row it was made for, at the nonce the row
\* has: attempts are saved before they are sent, and a nonce is only given up
\* when nothing was taken at it, so the receipt walks of later sweeps ask for
\* every signature that can be mined.
ReachedIsListed ==
  \A sig \in reached :
    /\ sig.nonce = tx[sig.id].nonce
    /\ sig.n \in DOMAIN tx[sig.id].attempts

\* No payload is executed twice, however often it is resent, replaced, given a
\* fresh nonce or reorged.
AtMostOnce ==
  \A i, j \in DOMAIN used :
    used[i].sig.id = used[j].sig.id /\ used[i].sig.id # NoTx => i = j

\* Two transactions never hold one nonce, but for a failed one and its filler.
NonceHolders ==
  \A t, u \in Ids :
    t # u /\ tx[t].nonce = tx[u].nonce /\ tx[t].nonce # NoNonce =>
      \/ tx[t].fills = u /\ tx[u].status = "failed"
      \/ tx[u].fills = t /\ tx[t].status = "failed"

\* Every nonce below the counter was used at some time, or an unsettled transaction
\* is there to use it, or a refused filler left it open, or another sender has sent
\* at it: later nonces never wait behind a gap that the relayer itself left.  Only of
\* the last the code takes no care: what it counted as pending (signer.ts:105) may
\* be dropped, and the gap stays until another transaction is sent there.
NoNonceGap ==
  \A n \in 0 .. nextNonce - 1 :
    \/ n < usedMax \/ n \in foreign
    \/ \E t \in Ids : tx[t].nonce = n /\ tx[t].status \in Pending
    \/ \E f \in Fillers : tx[f].nonce = n /\ tx[f].status = "failed"

\* A confirmed transaction is on the chain, in the block its row names, at a
\* depth no reorg reaches.
ConfirmedIsMined ==
  \A t \in Ids :
    tx[t].status = "confirmed" =>
      /\ IsMined(Sig(t, tx[t], tx[t].mined.n))
      /\ used[tx[t].nonce + 1].block = tx[t].mined.block
      /\ Deep(tx[t].mined.block, head)

\* A transaction reported as failed is not on the chain, so a client may submit
\* its payload again.
FailedNeverMined ==
  \A i \in DOMAIN used :
    used[i].sig.id # NoTx => tx[used[i].sig.id].status # "failed"

\* No signature of a dependent transaction reaches a node before its dependency
\* is confirmed and succeeded.
DependencyFirst ==
  \A sig \in reached :
    HasDependency(sig.id) => DependencyState(DependsOn[sig.id]) = "ready"

\* A settled transaction is never changed again, though runs that read it before
\* it settled are still at work on it.
SettledForGood ==
  [][\A t \in Ids : tx[t].status \in Settled => tx'[t] = tx[t]]_vars

\* What is queued leaves the queue once its dependency is settled, though its message
\* was lost or went to the dead-letter queue, the signer was paused in between, its
\* nonce was used by another or its row was written under the signer's run.
QueueDrains ==
  \A t \in Ids : tx[t].status = "queued" /\ ~Waiting(t) ~> tx[t].status # "queued"

\* The relayer implements what it promises its clients, of the statuses reported
\* and of what the chain executed.
Promise == INSTANCE TxPromise WITH
  status <- [t \in Payloads |-> tx[t].status],
  executed <- {t \in Payloads : \E i \in DOMAIN used : used[i].sig.id = t}
PromiseKept == Promise!Spec

\* The part of the promise that needs nothing of the nodes, the Lambdas or the schedule.
PromiseStands == Promise!SpecAnyway
=============================================================================
