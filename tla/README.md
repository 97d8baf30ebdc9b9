# Blockwarden, specified in TLA+

Blockwarden monitors EVM chains and relays transactions for its owner. It runs
as Lambda functions over DynamoDB tables, SQS queues and JSON-RPC nodes, and
almost everything that can go wrong in it is a matter of *order*: two Lambdas at
work on one row, a crash between a call and the write of its answer, a node that
lags behind another, a message that is delivered twice or not at all, a reorg.
This directory holds the models of those parts, the TLC configurations that
check them and the proofs that hold for every instance.

    cd tla
    tlc -workers 2 -config relayer_core.cfg MCRelayer     # any run below
    tlapm RelayerProofs.tla                               # any module of proofs

Paths below are under `src/`. *Modelled* means here that a definition of a
module stands for those lines; `PROJECT.json` maps every definition to them. A
definition whose comment begins with *Mutant* is not part of the model: it is the
definition after it with a bug one might make there, and TLC finds the property
that `PROJECT.json` names beside it violated when it takes its place.

## 1. Inventory

### Relayer (`services/relayer`)

The part that spends money, and the core of the system. Clients submit
transactions over HTTP; the relayer gives each a nonce of its signer's address,
signs it with a KMS key, sends it, and watches it until it is final.

| part | state it keeps | operations |
|---|---|---|
| submission (`submit.ts`, `policy.ts`) | the transaction's row, the claim of its idempotency key, the day's spend | `submitTx` checks the policy and the dependency, `createTx` writes row, claim and reservation in one store transaction, then the message is sent (or lost) |
| signer (`signer.ts`, `batch.ts`) | the nonce counter, the row, its attempts; in memory whether this container reconciled the counter | `processTx`: take a nonce, sign, save, send, record the answer; give a nonce up; pause |
| sweeper (`sweeper.ts`) | the row: status, attempts, mined record, stamps | `sweepChain` reads the index of unsettled rows page by page: requeue, resume, look for receipts, rebroadcast, replace, confirm, detect reorgs, fail |
| refusals (`refusal.ts`) | the row and its filler | `refuseAttempt`: mark the attempt, or fail the transaction and create a filler |
| store (`store.ts`, `records.ts`) | one table; every row has a version | versioned writes, two-row transactions, a counter that only rises |
| chain client (`chain.ts`) | none | sends to the first URL with a decisive answer, reads from the first that answers, `findReceipt` from all |

They interact through the rows (signer and any number of sweeps at once, each on
the snapshot it read), through a FIFO queue with one group for each signer and
chain (so one signer run at a time), and through the nodes. Hard: runs end at any
point; an answer may be lost, or be `unknown` although the node took the bytes;
nodes lag; sweeps overlap; blocks are reorged; another program may use the key.

Correct means: a payload is never executed twice; a transaction reported as
failed never was and never will be executed; a confirmed one stays; no nonce is
left as a gap and none is held by two transactions; a dependent transaction waits
for its dependency; what is settled stays settled; what is queued leaves the
queue in the end.

### Monitor (`services/monitor`)

Polls a chain and writes matches of rules. A scheduled run (`cycle.ts`, `handler.ts`)
takes the chain's lease, reads the rules, the head and the finalized block, and scans
twice; `chain.ts` reads logs from several URLs, `store.ts` writes.

| part | state it keeps | operations |
|---|---|---|
| cycle (`cycle.ts`, `handler.ts`) | the lease; the cursor (`durableBlock`, `fastBlock`, `version`); match rows, each `provisional`, `final` or `dropped` | `poll` creates the cursor, scans finalized blocks (a chunk's matches written final, then the cursor), drops provisional matches that are 64 blocks behind, scans from 20 blocks before the fast cursor to the head and writes provisional matches |
| log reader (`chain.ts`, `readFinalRange`) | in memory, the highest head each URL gave | `getLogsWithHead` walks the URLs, twice each; accepts logs only of a node whose head is past the range |

Hard: a run that outlives its lease, a crash between a chunk's matches and the cursor,
nodes that lag or refuse a range, pools of nodes that serve a batch entry by entry,
reorgs under the fast scan. Correct means: every match in a finalized block becomes
final, once, and nothing else does; the durable cursor never passes a block whose
matches are not written and never goes back; a final match is never dropped; logs are
taken only if they are the whole range; the scan catches up.

### Actions (`services/actions`)

Turns changes of match and transaction rows (a DynamoDB stream) into deliveries
to webhooks, mail, queues and functions. An outbox: the row is the truth, a queue
message only points to it.

| part | state it keeps | operations |
|---|---|---|
| dispatcher (`dispatcher.ts`) | the delivery rows, the stream's retries of a record | `dispatchRecords`: for each planned delivery create the row, send its message, mark it queued; report a record that failed |
| sender (`sender.ts`) | the row: status, attempts, due time, version; its dead-letter copy | `processDelivery`: read, claim for 120 s, send, record the outcome, requeue with a backoff or dead-letter after 8 attempts |
| reaper (`sweepDue`) | the row | queues what is overdue again, buries what has used its attempts |
| redrive (`api/src/deliveries.ts`, `actions/scripts/redrive.ts`) | the row, the dead-letter queue | resets a dead row, sends its message; the script then drains the copies |
| events (`events.ts`, `plan.ts`) | none; reads the images of a change | `changesFor`: which events a write added, each with its number |
| lookup (`lookup.ts`) | in a container's memory, rules and signers for a minute | reads a rule, or takes it from memory |
| outbound (`outbound.ts`) | the delivery row under the request's id | `acceptOutbound`: creates the delivery, or compares it with the one that is there |
| senders (`senders/`) | none | one call each; `relay` submits a transaction to the relayer under the delivery's id |

They interact through the rows, each on the version it read, and through a queue that
may deliver twice. Hard: stream records and messages that come again, senders
that claim over each other, runs that end between any two calls, messages that are
lost, the two orders of *mark dead* and *copy*, redrives that race. Correct means:
every planned delivery is created, once; each ends as delivered or dead; what is
delivered was accepted and stays delivered; whatever is dead is seen by the
dead-letter alarm; a redrive undoes the death it was asked to undo; a change has one
event, once; a request id stands for one destination; a relayed transaction is
stored once however often its delivery is tried.

### Operator API (`services/api`) and dashboard (`apps/dashboard`)

| part | state it keeps | operations |
|---|---|---|
| sign-in (`auth-routes.ts`, `authorizer.ts`, `store.ts`) | nonce rows; sessions are signed cookies | issue a nonce; verify a signed message, delete the nonce, mint a session; grant a request by its cookie or its API key |
| rules (`rules.ts`) | rule rows | create, patch (read, then an unconditional put), delete |
| listings (`rules.ts`, `relayer-routes.ts`, `matches.ts`, `deliveries.ts`) | none; the caller hands the cursor back | six listings, page by page, some of them chain by chain |
| redrive | see above | |

Hard: two uses of one nonce, rows whose time to live is over but which are still there,
edits of one rule that race, rows that come and go between two pages. Correct means: a
nonce signs in once and in time; a grant goes back to a message an allowed wallet signed; an edit takes effect on the rule at
once and on what is planned soon after; a listing shows what is there all along once.
The dashboard keeps nothing the system depends on.

### Packages, contracts, infrastructure

`packages/core` compiles and matches rules, names matches, and prices replacements:
pure functions. `packages/kms-signer` converts signatures: pure.
`packages/relayer-client` makes a call and names its failures.
`contracts/TopUpVault.sol` keeps balances, a pool and a cooldown. `infra` sets
queue types, timeouts and concurrency, on which the models rely where they say so.

`PROJECT.json` lists each of these parts with its status, and under `hazards`
what in them is hard to test, line by line, with the properties that cover it.

## 2. Modules

| module | what it is |
|---|---|
| `Relayer` | signer, sweeps, store, queue and chain for one signer address on one chain; its properties |
| `TxPromise` | what the relayer promises a client of one transaction: the abstract specification |
| `MCRelayer` | the ids and dependencies of the instances TLC checks |
| `RelayerProofs` | the theorems about `Relayer`, and their inductive invariant |
| `Delivery` | dispatcher, senders, reaper, redrives, both queues and the stream's retries; its properties |
| `Outbox` | what the actions service promises of a delivery: the abstract specification |
| `MCDelivery` | what the stream record plans in the instances TLC checks |
| `DeliveryProofs` | the theorems about `Delivery`, and their inductive invariants |
| `Monitor` | runs, lease, cursor and matches of one chain, over reorgs and nodes that lag; its properties |
| `MatchPromise` | what the monitor promises of a match: the abstract specification |
| `Pipeline` | from a match to its relayed transaction: the promises of the three services, composed |
| `MCMonitor` | the instances of `Monitor` TLC checks |
| `MonitorProofs` | the theorems about `Monitor` and `Pipeline`, and their inductive invariants |
| `ChainReader` | how the durable scan gets the logs of a range from several URLs |
| `Submit` | the submission route under clients that repeat a request |
| `Relays` | EXTENDS `Submit`: the relay channel as its client, and what becomes of the delivery |
| `Rules` | edits of a rule, and the dispatchers that keep it in memory |
| `SignIn` | nonces, sessions and what the authorizer grants |
| `Fees` | the arithmetic of a first signature and of a replacement |
| `Pricing` | EXTENDS `Fees`: one nonce priced again and again |
| `Attempts` | EXTENDS `Fees`: what one row keeps of its signatures, and the receipt walk over them |
| `Events` | from a change of a row to its numbered events |
| `Outbound` | requests to deliver something, under an id of the caller's |
| `Listing` | the API's listings, page by page |
| `Matching` | which log matches which rule, and the key of each match |
| `Vault` | the demo contract |
| `ChainProofs` | the theorems about `ChainReader`, `Matching` and `Vault` |
| `SubmitProofs` | the theorems about `Submit` and `Relays` |
| `ApiProofs` | the theorems about `SignIn`, `Rules` and `Listing` |
| `ActionsProofs` | the theorems about `Outbound` and `Events`, and the types of all components in `MCServices` |
| `AttemptsProofs` | the theorems about `Pricing` and `Attempts` |
| `MCServices` | one instance of each of the twelve smaller components and one of `Pipeline`; `part` says which of them moves |

`Relayer` takes two things of the relayer as one step each that have a module of their
own: that a row is stored (`Submit`) and that a walk asks for every hash of a
row (`Attempts`). `Monitor` takes from `ChainReader` that a range that is read is read
whole, and from `Matching` that a match has one key in every scan. `Delivery` takes
from `Events` that a record plans the same deliveries each time, and from `Relays`,
`Outbound` and `Rules` what a plan and an outcome are.

Three abstract specifications stand between the services: `MatchPromise` between monitor and
dispatcher, `Outbox` between whoever plans a delivery and its destination, `TxPromise` between the
relayer and its clients. `Monitor` implements the first, `Delivery` and, for its own client, `Relays` the second,
`Relayer` the third; `Pipeline` composes the three, and no more than them.

### How `Relayer` corresponds to the code

A *run* of a Lambda over one transaction is a process: `Signer` (the queue's FIFO
group admits one at a time) and the members of `Sweepers` (any two may be at
work on one row: a sweep that outlived its schedule, or an index page that was
read late). Each holds in `proc[p]` what the code holds in local variables:

| in the model | in the code |
|---|---|
| `tx[t]` | the row of transaction `t`: `status`, `nonce`, `attempts`, `mined`, `usedAt` (`nonceUsedAtBlock` and `nonceUsedAt`), `fills` |
| `nextNonce`, `paused`, `queue` | the counter item, the pause item, the messages in the FIFO queue |
| `reconciled` | the module-level set of that name in the signer's container |
| `proc[p].view` | the `tx` variable of the run, as it was read or last written |
| `proc[p].fresh` | whether `view`'s `version` is still the stored one |
| `proc[p].pc` | between which two calls the run is |
| `proc[p].n`, `how`, `answer` | the attempt in hand, why it is sent, what the nodes said |
| `proc[p].head` | the head the sweep read with its first page |
| `proc[p].taken`, `resets` | `tx.nonce === takenNonce`, and the loop counter of `processTx` |
| `used` | the chain: which signature used each nonce, and in which block |
| `reached` | the signatures some node took: any of them may be mined, whenever its nonce is next |

One action is what happens between two calls that others can see: a store
write, a send, or the lookups that lead to a decision. A version number is only
ever compared with the stored one, so the model keeps the outcome of that
comparison, `fresh`: a write succeeds if it is still true and makes it false for
everyone else who holds the row. `Abort` ends a run at any of its steps: a crash, a timeout, an
RPC error, or a conflict. The signer's message is then delivered again, or is gone
to the dead-letter queue.

Time is left open. A transaction may be stuck, a requeue may be due, a backoff may
be over, at any moment; the minimum age before a transaction fails
(`nonceUsedMinAgeMs`) is the one duration that matters to safety, and counts as
`AgeBlocks` blocks. Fees are left out: a replacement is a new attempt, and
`MaxAttempts` stands for the fee cap and for `MAX_ATTEMPTS`. Gas estimates,
policies and the texts of errors are left out.

### The relayer's environment

* A send is answered `taken` (accepted or already known), `unknown`,
  `underpriced`, `no-funds`, `too-low` or `rejected`. `unknown` says nothing of
  whether a node took the bytes. A node says `too-low` only of a nonce that is
  used on its chain.
* With `TriesTimeOut`, a try of a send may be taken and yet time out; the next try
  then gives the answer.
* A receipt lookup over one URL may find nothing for a transaction that is mined.
  `findReceipt` asks all URLs and is taken to be right when all of them answer.
* A nonce read may lag by any amount. A read of the *latest* count is never ahead of the chain; the *pending* count with which
  a cold signer raises its counter (`signer.ts:105`, `PendingReads`) goes on over what the node has in its pool, ours or another sender's.
* A reorg replaces blocks that are not yet `Confirmations` deep, by as many others.
* Another program may send with the key (`ForeignSend`), at `MaxForeign` nonces at most. What it sent is pending, and may be mined, or
  never, also after a reorg: a transaction that is never mined is a dropped one.
* With `LostAnswers = FALSE` a run does not end, and its row does not change,
  between a node's `taken` or `unknown` and the write of it. A requeue of a row that the signer is at
  work on is then left out as well (10 minutes against a Lambda of 60 seconds).

### How `Delivery` corresponds to the code

A run of `dispatchRecords` over one record, of `processDelivery` over one message, of
`sweepDue` over one row, of `handleRedrive` and of the script is a process, and holds
in `run[p]` what the code holds in local variables.

| in the model | in the code |
|---|---|
| `row[d]` | the row of delivery `d`: `status`, `attempts`; `"none"` before it is created |
| `queue[d]`, `dlq` | messages of `d` that wait; deliveries with a copy in the dead-letter queue |
| `stream[r]` | the event source's state for record `r`: waiting, in a run, done, discarded; `at` is the place in the loop over the plan |
| `run[p].pc`, `id` | between which two calls the run is, and about which delivery |
| `run[p].view`, `fresh` | the `delivery` or `claimed` variable, and whether its version is still the stored one |
| `accepted` | history: destinations that took a delivery's body at least once |

One action is one store write or one queue call. `Save` is the versioned put of
`store.ts`: it needs `fresh` and takes it from everyone else who holds the row.
`ApiReset` is the one write on another condition, the status. Every run may fail before any of its calls:
the dispatcher's record is reported and comes again until its retries are used up; the
sender's message comes again, even when its run had finished (`SenderFail` at `done`); a sweep
or a redrive just stops (`QuietFail`). A crash, a timeout and an error of a call differ
only in where they end a run.

Time enters at one place. A row is due a grace of 60 s after its due time, and
each write sets that time so far ahead that the Lambda that wrote it has ended
by then: 60 s after a create against the dispatcher's timeout of 60 s, 120 s after a sweep marks it
queued against 60 s, 180 s after a claim and more than 60 s after a retry is scheduled
against the sender's 30 s, 60 s after a redrive against the API's 15 s. So `Due` waits for a run
that `Holds` the row to go on, lose its view or end. The script has no timeout and holds
nothing. Message delays and backoffs are left open.

### The environment of the actions service

* The queue may deliver a message again, in any order, and moves it to the
  dead-letter queue when its receives are used up (`Backstop`). Messages do not vanish.
* A send is `delivered`, `retry` or `permanent`. After `retry` the destination may
  have accepted all the same. A channel without a sender counts as `permanent`.
* A put's answer is right: a put that was stored and whose answer was lost is
  not repeated against its own condition.
* `plan` gives the same deliveries each time a record comes.

### How `Monitor` corresponds to the code

| in the model | in the code |
|---|---|
| `head`, `finalized`, `where` | the chain: its height, its last finalized block, and the block each transaction is in |
| `lease` | the lease row: its owner; its `leaseUntil` is `LeaseEnds` |
| `created`, `cursor` | the cursor row |
| `run[p].pc` | between which two calls of `runCycle`, `poll` and the two scans the run is |
| `run[p].rules`, `head`, `fin` | what it read when it began |
| `run[p].cur`, `fresh` | the `cursor` variable, and whether its `version` is still the stored one |
| `to`, `ends`, `split`, `span`, `ceiling`, `fitted` | the range in hand, the halves still to be read, and what `runDurable` makes of their sizes |
| `pending` | matches that were read and are not yet written, or stale ones not yet dropped |
| `match[m]` | the match row of `m`, `"none"` before it is written |

A match is a pair of a transaction and a rule. `SaveCursor` is the versioned put: it
needs `fresh` and takes it from the others. `Conflict` is `CursorConflictError`.
`CutShort` is an error or the deadline, `Crash` an invocation that dies and leaves its lease.
`acquireLease`, `loadRules`, `getHead` and `getFinalized` are one step, `Begin`: what they read may
be old by any amount afterwards, since everything goes on while the run works. The history
variables `origin` and `missed` say where the cursor began, and which rules were not
loaded by the run that passed a block: both are part of what the code promises.

The environment: a node asked for the head, the finalized block or provisional logs may be behind;
a durable read from one that is behind is an error (`ReadLagging`, by `ChainReader`'s
`WholeRange`). A range may be refused and is then halved. Blocks above the finalized one are
replaced, by as many. A rule is switched off or on at any moment. A lease may end under
its owner: the Lambda's timeout of 60 s (`infra/terraform/modules/blockwarden/monitor.tf`) is below the
lease's 90 s, so this takes a clock that is off, and counts as a fault.

### How the smaller components correspond to the code

* `ChainReader`: `request` is the loop over URLs and tries of `getLogsWithHead`, `answer`
  what `readFinalRange` makes of it. A URL is one node that may serve the entries of a
  batch in any order, or a pool in which any node serves any entry, in any order too: nothing at
  `chain.ts:283-298` binds the entries to a node. Heads move meanwhile. `knownHeads` is the reader's own list, which `NextInvocation` empties.
* `Submit`: `call[c]` is a run of `submitTx` between two store calls. `stored`, `claims` and
  `spentGwei` are the three items `createTx` writes at once. Costs and the cap are in wei, the
  day's row in gwei, and the conversions round as the code's do. Claims expire; answers are lost.
* `Relays`: `Attempt` is a sender's claim and its call, `TimesOut` the client's 10 s, `TurnedAway` the
  gateway and the check of the API key. The backoff (8 s and more after those 10 s) outlasts the route's
  15 s, so a retry does not overlap its predecessor; a second message or
  a redrive may, and `doubled` remembers it.
* `Rules`: an edit is a read (`ReadForPatch`) and a put (`PutPatched`). A dispatcher's container holds
  `entry` and at most one read under way. Time passes in `RulesTick`; a read lasts `MaxLoad`
  at most, in which the lag of an eventually consistent read is counted.
* `SignIn`: `verifier[v]` is a verify request between its calls, with the time it read when it
  began. `NonceSwept` is the table's own deletion, any time after the nonce is over. `granted` is the authorizer's last
  answer: to whom, for which session, and at which time by its own clock. A request with a session's token is `AuthorizeSession`, any other
  `AuthorizeOther`, which tries the key only where no token came.
* `Attempts`: fees stand for a hash, as the signature follows from them. A sweep's walk stops anywhere
  (`StopWalk`), leaves a cursor (`CursorOf`), and the next one goes on from it. A send, its answer and the write of it may come apart:
  `nodes.hold` is what nodes took, `nodes.acked` and `nodes.denied` what they were heard to say of it, and an answer may be lost with a try that timed out or
  with a sweep that died before its write (`sweeper.ts:349/366`, `483/500`).
* `Events`: `Trimmed` drops the front of a history; the stream is in order, and
  `PlanSome` is a run that dies with a part of its plan written.
* `Outbound`: `acceptor[a]` is a run over one message; create, compare, queue and mark are steps of their own.
* `Listing`: `page` is the request under way, `cursor` what the caller holds; rows come and go in between;
  a chain may be taken out of the signers' set. The table may end a query before its limit (`Query`), when what it read is too large for one answer.
* `Matching`: `response` is a provider's answer, in any order and with repetitions, over two blocks
  that hold one transaction. `Vault`: one action per function, checked arithmetic; `emitted` has each account's events in their order.

### How `Pipeline` corresponds to the code

Each service is replaced by its promise. What is left of the code are the steps by which they act on each other:

* `Watch`: a write of a match row leaves a record in the table's stream (`streamed`), as `MatchPromise` lets
  the row change. Records come late, in any order and again.
* `plan`: the dispatcher creates the delivery of a record, and of a rule that is not fast just for the event
  *final* (`dispatcher.ts:87-97`). A rule has one action, a relay; a delivery is a match and an event.
* `SendRelay`: a sender's call stores a transaction under the delivery's id as idempotency key (`relay.ts:56`), also when that
  sender's claim was overtaken. `claimed` is the 24 hours' claim of `createTx`; `KeyExpires` ends it.
* `Send`: the relayer and its chain, as `TxPromise` has them. That is what `Relayer` keeps under `Reliable`
  (section 5), so what `Pipeline` says of executed transactions holds on those terms.

`Finalized` holds the matches of rules that are never in mode *fast*: a rule that is switched may hear an event twice, once
provisional and once final. A match of a fast rule may act up to three times, once for each event, as the code means it to.

## 3. Runs

Instances of `MCRelayer`, `MCDelivery`, `MCMonitor` and `MCServices`; state counts are of
distinct states, after symmetry.

| run | instance | checks | states |
|---|---|---|---|
| `relayer_core` | 1 payload, filler, 1 sweep, 2 attempts, 4 blocks, 1 reorg, another sender at 1 nonce (pending, mined or dropped), no answer lost | `TypeOK` `ReachedIsListed` `AtMostOnce` `NoNonceGap` `PromiseKept` | 2.6 M |
| `relayer_overlap` | 2 payloads, one depends on the other, 2 overlapping sweeps, lost answers, tries that time out | `SettledForGood` `DependencyFirst` `NonceHolders` | 1.2 M |
| `relayer_drains` | 2 payloads, one depends on the other, 1 sweep, lost answers and messages, crashes, another sender at 1 nonce, fair | `QueueDrains` | 67 k |
| `relayer_lost_answer` | as core, small, answers lost | `FailedNeverMined` is violated | |
| `relayer_timed_out` | as core, small, tries time out | `AtMostOnce` is violated | |
| `monitor_core` | 2 runs, a fast rule that is switched, 3 blocks, 1 reorg, 1 fault | `TypeOK` `CursorCovers` `MatchesKept` | 612 k |
| `monitor_settle` | 2 runs, ranges up to 2, a fast scan of up to 3, 3 blocks, 1 reorg, 1 fault, fair | `FastCovers` `CatchesUp` `ProvisionalSettles` | 1.0 M |
| `services` | one instance of each smaller component, and of the pipeline | the 20 below | 880 k |
| `delivery_core` | 1 delivery, 2 senders, reaper, API, script, 2 redrives, no failure | `TypeOK` `OutboxKept` | 875 k |
| `delivery_settle` | 1 record of 2 deliveries, sender, reaper, 1 failure, fair | `RecordsComplete` `DeadIsSeen` `Settles` | 306 k |
| `delivery_drained` | as core, without the API, 1 redrive, 1 failure | `DeadIsSeen` is violated | |
| `delivery_redriven_twice` | 2 API redrives, no script | `RedrivesWhatItRead` is violated | |

What each property says, and of what code:

* `ReachedIsListed` whatever a node ever took is an attempt of its row, at the
  row's nonce. It rests on saving a signature before sending it and on when a nonce
  may be given up; the receipt walks of later sweeps are only right because of it.
* `AtMostOnce` no payload is executed twice.
* `SettledForGood` no step changes a settled row.
* `NonceHolders`, `NoNonceGap` nonces: one holder, except a failed transaction and
  its filler; below the counter each was used, is held, is a refused filler's, or is one at which another sender sent. Of that last kind the
  code takes no care: a cold signer may raise the counter past what is only pending with another sender (`signer.ts:105`), and if that is dropped, the gap stays.
* `DependencyFirst` nothing of a dependent transaction reaches a node before its
  dependency is confirmed and successful.
* `PromiseKept` the whole relayer refines `TxPromise`: a client sees
  queued, submitted, mined, confirmed (and back from mined to submitted on a
  reorg); it sees confirmed only of what is executed and stays so, and failed only
  of what is not executed and never will be.
* `QueueDrains` a queued transaction leaves the queue once its dependency is settled, although its
  message was lost, its signer paused in between, its nonce used by another, or its row written under a run.

* `RecordsComplete` a stream record is done with only when every delivery it plans
  was created, over retries that skip what earlier runs created.
* `DeadIsSeen` a dead delivery has a copy in the dead-letter queue, or a run about to
  send one, or a message whose receiver will find it dead and copy it. It rests
  on the two opposite orders of copy and write in `sender.ts` and `sweepDue`.
* `Settles` whatever was created becomes delivered or dead, although messages are
  lost and runs fail.
* `OutboxKept` the whole service refines `Outbox`: created once, delivered for good and
  only what was accepted, dead unless redriven.
* `RedrivesWhatItRead` an API redrive resets the death its caller read.


* `CursorCovers` every match in a block the durable cursor has passed is written as final,
  if the run that passed it had loaded the rule. It rests on writing before the cursor
  moves, on the version, and on what a halved range leaves for later.
* `MatchesKept` the whole monitor refines `MatchPromise`: a row is provisional once and to begin with, is dropped only from
  there, and becomes final only of what is in a finalized block, also after a drop and although slow runs write late.
* `FastCovers` while no node was behind and nothing was reorganised, each match of a fast rule up to the
  fast cursor has a row.
* `CatchesUp` the durable cursor reaches the finalized block again and again: also when a range was refused and halved down to a span of one and
  grew back, and when another run moved the cursor under this one.
* `ProvisionalSettles` a provisional match becomes final or dropped once its block is far enough behind,
  also one that the slow fast scan of another run wrote behind the cursor.

Stated by theorems, and not by a property of a passing run: the first four because `PromiseKept` and `MatchesKept` have the better
part of them, the last because `RelayEndsTrue` does.

* `ConfirmedIsMined` a confirmed transaction is on the chain, in the block its row
  names, at its full depth, although the head a sweep compares with may be old.
* `FailedNeverMined` a failed transaction is not on the chain.
* `FinalIsOnChain` a final match is in a finalized block of the chain, the one its row names.
* `FinalForGood` a final match stays as it is, and the durable cursor never goes back, whichever
  slow run goes on.
* `RelaysOutboxKept` (`Relays`) relay deliveries and the route refine `Outbox`, with *accepted* read as *a transaction is
  stored*: a delivery is recorded as delivered only if one was, whichever call's answer its sender had. The relay channel is
  thus a destination that `Delivery` may rely on, and what `SendRelay` of `Pipeline` stands for.

In `services`:

* `ServicesTypeOK` the type invariants of the components.
* `WholeRange`, `GivenUpForCause` (`ChainReader`) logs that are taken from a URL that leads to one node are those of the whole range,
  in whichever order it served the batch; a range is halved just if some URL refused the range itself. Of a pool the first is not claimed, and
  TLC finds it false there: one node answers both heads, another, behind, the logs.
* `OneTxPerKey`, `SpendWithinCap` (`Submit`) until its claim expires a key has one transaction and its client one answer,
  however many runs race past the lookup; a day's transactions cost no more than the cap, in wei.
* `RelayEndsTrue` (`Relays`) a relay delivery is delivered only with a transaction of its own, and refused only
  without one, whichever call's answer its sender had.
* `EditsTakeEffect` (`Rules`) without overlapping edits the rule is as the last one that spoke of it said; what is
  planned has a body the rule had a minute and a read ago at most.
* `ListedOnce` (`Listing`) a row that is there all along is listed once, and a hidden one never.
* `NonceSpentOnce`, `GrantTraced` (`SignIn`) a nonce mints one session, in time; whatever is granted to a session goes back to a message
  that its wallet, an allowed one, signed for this site with a nonce of ours, and comes less than a session's time after the end of both.
* `TopUpsApart` (`Vault`) any two top-ups of an account are a cooldown apart, two in one block included, and between any two reports that its
  balance is low there is a top-up.
* `BumpIsTaken` (`Pricing`) a replacement is refused just when no fees under the cap would do, and nodes take what is chosen.
* `AttemptsKept`, `RefusedUnheard`, `OutsideUnknown` (`Attempts`) every hash a node may have is looked up,
  although attempts are dropped to make room; of a row given up for a filler no node was heard to have taken a signature, and one that holds
  some was heard to refuse it (the rest of what `refusal.ts:7-10` says is not so, section 4); one given up for
  another's transaction was not known to all nodes as mined when the walk, over however many sweeps, began.
* `ChangesPlannedOnce` (`Events`) each change has one event, with its place among all changes, although history is trimmed.
* `OneDestination` (`Outbound`) a request id stands for one destination while its row lives.
* `KeysStable` (`Matching`) a match has one key in every scan, and a key one log in a block.
* `ActsOnSettled` (`Pipeline`) no delivery exists for a match that is not settled, and no transaction is executed for it,
  unless its rule is fast: no reorg takes back the log that a payment answers.
* `ActsOnce` (`Pipeline`) a settled match has its action executed once at most, although stream records and messages come
  again, senders claim over each other and operators redrive, as long as the relayer remembers the delivery's key.

### Bounds

*Relayer.* Two ids compete for a nonce, two sweeps for a row, and a third adds no new pair.
One attempt and one replacement show every combination of accepted, refused and unanswered
that `MayBeMined` and `LiveAttempt` tell apart for a pair; the replacement appears where
`MaxAttempts` is 2. The chain is long enough for a transaction to be mined,
reorged, mined again and confirmed, and, in `relayer_core`, for a used nonce
to be seen and waited out. Answers are not lost in `relayer_core`, as `PromiseKept` does not hold
with them; `ReachedIsListed` and `AtMostOnce` with lost answers are theorems. One nonce of another sender is enough to take the nonce
of a signed transaction, to leave the counter behind, and to raise it past a transaction that is then dropped. `MaxResets` is 1 where the code
has 2: a second reset repeats the first. Deadlock is not checked, as the
relayer stops when everything is settled and the bounded chain has no more blocks. `relayer_drains` has
no filler and one attempt, as a queued row is neither replaced nor refused; its two blocks are enough for a foreign use
of a nonce and for a dependency to be confirmed.

*Delivery.* Two senders show every race for a row; a third repeats one of them, and
the reaper and the redrives race with both. `MaxAttempts` 2 has a first attempt with a retry and a last one
without; the code's 8 add more of the first. `StreamRetries` 1 has a record that comes again
and one that is discarded; the code's 3 are more of the first. Two redrives let
the API's and the script's meet on one death; in that run none of the calls fails, and the
overlaps alone make the conflicts. One failure, in `delivery_settle`,
loses any one message, copy or write, at any place. In `delivery_settle` the second delivery of
the record is what a failed run leaves for the next. `MaxMessages` limits only
the reaper: it adds no second message while one waits, but a sender that failed
or scheduled a retry still does. Deadlock is not
checked: the service stops when everything is settled.

*Monitor.* Two runs overlap in `monitor_core` when the lease of one ends under it, or
when it crashed and another comes; a third repeats one of them. Three blocks hold a range of two that
is halved, a block behind the drop line and one above the finalized one. One match shows every order of two scans
over its row. One fault is one lease that ends, crash, lagging node, refusal or switch; what takes two, such as
a refusal inside an overlap, is left to the theorems, which have no bound. `monitor_settle` has ranges of two, so that a refused one is
halved to a span of one and grows again, and two runs, so that one overtakes the other's cursor or writes behind it; its fast scan takes three blocks at once,
and what is two blocks behind is dropped, which a chain of three blocks reaches.

*Services.* Each component has two of whatever races: URLs (one of them a pool of two nodes), calls of
the route for three requests under two keys, editors, verify requests, accounts, acceptors, chains, blocks with one transaction.
Limits are at their smallest that still allows the case: a cap of 5 wei with 2 wei to a gwei, so that rounding
matters; one signed attempt, two stored, one retired hash; a history of 2 with 4 changes; page sizes 1 and 2; words up to 8. The
TTLs are 2 units of time, a read of a rule and the skew of the clocks 1.
The two matches of the pipeline differ in their rules' modes; one delivery is planned in a behaviour, of either, and may make two
transactions, which is what it takes to act twice on one match. Deliveries of several matches side by side are left to the theorems.

Deadlock is not checked in these either: each component stops at a bound.

### Fairness

`Relayer`, for `QueueDrains` alone, assumes weak fairness of the signer's run and of each sweep's (a Lambda that
runs goes on until it ends, the event source polls), and strong fairness of each sweep's read of each row: the
schedule starts a sweep every minute, and it goes over all unsettled rows of its chain. And it assumes that failures end
(`<>[][Healthy]_vars`), since no retry helps against nodes or a queue that fail for ever: from some time on a node takes what
it is sent unless its nonce is used, a run of the signer ends early only on a conflict or at the reset limit, and a sweep
requeues just the rows whose message is gone (a row is requeued after 10 minutes, `config.ts:70`; a message of a working
queue is handled in far less). Nothing is assumed of *when* that is, so messages may be lost, runs die and
the signer pause any number of times before. Whether a dependency settles is up to the chain, and is not promised.

`Monitor` makes one assumption: while a lease can end, a run begin or one that is under way make its next call
(`Works`), one of these is done in the end. The schedule starts a run each minute, and not all of them hang. Nothing is assumed of the chain. Faults are bounded by `MaxFaults`: nodes that lag for ever, or a run that is
always cut short, leave the cursor where it is.

`Delivery` assumes weak fairness of each run: a Lambda that runs goes on until it
ends, the event sources poll, and the schedule starts a sweep each minute.
Of a sender's claim it assumes strong fairness: a sweep may come between a
sender's read and its claim, but the same row is swept at most every two minutes, and
read and claim are one round trip apart, so this does not happen for ever. Failures
are bounded by `MaxFailures`, since a service whose every run fails delivers nothing.
Nothing obliges an operator to redrive or a script to finish.

## 4. Findings

All are sentences of the code's own comments or tests that the code does not keep.

* `relayer_lost_answer`. `refusal.ts:7-10` says that a transaction fails *only
  when no node ever took any of its signatures*, `signer.ts:171` that *a first send
  was never taken by a node*. `mayBeMined` leaves out the attempt being refused. A
  run that ended after a node took the bytes left that attempt without an answer;
  the message comes again, the same bytes go out, and if this time the answer is a
  refusal, the transaction fails with a filler while a node still holds them. Two sweeps that
  overlap do the same without any loss (section 5, `Reliable`).
* `relayer_timed_out`. `signer.ts:60` says that *no earlier run can have broadcast
  anything* at a nonce this run took, and `signer.ts:159` takes `nonce too low`
  there for another sender's use. One send is several tries (`chain.ts:130`). If the
  first is taken but times out, is mined, and a later try meets the used nonce, and
  the receipt lookup lags, then the nonce is given up and the payload runs again at
  a fresh one.
* `delivery_drained`. `scripts/lib.ts:53` says that the drain deletes *only a copy of
  a delivery this run redrove*, and `dispatcher.test.ts:423` why a death must have a copy. A
  copy names the delivery, not the death. If the redriven delivery dies again before the
  drain reads the queue, the copy of its new death is deleted too, and the alarm no longer sees it.
* `delivery_redriven_twice`. `api/src/store.ts:389` says that a redrive takes *only the
  one this caller read* and that *a row that changed underneath it loses this condition*.
  The condition is on the status alone. A delivery that was redriven by another request and died
  again in between is redriven a second time.

## 5. Proofs

`RelayerProofs` proves, for any number of transactions, fillers, sweeps, signatures,
blocks and reorgs:

| theorem | says | assumes |
|---|---|---|
| `TypeCorrect` | `Spec => []TypeOK` | |
| `SettledIsFinal` | `Spec => SettledForGood` | |
| `EverySignatureListed` | `Spec => []ReachedIsListed` | `~TriesTimeOut` |
| `ExecutedAtMostOnce` | `Spec => []AtMostOnce` | `~TriesTimeOut` |
| `OneHolderEach` | `Spec => []NonceHolders` | |
| `ConfirmedIsFinal` | `Spec => []ConfirmedIsMined` | |
| `NoNonceLost` | `Spec => []NoNonceGap` | |
| `DependenciesFirst` | `Spec => []DependencyFirst` | |
| `ReportsAlwaysStand` | `Spec => PromiseStands`, the part of `TxPromise` below | |
| `FailedIsNeverMined` | `Spec => []FailedNeverMined` | `Reliable` |
| `PromiseIsKept` | `Spec => PromiseKept`, the refinement of `TxPromise` | `Reliable` |

besides the assumptions `IdsAssumption`, `ProcsAssumption` and `BoundsAssumption` of
`Relayer`, which TLC evaluates in every run. `~TriesTimeOut` is needed:
`relayer_timed_out` is the counterexample without it.

`PromiseStands` is the refinement of `TxPromise!SpecAnyway`, and holds with answers that are lost, tries that time out, sweeps that overlap, runs that
die anywhere and any number of reorgs: a client is told statuses along the promised edges only, and *confirmed* only of
what is executed and then stays executed. What it leaves out is what *failed* says of the chain.

For that, the last two theorems are conditional. They are more than the code's setting gives: answers do get lost, and nothing in `infra` keeps two sweeps from
overlapping. They say which conditions are enough for *failed* to mean *never executed*, each part of `Reliable` being needed:

* no answer is lost and no try of a send times out, or `relayer_lost_answer` is the counterexample;
* one sweep at a time (`\A s, u \in Sweepers : s = u`). Two overlapping ones may send the same unmarked bytes again:
  a node takes the first, another refuses the second, and the second run fails the row before the first has written that
  the bytes were taken;
* `MaxReorgs <= 1`. A nonce is stamped as used because of the transaction itself, whose receipt no node asked had. A reorg
  takes it out and another sender uses the nonce; the stamp is old by now, so the row fails at once; a second
  reorg takes that one out too, and the failed transaction is mined;
* `Confirmations <= AgeBlocks + 1`: a nonce that was stamped as used from outside is waited out for as long as a reorg is
  deep. By default that is 10 minutes against 5 blocks (`sweeper.ts:85`, `config.ts:15`).

TLC finds each of these three in an instance of one payload, two sweeps or one, and five blocks at most.
The run `relayer_core` satisfies it, and checks `PromiseKept`, which contains `FailedNeverMined`, on its instance.

None of these is inductive alone. The invariant has six layers.

* `StoreInv` is about the table and what each run holds of it: what the fields of
  a row say of each other (`RowOK`), what each run knows at each of its steps
  (`RunOK`), and how its snapshot compares with the stored row (`Related`): equal
  while it is fresh; the signer's is never changed by another run in a way that matters, since sweeps
  leave a queued row as it is but for its version; a sweep's may be old, but once a row was sent, its nonce
  stays and its attempts only grow. `StoreInv` holds whatever the nodes do. With it a write over a settled
  row is impossible, as no run that holds an unsettled snapshot is fresh.
* `ChainInv` adds what the nodes took. `UnsentIfGivenUp` is its heart: as long as the signer's
  run may still give its nonce up, no node took any signature of that transaction. Hence
  giving it up forgets nothing, `ReachedIsListed` holds, all that is ever taken
  of a transaction shares one nonce, and since the chain uses nonces in order
  (`UsedInOrder`), at most one of them is on it.
* `HoldersInv` adds that every nonce held is below the counter, so the one that is assigned
  next is nobody's, and that only fillers fill. `NoncesBelow` adds that the counter is above every nonce the relayer ever sent at, so
  the unused nonces that a pending count takes it past are another sender's.
* `KnownInv` says what a run's reads are still worth when it acts on them (`Knows`), on a chain that
  grew and was reorganised since: a receipt deep below the head the sweep read is deep below the
  present one, and what is that deep stays (`DeepKept`, from `BlocksInOrder`); a nonce that was seen used was
  used at some time (`usedMax`); a dependency that was ready stays ready. Each write then leaves
  what `RowsKnown` and `NoNonceGap` say (`KnownWrite`, `WriteRows`).

* `ReliableInv` says of the transactions that are settled what the others say of those under way. `TakenMarked`:
  that a node took a signature is marked on its row, or is the answer a run is about to write, so when a row without a mark is refused, no node
  ever took any of it. `FreshRuns`: a run that may act on a sent row holds it as it is stored.
  `FailedGone`: nothing of a failed transaction ever reached a node, or its nonce is used by another, deep below
  the head or with no reorg left to come. `StampFits`: the nonce of a stamped row was used at the time of the stamp, and
  still is unless the reorg came since. Hence the wait suffices.

Neither refinement adds an invariant. `Reports` has the edges a write may take a row along, whichever run makes it (`RunReports`), `ReportsStand` maps each
to its action of `TxPromise`, and `ConfirmedIsMined` makes *confirmed* true, now and after every reorg: that is `ReportsAlwaysStand`. For `PromiseIsKept`,
`ReportsKeep` adds that a failed one is not executed, and the chain's own steps map to `Execute` and `Undo`: a block executes one payload
at most, which is neither settled nor executed, and a reorg takes nothing back that is confirmed.

The first two layers have a lemma for each action; the others rest on `SweeperKind`, `SignerKind` and
`EitherKind`, which sort the actions by what they write.

`DeliveryProofs` proves, for any number of deliveries, records, plans, senders, sweeps,
redrives, attempts and failures:

| theorem | says | assumes |
|---|---|---|
| `DeliveryTypes` | `Spec => []TypeOK` | |
| `OutboxIsKept` | `Spec => OutboxKept`, the refinement of `Outbox` | |
| `DeadAreSeen` | `Spec => []DeadIsSeen` | `Scripts = {}` |
| `NoRecordIsLost` | `Spec => []RecordsComplete` | |

besides `DeliveriesAssumption`, `PlanAssumption`, `RunsAssumption` and
`BoundsAssumption` of `Delivery`. `Scripts = {}` is needed: `delivery_drained` is the
counterexample without it.

The invariant `IInv` says of each run, as a value, what it knows (`RunFits`): a view that
is fresh is the stored row; a run about to write a live row has a live view; a run that
records *delivered* is about an accepted delivery; a redrive has a dead view.
As `RunFits` speaks of one run and the table only, one lemma (`OthersFit`) shows that a write by
any run leaves every other one fitting. The refinement follows: what a run writes
over is what it read. `SeenInv` adds that the reaper is past its copy before it
marks a row dead (`CopiedFirst`); each step then hides no death (`HidesNothing`).
`RecInv` adds what the dispatcher's index says of the rows before it (`CreatedBelow`).

`MonitorProofs` proves, for any number of runs, rules, matches, blocks, reorgs and faults, and every range size:

| theorem | says |
|---|---|
| `MonitorTypes` | `Spec => []TypeOK` |
| `CursorCoversAll` | `Spec => []CursorCovers` |
| `FinalStaysOnChain` | `Spec => []FinalIsOnChain` |
| `FinalIsForGood` | `Spec => FinalForGood` |
| `FastCursorCovers` | `Spec => []FastCovers` |
| `MatchesAreKept` | `Spec => MatchesKept`, the refinement of `MatchPromise` |
| `PipelineActsOnSettled` | `PipelineSpec => []ActsOnSettled` |
| `PipelineActsOnce` | `PipelineSpec => []ActsOnce` |

Its invariant `IInv` adds to the two safety properties what each run knows (`RunFits`). A view that is fresh is the cursor
(`ViewFits`). A run that scans is within what was finalized when it began, and each match of the range in its hands is
written or among `pending` (`ScanFits`): true of the chain's blocks, and kept by reorgs, since the range is finalized.
The cursor moves only with a fresh view and nothing pending, hence over written blocks only.

`FastCovers` needs two more parts. `LoadInv` has each run know every rule that is never switched off, and a head that is on the chain. `FastInv` says, while its hypotheses hold, that what the fast cursor passed is written, and of each
run (`FastFits`) that so is what its own view of the cursor passed and what its scan has come to, and each match of the chunk
in its hands unless it is still `pending`. This holds of a run with a stale view, too, since rows never go, so its
save moves the cursor over written blocks however late it comes.

`MatchesAreKept` rests on `IInv` alone: a run writes *final* of pending matches of finalized blocks (`ScanFits`), *provisional* where there
is no row, and drops what is provisional at the time of the write; the chain's steps map to `Settle`, as
reorgs leave finalized blocks alone (`ChainWatched`).

The invariant of `Pipeline`, `PipelineInv`, runs along the path. `PlannedInv`: what the stream says is final is settled, and what
is planned was streamed and was due. `MadeInv`: what was executed or is under way was made for a delivery, and a
delivery that has one was planned. `ClaimInv`: of a delivery whose claim has not expired there is one
transaction at most, and there is one only if it is claimed. `ActsOnSettled` follows from the first two, and with the third `ActsOnce`: a
match of a finalized rule has just one delivery, the one of its *final* event.

| module, theorem | says | the invariant, besides types |
|---|---|---|
| `ChainProofs`: `LogsAreWhole`, `HalvedForCause` | `WholeRange`, `GivenUpForCause` | `AsksInOrder`: the URLs before this one were asked, and what was refused; `LogsBounded`: the head read before is no higher than the one at which a URL's only node served the logs, whenever it did; `KnownIsPast`: a remembered head was once had |
| `ChainProofs`: `OneKeyEach` | `KeysStable` | `KeyFits`: a key's ordinal is the number of logs the rule matches before this one, in its block and transaction: a number of the chain, not of the answer it was read in |
| `ChainProofs`: `TopUpsSpaced` | `TopUpsApart` | `EventsNoted`: no top-up among an account's events is later than the one it stores, from which the next waits a cooldown, and a balance that was reported low stays low until a top-up |
| `SubmitProofs`: `SafeToSendAgain` | `OneTxPerKey` | ids are unique; `ClaimBacked` and `ClaimNamesAll` tie claims and rows; answers name rows of their own request |
| `SubmitProofs`: `SpendStaysWithinCap` | `SpendWithinCap` | `SpendInv`: the day's rows cost no more in wei than its reserved gwei, which are no more than the cap |
| `SubmitProofs`: `DeliveriesEndTrue` | `RelayEndsTrue` | `RunTrue`: a run of the route answers *stored* with the delivery's own transaction, and is about to refuse only if it has none; `Awaited`: the run a sender waits for is under way; `Alone`: no other is, unless the delivery was `doubled`; `EndedTrue`: a delivered one has a transaction, a refused one has none and no run that could store one |
| `SubmitProofs`: `RelaysKeepTheOutbox` | `RelaysOutboxKept` | `TriedInv` besides that of `DeliveriesEndTrue`: a delivery that is done, or has a transaction or a call, was begun |
| `ApiProofs`: `NonceSignsInOnce`, `GrantsTraced` | `NonceSpentOnce`, `GrantTraced` | a stored nonce is unspent (`RowFits`), minting needs the one request that deleted it (`OneSpender`), in time and with an acceptable message (`VerifierFits`); a session was minted for such a message (`SessionFits`), and what is granted is a session's, in its time (`GrantFits`) |
| `ApiProofs`: `EditsReachPlans` | `EditsTakeEffect` | `ReadingFits`, `EntryFits`: how old what was read or kept may be; `EditsApart`: alone under way, an edit found what was last said |
| `ApiProofs`: `ListedExactlyOnce` | `ListedOnce` | `SeenFits`: a row is shown once at most and not before the pages come to it, and one that stays is shown when they have; `PageFits`: the rows of a page under way are what is due between its cursor and the place it has come to |
| `ActionsProofs`: `OneDestinationEach` | `OneDestination` | `RowWhole`, `RowDecides`: while an id's row lives, what was sent or accepted for it is what the row names; `HandsOK`, `AcceptedAllowed`: a run past its create found or made that row, and goes on only if it is its own |
| `ActionsProofs`: `EventsExact` | `ChangesPlannedOnce` | `ImageTrue`, `RowCounts`, `StreamTrue`: the history of each image, the row's and those in the stream, holds what happened at the places it counts, and the row counts all of it until it is removed; `NoneMissed`: what happened is planned, or a record in the stream plans it |
| `AttemptsProofs`: `BumpAlwaysTaken` | `BumpIsTaken` | the fees in hand are payable; the rest is arithmetic of `bumpFees` |
| `AttemptsProofs`: `AttemptsHold` and from it `EveryHashLookedUp`, `FillersForCause`, `AnothersForSure` | `AttemptsKept`, `RefusedUnheard`, `OutsideUnknown` | `Kept`: what a row's attempts, its retired hashes and its limits say of each other, of what nodes took and of what they were heard to say; `DenialsHeard`: an attempt is marked refused only by a refusal that was heard; `SweepFits`: the row in hand is submitted and signed; `KnownFits`: nodes know of a block when there is one; `WalkFits`: up to its place a walk has not met the mined hash, if all nodes knew its block when the walk began |

Each of these modules has the type invariants of its components as theorems, too (`ReaderTypes`, `VaultTypes`, `MatchingTypes`,
`SubmitTypes`, `RelaysTypes`, `SignInTypes`, `RulesTypes`, `ListingTypes`, `OutboundTypes`, `EventsTypes`, `PricingTypes`,
`AttemptsTypes`), and `ActionsProofs` puts them together: `ServicesTypes` says `ServicesSpec => []ServicesTypeOK`, since a step of `MCServices` is
one of a single component, or leaves it alone. An idle run of the model holds some request, nonce or wallet, so three of the theorems and this one
assume that there is one (`Requests # {}`, `Nonces # {}`, `Wallets # {}`).

They hold for any number of URLs, logs, requests, overlapping runs, editors, containers, clocks, chains, changes, accounts and
fees, and rest on the assumptions named in each module, which state the kinds of the constants and
the order of the limits. Some say more: a log has one place in its block, and a rule's id is its own (`MatchingAssumption`); hidden rows
are rows (`ListingAssumption`); there is a request id and a destination (`OutboundAssumption`); no run of the route is called `NoCall`
(`RelaysAssumption`). TLC evaluates all of them.

`SpendWithinCap` adds costs up over a set, by a recursive function of the community modules. The prover's induction
theorems take an operator and cannot be used, so `SubmitProofs` does without: a set of
counterexamples to a claim about sets of each size has a least member (`WFMin`), which contradicts the step. So it shows that the
recursion defines a function, that the sum does not depend on the order, and what one more element adds.
The lookups and cursors of the other modules are arguments about a last or least
element in the same way, and need no recursion.

Model-checked only: liveness (`QueueDrains`, `Settles`, `CatchesUp`, `ProvisionalSettles`), which the prover does not reach.
Every other property of a passing run is a theorem.

## 6. Not modelled, and limits

* In `Relayer` a walk is one step that asks for every hash; its slices, its cursor, retired hashes and the
  limits on stored attempts are in `Attempts`, for sweeps that follow one another. A write
  of such fields is a write of the row in `Relayer` (`SaveProgress`), so its conflicts are there.
* Two attempts at the same fees have one hash in the code (and in `Attempts`) and are two signatures in `Relayer`.
* The pause is read once per sweep in the code and once per row here, which allows
  more interleavings, not fewer.
* A reorg deeper than `Confirmations`, a node ahead of the canonical chain, and a
  `findReceipt` that is wrong on every URL are excluded.
* A gap that a dropped transaction of another sender leaves below the counter stays, in the model as in the code; `NoNonceGap` leaves such nonces out.
* Two reorgs that exchange the user of one nonce around the wait of a failing
  transaction are beyond the bounds of `relayer_core`, and outside `Reliable`.
* One signer and chain: rows of different signers share nothing but the table.
* Records that can never succeed (`poison`) and messages that do not parse write
  nothing and are left out. A record that is done and comes again would create
  nothing, and is left out too. So is the expiry of rows after their time to live.
* Receives of a message are not counted: `Backstop` may move it at any time, which
  allows more, not less. A sweep is one row long; its page limit is left out.
* A message whose delivery has a channel without a sender is reported, not
  answered, if its row was overtaken; the model has this as a failure of the run.
* A rule edited between two runs over one record may change its plan.
* `Monitor`: the configured finality depth is taken as the chain's finality. Old match rows are not removed
  by their time to live, and a scan that is more than `FAST_MAX_RANGE` behind leaps, as the code does.
* `Submit`: what the policy, the estimate and the dependency say of a request is a choice.
* `Rules`: two edits that overlap may undo each other, or bring a deleted rule back (the put is unconditional). The model has these edits, but no property
  can hold of them, and `EditsTakeEffect` leaves them out with `overlapped`.
* `ChainReader`: what a pool of nodes serves may lack logs; `WholeRange` says nothing of it.
* `SignIn`: that an expired cookie beside a good key is refused is a guard of one step (`AuthorizeSession`), and no property of its own.
* `Attempts` has sends whose answer is lost, and so has no property that says a refused transaction is in no mempool: it is false (section 4).
* `Relays` has the route and its client, not the queue between: the races of the row itself are in `Delivery`.
* `Pipeline` has the promises of the services, not the services: that a promise is kept is a refinement of its own, and
  that the three may be put side by side, sharing just what `Watch`, `plan` and `SendRelay` name, is read from the code.
  Rules with several actions, events of transactions and a rule's conditions are left out.
* `Outbound`: a row lives for 30 days, and after that its id may be used anew; `OneDestination` holds while it lives.
* `Delivery` takes a put's answer as reliable. A put that was stored, and repeated by the SDK after a lost answer, fails its
  own condition; a sender then takes its own write for another's.
* Orders of smaller weight that no module has: a receipt from a node behind at a first send (`signer.ts:147`); a pause that is set
  anew between a sweep's read of it and its resume (`sweeper.ts:185`); the later messages of a batch that go back with a failed one
  (`batch.ts:46`).
* Not modelled: the rule compiler and its conditions, the KMS signature conversion (pure and without state); rendering of
  bodies; channel senders but `relay` (one call each, whose outcome is a choice in `Delivery`); the cache of signers
  (the code of the rules' cache over another row); reads of single rows; the dashboard's forms; the infrastructure.

## 7. What is left

1. `FailedIsNeverMined` for more reorgs than one, which needs the stamps of a used nonce to say in which block the
   other sender's transaction was.
2. `Pipeline` with the services in place of their promises, which is too large for TLC and would repeat, as a proof, the
   refinements it rests on.
3. The rule compiler and its conditions, as operators over small expressions.
