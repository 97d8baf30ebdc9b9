------------------------------ MODULE Attempts -------------------------------
(***************************************************************************)
(* One submitted transaction of the relayer under the sweeper: the         *)
(* signatures it has sent or may have sent at its nonce, which are limited *)
(* in number, and the walk that asks nodes for a receipt of each, which    *)
(* stops at its slice of a sweep and goes on from a cursor in the next.    *)
(*                                                                         *)
(* Sweeps follow one another (Relayer has those that overlap) and may die  *)
(* before any of their saves; nodes learn of a block one after the other;  *)
(* a block that held the transaction may be given up.                      *)
(***************************************************************************)
EXTENDS Fees, FiniteSets, SequencesExt

CONSTANTS
  Quotes,               \* bound: what estimateFees answers
  Cap,                  \* feeCap(signer.policy)
  MAX_ATTEMPTS, MAX_SIGNED_ATTEMPTS, MAX_STORED_ATTEMPTS, MAX_RETIRED_HASHES,
  MaxBlocks             \* bound: blocks that take the nonce

ASSUME AttemptsAssumption ==
  /\ Quotes \subseteq Fee /\ Quotes # {} /\ Cap \in Fee
  /\ MAX_ATTEMPTS \in Nat \ {0} /\ MAX_RETIRED_HASHES \in Nat
  /\ MAX_SIGNED_ATTEMPTS \in Nat /\ MAX_SIGNED_ATTEMPTS >= MAX_ATTEMPTS
  /\ MAX_STORED_ATTEMPTS \in Nat /\ MAX_STORED_ATTEMPTS >= MAX_SIGNED_ATTEMPTS
  /\ MaxBlocks \in Nat

\* A signature follows from the transaction and its fees, so fees stand for its
\* hash: two attempts at the same fees have the same one.
Stored == [fees : Fee, raw : BOOLEAN, rejected : BOOLEAN, acceptedAt : BOOLEAN]

NoHash == [maxFeePerGas |-> -1, maxPriorityFeePerGas |-> -1]
Outside == [maxFeePerGas |-> -2, maxPriorityFeePerGas |-> -2]  \* another's

Walks == {"none", "receipts", "all-urls"}

TxState == [status : {"submitted", "mined", "refused", "outside"},
            attempts : Seq(Stored), retired : Seq(Fee), retiredAccepted : BOOLEAN,
            nonceUsed : BOOLEAN,                    \* nonceUsedAtBlock, nonceUsedAt
            walk : Walks, index : Nat,              \* lookupFrom
            minedHash : Fee \cup {NoHash}]

\* A sweep's local state: its walk, the place it began at, the next one,
\* and whether the nonce has read as used.
Sweep == [pc : {"idle", "walk", "nonce", "act", "send"},
          walk : Walks, from : Nat, index : Nat, used : BOOLEAN]

VARIABLES
  record,    \* the stored transaction
  sweep,
  ripe,      \* the nonce has read as used for long enough
  nodes,     \* hold : hashes that some node took; history: acked : those that a
             \* node was heard to have, denied : those that one was heard to refuse
  onChain,   \* the hash that used the nonce, Outside or NoHash
  known,     \* who knows of that block: "none", "some" or "all" nodes
  walkKnown, \* history: "all" did already when the present walk began
  checkKnown,\* history: "all" did already when its last look at the stored
             \* attempts began
  blocks     \* counter of the bounded blocks

attemptsVars == <<record, sweep, ripe, nodes, onChain, known, walkKnown, checkKnown, blocks>>
chainState == <<onChain, known, blocks>>
knowledge == <<walkKnown, checkKnown>>

NotSweeping == [pc |-> "idle", walk |-> "none", from |-> 0, index |-> 0, used |-> FALSE]

Signature(fees) == [fees |-> fees, raw |-> TRUE, rejected |-> FALSE, acceptedAt |-> FALSE]

Told == [hold : SUBSET Fee, acked : SUBSET Fee, denied : SUBSET Fee]

\* The signer sent the first signature, or died before it did or before it saved
\* the answer; an answer it could not read counts as one that a node took it.
AttemptsInit ==
  /\ \E q \in Quotes, sent, heard \in BOOLEAN :
       LET first == [Signature(clampFees(q, Cap)) EXCEPT !.acceptedAt = heard]
           hash(said) == IF said THEN {first.fees} ELSE {}
       IN /\ record = [status |-> "submitted", attempts |-> <<first>>, retired |-> << >>,
                       retiredAccepted |-> FALSE, nonceUsed |-> FALSE, walk |-> "none", index |-> 0,
                       minedHash |-> NoHash]
          /\ nodes = [hold |-> hash(sent), acked |-> hash(heard), denied |-> {}]
  /\ sweep = NotSweeping
  /\ ripe = FALSE
  /\ onChain = NoHash /\ known = "none"
  /\ walkKnown = FALSE /\ checkKnown = FALSE
  /\ blocks = 0

(***************************************************************************)
(* Nodes and time                                                          *)
(***************************************************************************)
UseNonce ==
  /\ onChain = NoHash /\ blocks < MaxBlocks
  /\ blocks' = blocks + 1
  /\ \E h \in nodes.hold \cup {Outside} : onChain' = h
  /\ known' = "some"
  /\ UNCHANGED <<record, sweep, ripe, nodes, walkKnown, checkKnown>>

AllLearn ==
  /\ known = "some"
  /\ known' = "all"
  /\ UNCHANGED <<record, sweep, ripe, nodes, onChain, walkKnown, checkKnown, blocks>>

GiveUpBlock ==
  /\ onChain # NoHash /\ record.status \in {"submitted", "mined"}
  /\ onChain' = NoHash /\ known' = "none"
  /\ walkKnown' = FALSE /\ checkKnown' = FALSE
  /\ UNCHANGED <<record, sweep, ripe, nodes, blocks>>

\* Confirmations and nonceUsedMinAgeMs after nonceUsedAtBlock and nonceUsedAt.
Ripen ==
  /\ record.nonceUsed /\ ~ripe
  /\ ripe' = TRUE
  /\ UNCHANGED <<record, sweep, nodes, chainState, knowledge>>

(***************************************************************************)
(* The walk over the hashes                                                *)
(***************************************************************************)
Hashes(tx) == {tx.attempts[i].fees : i \in DOMAIN tx.attempts} \cup ToSet(tx.retired)

NewestFirst(tx) == Reverse([i \in DOMAIN tx.attempts |-> tx.attempts[i].fees])

receiptHashes(tx) == NewestFirst(tx) \o Reverse(tx.retired)

\* A walk that was resumed ends with the stored attempts once more.
Asks(tx, from) == receiptHashes(tx) \o (IF from > 0 THEN NewestFirst(tx) ELSE << >>)

Goes(s) == sweep' = s
Ended == Goes(NotSweeping)
withoutLookup(tx) == [tx EXCEPT !.walk = "none", !.index = 0]
NoWait(tx) == [withoutLookup(tx) EXCEPT !.nonceUsed = FALSE]

CursorOf(tx, walk) == IF tx.walk = walk THEN tx.index ELSE 0

StartSweep ==
  /\ sweep.pc = "idle" /\ record.status = "submitted"
  /\ LET walk == IF ripe THEN "all-urls" ELSE "receipts"
         from == CursorOf(record, walk)
     IN /\ Goes([pc |-> IF ripe THEN "nonce" ELSE "walk", walk |-> walk,
                 from |-> from, index |-> from, used |-> FALSE])
        /\ walkKnown' = IF walk = "all-urls" /\ record.walk = walk /\ record.index > 0
                        THEN walkKnown ELSE known = "all"
        /\ checkKnown' = IF walk = "all-urls" /\ record.walk = walk
                            /\ record.index > Len(receiptHashes(record))
                         THEN checkKnown ELSE known = "all"
  /\ UNCHANGED <<record, ripe, nodes, chainState>>

\* How far a walk goes before the sweep does something else.
Reach == IF sweep.walk = "all-urls" THEN Len(Asks(record, sweep.from))
         ELSE IF sweep.used THEN Len(receiptHashes(record)) ELSE Len(record.attempts)

Asked == Asks(record, sweep.from)[sweep.index + 1]

\* A copy that a node took counts for every copy.
MarkTaken(attempts, hash) ==
  [i \in DOMAIN attempts |-> IF attempts[i].fees = hash
                             THEN [attempts[i] EXCEPT !.acceptedAt = TRUE] ELSE attempts[i]]

\* markMined; the block may be one that nodes go on to give up.
AskFound ==
  /\ sweep.pc = "walk" /\ sweep.index < Reach
  /\ onChain = Asked /\ known # "none"
  /\ record' = [withoutLookup(record) EXCEPT
       !.status = "mined", !.minedHash = Asked, !.nonceUsed = FALSE,
       !.attempts = MarkTaken(@, Asked),
       !.retiredAccepted = @ \/ Asked \notin ToSet(NewestFirst(record))]
  /\ nodes' = [nodes EXCEPT !.acked = @ \cup {Asked}]
  /\ ripe' = FALSE
  /\ Ended
  /\ UNCHANGED <<chainState, knowledge>>

AskNothing ==
  /\ sweep.pc = "walk" /\ sweep.index < Reach
  /\ ~(onChain = Asked /\ known = "all")
  /\ Goes([sweep EXCEPT !.index = @ + 1])
  /\ UNCHANGED <<record, ripe, nodes, chainState, knowledge>>

\* Mutant: the hash that was not asked for any more is skipped.
StopsAfter(s) == s.index + 1

StopsAt(s) == s.index

\* stopLookup, at the deadline of the slice; an unanswered URL ends it unsaved.
StopWalk ==
  /\ sweep.pc = "walk" /\ sweep.index < Reach
  /\ \/ record' = [record EXCEPT !.walk = sweep.walk, !.index = StopsAt(sweep)]
     \/ sweep.walk = "all-urls" /\ UNCHANGED record
  /\ Ended
  /\ UNCHANGED <<ripe, nodes, chainState, knowledge>>

\* The stored attempts have no receipt; then the nonce is asked for.
AttemptsAsked ==
  /\ sweep.pc = "walk" /\ sweep.walk = "receipts" /\ ~sweep.used /\ sweep.index >= Reach
  /\ Goes([sweep EXCEPT !.pc = "nonce"])
  /\ UNCHANGED <<record, ripe, nodes, chainState, knowledge>>

NonceRead ==
  /\ sweep.pc = "nonce" /\ onChain # NoHash /\ known # "none"
  /\ Goes([sweep EXCEPT !.pc = "walk", !.used = TRUE])
  /\ UNCHANGED <<record, ripe, nodes, chainState, knowledge>>

\* The node that read the nonce as used was ahead, or this one is behind.
NonceUnread ==
  /\ sweep.pc = "nonce" /\ known # "all"
  /\ record' = NoWait(record)
  /\ ripe' = FALSE
  /\ Goes([sweep EXCEPT !.pc = "act"])
  /\ UNCHANGED <<nodes, chainState, knowledge>>

\* Used, and by none of our hashes: the wait begins, or the walk does again.
ReceiptsAsked ==
  /\ sweep.pc = "walk" /\ sweep.walk = "receipts" /\ sweep.used /\ sweep.index >= Reach
  /\ record' = [withoutLookup(record) EXCEPT !.nonceUsed = TRUE]
  /\ Ended
  /\ UNCHANGED <<ripe, nodes, chainState, knowledge>>

FailAsUsed ==
  /\ sweep.pc = "walk" /\ sweep.walk = "all-urls" /\ sweep.index >= Reach
  /\ record' = [withoutLookup(record) EXCEPT !.status = "outside"]
  /\ Ended
  /\ UNCHANGED <<ripe, nodes, chainState, knowledge>>

(***************************************************************************)
(* Signing anew and sending again                                          *)
(***************************************************************************)
Rejected(tx) == {i \in DOMAIN tx.attempts : tx.attempts[i].rejected}
Unrefused(tx) == DOMAIN tx.attempts \ Rejected(tx)
Newest(S) == CHOOSE i \in S : \A j \in S : j <= i
Oldest(S) == CHOOSE i \in S : \A j \in S : i <= j

atCap(fees) ==
  \/ fees.maxFeePerGas >= Cap.maxFeePerGas
  \/ fees.maxPriorityFeePerGas >= Cap.maxPriorityFeePerGas

\* The flags that are for a log line or for an earlier replacement alone
\* (needsBump, feeCapReached, retiredHashesFull) are left out: whether an attempt
\* is stuck is open anyway.

\* Refusals that say something about these fees still.
refusedAtOrAbove(tx, fees) ==
  {i \in Rejected(tx) : /\ ~raises(fees, tx.attempts[i].fees)
                        /\ atCap(fees) \/ ~atCap(tx.attempts[i].fees)}

Highest(tx, S) ==
  CHOOSE i \in S : \A j \in S :
    \/ tx.attempts[i].fees.maxFeePerGas > tx.attempts[j].fees.maxFeePerGas
    \/ /\ tx.attempts[i].fees.maxFeePerGas = tx.attempts[j].fees.maxFeePerGas
       /\ tx.attempts[i].fees.maxPriorityFeePerGas >= tx.attempts[j].fees.maxPriorityFeePerGas

\* What may make room: a refused attempt, one without its bytes before others.
dropIndex(tx) ==
  LET stripped == {i \in Rejected(tx) : ~tx.attempts[i].raw}
      from == IF stripped # {} THEN stripped ELSE Rejected(tx)
  IN IF from = {} THEN {} ELSE {Oldest(from)}

\* Mutant: a dropped attempt takes its hash with it.
RetiredForgotten(tx, gone) == tx.retired

Retired(tx, gone) ==
  LET hash == tx.attempts[gone].fees
      twin == \E i \in DOMAIN tx.attempts \ {gone} : tx.attempts[i].fees = hash
  IN IF twin \/ hash \in ToSet(tx.retired) THEN tx.retired ELSE Append(tx.retired, hash)

\* Mutant: that a node took the dropped attempt is forgotten.
AcceptedForgotten(tx, gone) == tx.retiredAccepted

AcceptedKept(tx, gone) == tx.retiredAccepted \/ tx.attempts[gone].acceptedAt

Dropped(tx, gone) ==
  [tx EXCEPT !.attempts = RemoveAt(@, gone), !.retired = Retired(tx, gone),
             !.retiredAccepted = AcceptedKept(tx, gone)]

StripCount(attempts) == Cardinality({i \in DOMAIN attempts : attempts[i].raw}) + 1 - MAX_SIGNED_ATTEMPTS

\* The oldest refused attempts give up their bytes.
makeRoom(attempts) ==
  LET held == {i \in DOMAIN attempts : attempts[i].raw /\ attempts[i].rejected}
  IN [i \in DOMAIN attempts |->
        IF i \in held /\ Cardinality({j \in held : j < i}) < StripCount(attempts)
        THEN [attempts[i] EXCEPT !.raw = FALSE] ELSE attempts[i]]

SignNew(tx, fees) ==
  LET full == Len(tx.attempts) >= MAX_STORED_ATTEMPTS
      gone == dropIndex(tx)
      sign(kept) == /\ record' = [kept EXCEPT !.attempts = Append(makeRoom(@), Signature(fees))]
                    /\ Goes([sweep EXCEPT !.pc = "send"])
  IN IF ~full THEN sign(tx)
     ELSE IF gone = {} \/ Len(tx.retired) >= MAX_RETIRED_HASHES THEN UNCHANGED record /\ Ended
     ELSE \E i \in gone : sign(Dropped(tx, i))

Acting == sweep.pc = "act" /\ UNCHANGED <<ripe, chainState, knowledge>>

\* replace, while an attempt may be in a mempool: it is outbid.
ReplaceLive ==
  /\ Acting /\ Unrefused(record) # {} /\ UNCHANGED nodes
  /\ \E q \in Quotes :
       LET live == record.attempts[Newest(Unrefused(record))]
           latest == Last(record.attempts)
           first == bumpFees(live.fees, q, Cap)
           bump == IF first.ok /\ latest # live /\ ~raises(first.fees, latest.fees)
                   THEN bumpFees(latest.fees, q, Cap) ELSE first
       IN IF ~bump.ok \/ Cardinality(Unrefused(record)) >= MAX_ATTEMPTS
          THEN UNCHANGED record /\ Ended
          ELSE SignNew(record, bump.fees)

\* replace, once every attempt was refused: stored bytes go out again where a
\* new signature could say no more than they do.
ReplaceRefused ==
  /\ Acting /\ Unrefused(record) = {}
  /\ \E q \in Quotes :
       LET fees == clampFees(q, Cap)
           blocking == refusedAtOrAbove(record, fees)
       IN /\ \A i \in blocking : ~record.attempts[i].raw
          /\ SignNew(record, IF blocking = {} THEN fees
                             ELSE clampFees(record.attempts[Highest(record, blocking)].fees, Cap))
  /\ UNCHANGED nodes

\* refuseAttempt fails the transaction, with a filler, if no node can have it.
MayBeMined(tx, hash) ==
  \/ tx.retiredAccepted
  \/ \E i \in DOMAIN tx.attempts :
       tx.attempts[i].acceptedAt \/ (~tx.attempts[i].rejected /\ tx.attempts[i].fees # hash)

MarkRefused(tx, hash) ==
  [tx EXCEPT !.attempts = [i \in DOMAIN tx.attempts |->
     IF tx.attempts[i].fees = hash THEN [tx.attempts[i] EXCEPT !.rejected = TRUE]
     ELSE tx.attempts[i]]]

\* The bytes of attempt i of tx go out, in several tries, and what a node answers
\* is saved.  An answer may be lost, with a try that times out or with a run that
\* dies before it saves: a node may hold what no answer speaks of.
Sends(tx, i, again) ==
  LET a == tx.attempts[i]
      revived == [k \in DOMAIN tx.attempts |->
                    IF tx.attempts[k].fees = a.fees /\ tx.attempts[k].raw = a.raw
                    THEN [tx.attempts[k] EXCEPT !.rejected = FALSE] ELSE tx.attempts[k]]
      ok == IF again /\ ~a.rejected /\ a.acceptedAt THEN tx
            ELSE [tx EXCEPT !.attempts = MarkTaken(IF again /\ a.rejected THEN revived ELSE @, a.fees)]
      refused == IF MayBeMined(tx, a.fees) THEN MarkRefused(tx, a.fees)
                 ELSE [MarkRefused(tx, a.fees) EXCEPT !.status = "refused"]
  IN /\ Ended
     /\ \E hold \in {nodes.hold, nodes.hold \cup {a.fees}} :
          \/ record' = ok /\ nodes' = [nodes EXCEPT !.hold = hold, !.acked = @ \cup {a.fees}]
          \/ /\ record' \in {refused} \cup (IF again THEN {} ELSE {MarkRefused(tx, a.fees)})
             /\ nodes' = [nodes EXCEPT !.hold = hold, !.denied = @ \cup {a.fees}]
          \/ record' = tx /\ nodes' = [nodes EXCEPT !.hold = hold]

RebroadcastRefused ==
  /\ Acting /\ Unrefused(record) = {}
  /\ \E q \in Quotes :
       LET bytes == {i \in refusedAtOrAbove(record, clampFees(q, Cap)) : record.attempts[i].raw}
       IN bytes # {} /\ Sends(record, Highest(record, bytes), TRUE)

\* A node may have forgotten the live attempt, or never have been sent it.
RebroadcastLive ==
  /\ Acting /\ Unrefused(record) # {}
  /\ Sends(record, Newest(Unrefused(record)), TRUE)

SendNew ==
  /\ sweep.pc = "send"
  /\ Sends(record, Len(record.attempts), FALSE)
  /\ UNCHANGED <<ripe, chainState, knowledge>>

\* checkMined finds the block given up: the bytes go out again, if they are held
\* and the sweep does not die before.
SendBack ==
  /\ sweep.pc = "idle" /\ record.status = "mined" /\ onChain # record.minedHash
  /\ LET tx == [record EXCEPT !.status = "submitted", !.minedHash = NoHash]
         held == {i \in DOMAIN tx.attempts : tx.attempts[i].fees = record.minedHash
                                             /\ tx.attempts[i].raw}
     IN \/ record' = tx /\ UNCHANGED <<sweep, nodes>>
        \/ held # {} /\ Sends(tx, Oldest(held), TRUE)
  /\ UNCHANGED <<ripe, chainState, knowledge>>

\* Nothing is due, or the sweep dies.
SweepEnds ==
  /\ sweep.pc # "idle"
  /\ Ended
  /\ UNCHANGED <<record, ripe, nodes, chainState, knowledge>>

AttemptsNext ==
  \/ UseNonce \/ AllLearn \/ GiveUpBlock \/ Ripen
  \/ StartSweep \/ AskFound \/ AskNothing \/ StopWalk \/ AttemptsAsked
  \/ NonceRead \/ NonceUnread \/ ReceiptsAsked \/ FailAsUsed
  \/ ReplaceLive \/ ReplaceRefused \/ RebroadcastRefused \/ RebroadcastLive
  \/ SendNew \/ SendBack \/ SweepEnds

AttemptsSpec == AttemptsInit /\ [][AttemptsNext]_attemptsVars

(***************************************************************************)
(* Properties                                                              *)
(***************************************************************************)
AttemptsTypeOK ==
  /\ record \in TxState /\ sweep \in Sweep
  /\ ripe \in BOOLEAN
  /\ nodes \in Told
  /\ onChain \in Fee \cup {NoHash, Outside}
  /\ known \in {"none", "some", "all"}
  /\ walkKnown \in BOOLEAN /\ checkKnown \in BOOLEAN
  /\ blocks \in Nat

\* Every hash that a node may have is looked up for receipts, although attempts
\* were dropped to make room; no attempt that may be in a mempool was dropped or
\* lost its bytes, and the item stays within its limits (sweeper.ts:460-470).
AttemptsKept ==
  /\ nodes.hold \subseteq Hashes(record)
  /\ \A i \in Unrefused(record) : record.attempts[i].raw
  /\ Len(record.attempts) <= MAX_STORED_ATTEMPTS
  /\ Len(record.retired) <= MAX_RETIRED_HASHES
  /\ Cardinality({i \in DOMAIN record.attempts : record.attempts[i].raw}) <= MAX_SIGNED_ATTEMPTS

\* A transaction that is given up for a filler is one of which no node was ever
\* heard to have a signature, in a mempool or a block, dropped attempts included;
\* and if a node holds one all the same, by a send whose answer was lost, then a
\* node was also heard to refuse that very one (refusal.ts:29-35).  That none holds
\* any, as refusal.ts:7-10 says, is not so: see Relayer's FailedNeverMined.
RefusedUnheard ==
  record.status = "refused" => nodes.acked = {} /\ nodes.hold \subseteq nodes.denied

\* A transaction that is given up for another's was not mined as far as all nodes
\* knew when the walk that gave it up began, in however many sweeps, nor as any
\* stored attempt when that walk last turned to those (sweeper.ts:308-319).
OutsideUnknown ==
  record.status = "outside" =>
    /\ walkKnown => onChain \notin Hashes(record)
    /\ checkKnown => \A i \in DOMAIN record.attempts : record.attempts[i].fees # onChain
=============================================================================
