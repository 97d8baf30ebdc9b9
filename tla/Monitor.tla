------------------------------ MODULE Monitor -------------------------------
(***************************************************************************)
(* The monitor of one chain: a scheduled run takes the chain's lease,      *)
(* reads the rules, the head and the finalized block, and then scans       *)
(* twice.  The durable scan reads finalized blocks only, writes their      *)
(* matches as final and moves the cursor after them, chunk by chunk.  The  *)
(* fast scan reads up to the head and writes provisional matches, which    *)
(* the durable scan later makes final and a drop gives up.                 *)
(*                                                                         *)
(* Nodes lag behind the chain, refuse ranges and fail; blocks above the    *)
(* finalized one are reorganised; a run may end before any of its calls,   *)
(* and outlive its lease.                                                  *)
(***************************************************************************)
EXTENDS Integers, FiniteSets

CONSTANTS
  Runs,              \* monitor invocations that may overlap
  NoOne,             \* the owner of a free lease
  Txs,               \* transactions with logs
  Rules,
  FastRules,         \* rules with confirmation mode "fast"
  Switched,          \* rules that operators turn off and on
  Hits,              \* matches: pairs of a transaction and a rule its logs match
  StartBlock,        \* START_BLOCK, or NoBlock
  NoBlock,
  MaxRange,          \* MAX_RANGE
  FAST_OVERLAP, FAST_MAX_RANGE, DROP_AFTER_BLOCKS,
  MaxHead,           \* bound: the chain's height
  MaxReorgs,         \* bound: reorganisations
  MaxFaults          \* bound: answers of a node that is behind, requests refused,
                     \* runs cut short or outliving their lease, rules switched

Blocks == 0..MaxHead

ASSUME RulesAssumption ==
  /\ FastRules \subseteq Rules
  /\ Switched \subseteq Rules
  /\ Hits \subseteq Txs \X Rules

ASSUME RunsAssumption == NoOne \notin Runs

ASSUME BlocksAssumption ==
  /\ NoBlock \notin Int
  /\ StartBlock \in Nat \cup {NoBlock}
  /\ MaxRange \in Nat \ {0}
  /\ FAST_OVERLAP \in Nat /\ FAST_MAX_RANGE \in Nat /\ DROP_AFTER_BLOCKS \in Nat
  /\ MaxHead \in Nat /\ MaxReorgs \in Nat /\ MaxFaults \in Nat

Row == [status : {"none", "provisional", "final", "dropped"}, block : Nat]
Cursor == [durable : Nat, fast : Nat]
NoCursor == [durable |-> 0, fast |-> 0]

PC == {"idle", "cursor", "create",
       "range", "final", "skip",                \* durable scan
       "drop", "dropping",
       "lower", "fastread", "fastwrite", "fastsave",
       "release"}

\* One run's local state.  A version is only ever compared with the stored
\* one: `fresh` says whether `cur` is still what the table holds.
Run == [pc : PC,
        rules : SUBSET Rules,
        head : Nat,                  \* as a node answered it
        fin : Nat \cup {NoBlock},    \* finalized, NoBlock if unavailable
        cur : Cursor, fresh : BOOLEAN,
        to : Nat,                    \* end of the range that is read next
        ends : SUBSET Nat,           \* ends of the ranges after it, once halved
        split : {"no", "refused", "halved"},
        span : Nat, ceiling : Nat, fitted : Nat \cup {NoBlock},
        pending : SUBSET (Hits \X Nat),  \* matches read and not yet written
        from : Nat, reached : Nat]   \* fast scan

Idle == [pc |-> "idle", rules |-> {}, head |-> 0, fin |-> NoBlock, cur |-> NoCursor,
         fresh |-> FALSE, to |-> 0, ends |-> {}, split |-> "no", span |-> MaxRange,
         ceiling |-> MaxRange, fitted |-> NoBlock, pending |-> {}, from |-> 0, reached |-> 0]

VARIABLES
  head, finalized,  \* the chain's height and its last finalized block
  where,            \* [Txs -> block], 0 while a transaction is in no block
  active,           \* rules that are turned on
  lease,            \* the lease row: its owner, or NoOne
  created, cursor,  \* the cursor row
  match,            \* [Hits -> Row]
  run,              \* [Runs -> Run]
  origin,           \* history: the durable block the cursor was created at
  missed,           \* history: rules and blocks that the cursor passed in a run
                    \* that had loaded its rules without them
  lagged,           \* history: whether a node that is behind was asked
  reorgs, faults    \* bounded counters

chainVars == <<head, finalized, where, reorgs>>
vars == <<head, finalized, where, active, lease, created, cursor, match, run,
          origin, missed, reorgs, lagged, faults>>

Init ==
  /\ head = 1 /\ finalized = 0
  /\ where \in [Txs -> {0, 1}]
  /\ active = Rules
  /\ lease = NoOne
  /\ created = FALSE /\ cursor = NoCursor
  /\ match = [m \in Hits |-> [status |-> "none", block |-> 0]]
  /\ run = [p \in Runs |-> Idle]
  /\ origin = 0 /\ missed = {}
  /\ lagged = FALSE
  /\ reorgs = 0 /\ faults = 0

Fault == faults < MaxFaults /\ faults' = faults + 1
Lag == Fault /\ lagged' = TRUE

Least(S) == CHOOSE x \in S : \A y \in S : x <= y
Smaller(a, b) == IF a <= b THEN a ELSE b
Larger(a, b) == IF a >= b THEN a ELSE b

(***************************************************************************)
(* The chain and the operators of the rules                                *)
(***************************************************************************)
Mine ==
  /\ head < MaxHead
  /\ head' = head + 1
  /\ \E S \in SUBSET {t \in Txs : where[t] = 0} :
       where' = [t \in Txs |-> IF t \in S THEN head + 1 ELSE where[t]]
  /\ UNCHANGED <<finalized, active, lease, created, cursor, match, run, origin, missed,
                 reorgs, lagged, faults>>

Finalize ==
  /\ \E b \in finalized + 1 .. head : finalized' = b
  /\ UNCHANGED <<head, where, active, lease, created, cursor, match, run, origin, missed,
                 reorgs, lagged, faults>>

\* The blocks above one that is final, or newer, are replaced by as many.
Reorg ==
  /\ reorgs < MaxReorgs
  /\ \E keep \in finalized .. head - 1 :
       LET loose == {t \in Txs : where[t] = 0 \/ where[t] > keep}
       IN \E again \in [loose -> {0} \cup (keep + 1 .. head)] :
            where' = [t \in Txs |-> IF t \in loose THEN again[t] ELSE where[t]]
  /\ reorgs' = reorgs + 1
  /\ UNCHANGED <<head, finalized, active, lease, created, cursor, match, run, origin, missed,
                 lagged, faults>>

Switch(r) ==
  /\ r \in Switched
  /\ Fault
  /\ active' = IF r \in active THEN active \ {r} ELSE active \cup {r}
  /\ UNCHANGED <<head, finalized, where, lease, created, cursor, match, run, origin, missed,
                 reorgs, lagged>>

(***************************************************************************)
(* Where a run goes next: its local steps between two calls                *)
(***************************************************************************)
\* Mutant: an overlap that reaches below the durable cursor.
FastStartUnbounded(r) == r.cur.fast - FAST_OVERLAP

FastStart(r) == LET from == Larger(r.cur.durable, r.cur.fast - FAST_OVERLAP)
                IN IF r.head - from > FAST_MAX_RANGE THEN r.head - FAST_MAX_RANGE ELSE from

\* A part of a run that is over leaves nothing behind but what the next one uses.
Ending == [Idle EXCEPT !.pc = "release"]

ToFast(r) ==
  LET from == FastStart(r)
      at(pc) == [Idle EXCEPT !.pc = pc, !.rules = r.rules \cap FastRules, !.head = r.head,
                             !.cur = r.cur, !.fresh = r.fresh, !.from = from, !.reached = from]
  IN CASE r.rules \cap FastRules = {} -> Ending
       [] r.rules \cap FastRules # {} /\ r.head < r.cur.fast -> at("lower")
       [] r.rules \cap FastRules # {} /\ r.head >= r.cur.fast ->
            IF from < r.head THEN at("fastread") ELSE Ending

ToDrop(r) ==
  IF r.fin # NoBlock /\ r.cur.durable >= DROP_AFTER_BLOCKS
  THEN [Idle EXCEPT !.pc = "drop", !.rules = r.rules, !.head = r.head,
                    !.cur = r.cur, !.fresh = r.fresh]
  ELSE ToFast(r)

\* Mutant: one block too few.
BehindByTwo(r) == r.fin # NoBlock /\ r.cur.durable + 1 < r.fin

Behind(r) == r.fin # NoBlock /\ r.cur.durable < r.fin

\* The head of the durable loop.
ToDurable(r) ==
  IF ~Behind(r) THEN ToDrop(r)
  ELSE IF r.rules = {} THEN [r EXCEPT !.pc = "skip"]
  ELSE [r EXCEPT !.pc = "range", !.to = Smaller(r.fin, r.cur.durable + r.span),
                 !.ends = {}, !.split = "no"]

Step(p, r) == run' = [run EXCEPT ![p] = r]

SaveCursor(p, next, r) ==
  /\ run[p].fresh
  /\ cursor' = next
  /\ run' = [q \in Runs |-> IF q = p THEN r
                            ELSE [run[q] EXCEPT !.fresh = FALSE]]

Saved(p, next) == [run[p] EXCEPT !.cur = next, !.fresh = TRUE]

\* CursorConflictError: the run ends as a conflict.
Conflict(p) ==
  /\ run[p].pc \in {"create", "final", "skip", "lower", "fastsave"}
  /\ ~run[p].fresh
  /\ (run[p].pc \in {"final", "fastsave"} => run[p].pending = {})
  /\ Step(p, Ending)
  /\ UNCHANGED <<chainVars, active, lease, created, cursor, match, origin, missed, lagged, faults>>

(***************************************************************************)
(* A run begins                                                            *)
(***************************************************************************)
\* What getFinalized may answer, from a node that may be behind.
FinalizedAnswers == (0 .. finalized) \cup {NoBlock}

\* acquireLease, loadRules, getHead and getFinalized.
Begin(p) ==
  /\ run[p].pc = "idle"
  /\ lease = NoOne
  /\ lease' = p
  /\ \E h \in 0 .. head, f \in FinalizedAnswers :
       /\ IF h = head /\ f = finalized THEN UNCHANGED <<lagged, faults>> ELSE Lag
       /\ Step(p, [Idle EXCEPT !.pc = "cursor", !.rules = active, !.head = h, !.fin = f])
  /\ UNCHANGED <<chainVars, active, created, cursor, match, origin, missed>>

\* getCursor, and where a chain without one starts.
ReadCursor(p) ==
  /\ run[p].pc = "cursor"
  /\ LET r == run[p]
         at(d, f) == [r EXCEPT !.cur = [durable |-> d, fast |-> f], !.fresh = TRUE]
     IN Step(p, IF created THEN ToDurable(at(cursor.durable, cursor.fast))
                ELSE IF StartBlock # NoBlock
                THEN [at(StartBlock, StartBlock) EXCEPT !.pc = "create"]
                ELSE IF r.fin # NoBlock
                THEN [at(r.fin, r.head) EXCEPT !.pc = "create"]
                ELSE Ending)
  /\ UNCHANGED <<chainVars, active, lease, created, cursor, match, origin, missed, lagged, faults>>

Create(p) ==
  /\ run[p].pc = "create"
  /\ SaveCursor(p, run[p].cur, ToDurable(run[p]))
  /\ created' = TRUE
  /\ origin' = run[p].cur.durable
  /\ UNCHANGED <<chainVars, active, lease, match, missed, lagged, faults>>

(***************************************************************************)
(* The durable scan                                                        *)
(***************************************************************************)
\* The matches of the blocks from .. to that a node at block v has, each with
\* its block.
Found(rules, from, to, v) ==
  {w \in Hits \X (from .. Smaller(to, v)) : where[w[1][1]] = w[2] /\ w[1][2] \in rules}

\* Mutant: fewer logs instead of an error, from a node that is behind.
ReadWholeUnchecked(p) ==
  /\ run[p].pc = "range"
  /\ \E v \in {run[p].to - 1, head} :
       Step(p, [run[p] EXCEPT !.pc = "final",
                  !.pending = Found(run[p].rules, run[p].cur.durable + 1, run[p].to, v)])
  /\ UNCHANGED <<chainVars, active, lease, created, cursor, match, origin, missed, lagged, faults>>

\* readFinalRange: a whole range, from a node whose head is past it.
ReadWhole(p) ==
  /\ run[p].pc = "range"
  /\ Step(p, [run[p] EXCEPT !.pc = "final",
                !.pending = Found(run[p].rules, run[p].cur.durable + 1, run[p].to, head)])
  /\ UNCHANGED <<chainVars, active, lease, created, cursor, match, origin, missed, lagged, faults>>

\* LaggingNodeError: the durable scan ends, the run goes on.
ReadLagging(p) ==
  /\ run[p].pc = "range"
  /\ Lag
  /\ Step(p, ToDrop(run[p]))
  /\ UNCHANGED <<chainVars, active, lease, created, cursor, match, origin, missed>>

\* A refused range is walked as its halves.
ReadRefused(p) ==
  LET r == run[p]
      mid == (r.cur.durable + 1 + r.to) \div 2
  IN /\ r.pc = "range"
     /\ r.cur.durable + 1 < r.to
     /\ Fault
     /\ Step(p, [r EXCEPT !.to = mid, !.ends = r.ends \cup {r.to},
                          !.split = IF r.split = "no" THEN "refused" ELSE r.split])
     /\ UNCHANGED <<chainVars, active, lease, created, cursor, match, origin, missed, lagged>>

WriteFinal(p) ==
  /\ run[p].pc = "final"
  /\ \E w \in run[p].pending :
       /\ match' = [match EXCEPT ![w[1]] = IF @.status = "final" THEN @
                                           ELSE [status |-> "final", block |-> w[2]]]
       /\ Step(p, [run[p] EXCEPT !.pending = @ \ {w}])
  /\ UNCHANGED <<chainVars, active, lease, created, cursor, origin, missed, lagged, faults>>

\* How the size of the next range follows from the one just read.
Resized(r) ==
  LET size == r.to - r.cur.durable
      ceiling == IF r.split = "refused" /\ r.fitted # NoBlock
                 THEN Smaller(r.ceiling, r.fitted) ELSE r.ceiling
  IN IF r.split = "no"
     THEN [r EXCEPT !.span = Smaller(r.ceiling, r.span * 2), !.fitted = size]
     ELSE [r EXCEPT !.span = size, !.ceiling = ceiling, !.split = "halved", !.fitted = size]

\* The cursor moves only once all matches of the chunk are written.
ChunkWritten(p) == run[p].pc = "final" /\ run[p].pending = {}

Missed(r, to) == missed \cup ((Rules \ r.rules) \X (r.cur.durable + 1 .. to))

SaveChunk(p) ==
  /\ ChunkWritten(p)
  /\ missed' = Missed(run[p], run[p].to)
  /\ LET r == Resized(run[p])
         next == [run[p].cur EXCEPT !.durable = run[p].to]
         at == [r EXCEPT !.cur = next, !.pending = {}]
     IN SaveCursor(p, next,
          IF r.ends = {} THEN ToDurable(at)
          ELSE [at EXCEPT !.pc = "range", !.to = Least(r.ends), !.ends = @ \ {Least(r.ends)}])
  /\ UNCHANGED <<chainVars, active, lease, created, match, origin, lagged, faults>>

\* Without a rule there is nothing to read, and one write moves the cursor.
SkipAhead(p) ==
  /\ run[p].pc = "skip"
  /\ missed' = Missed(run[p], run[p].fin)
  /\ LET next == [run[p].cur EXCEPT !.durable = run[p].fin]
     IN SaveCursor(p, next, ToDurable(Saved(p, next)))
  /\ UNCHANGED <<chainVars, active, lease, created, match, origin, lagged, faults>>

\* Mutant: one block less.
StaleBelow(durable) ==
  {w \in Hits \X (0 .. durable - DROP_AFTER_BLOCKS - 1) :
     match[w[1]] = [status |-> "provisional", block |-> w[2]]}

Stale(durable) ==
  {w \in Hits \X (0 .. durable - DROP_AFTER_BLOCKS) :
     match[w[1]] = [status |-> "provisional", block |-> w[2]]}

\* dropStaleProvisional: the query of the index of provisional matches.
QueryStale(p) ==
  /\ run[p].pc = "drop"
  /\ LET stale == Stale(run[p].cur.durable)
     IN Step(p, [run[p] EXCEPT !.pc = "dropping", !.pending = stale])
  /\ UNCHANGED <<chainVars, active, lease, created, cursor, match, origin, missed, lagged, faults>>

DroppedRow(row) ==
  IF row.status = "provisional" THEN [row EXCEPT !.status = "dropped"] ELSE row

DropOne(p) ==
  /\ run[p].pc = "dropping"
  /\ \E w \in run[p].pending :
       /\ match' = [match EXCEPT ![w[1]] = DroppedRow(@)]
       /\ Step(p, [run[p] EXCEPT !.pending = @ \ {w}])
  /\ UNCHANGED <<chainVars, active, lease, created, cursor, origin, missed, lagged, faults>>

DropsDone(p) ==
  /\ run[p].pc = "dropping"
  /\ run[p].pending = {}
  /\ Step(p, ToFast(run[p]))
  /\ UNCHANGED <<chainVars, active, lease, created, cursor, match, origin, missed, lagged, faults>>

(***************************************************************************)
(* The fast scan                                                           *)
(***************************************************************************)
\* A head below the fast cursor is saved before anything is read.
LowerFast(p) ==
  /\ run[p].pc = "lower"
  /\ LET next == [run[p].cur EXCEPT !.fast = run[p].head]
     IN SaveCursor(p, next,
          IF run[p].from < run[p].head THEN [Saved(p, next) EXCEPT !.pc = "fastread"]
          ELSE Ending)
  /\ UNCHANGED <<chainVars, active, lease, created, match, origin, missed, lagged, faults>>

ChunkEnd(r) == Smaller(r.head, r.reached + MaxRange)

\* A node that is behind answers with fewer logs, and nothing shows it.
FastRead(p) ==
  /\ run[p].pc = "fastread"
  /\ \E v \in 0 .. head :
       LET r == run[p]
           logs(n) == Found(r.rules, r.reached + 1, ChunkEnd(r), n)
       IN /\ IF logs(v) = logs(head) THEN UNCHANGED <<lagged, faults>> ELSE Lag
          /\ Step(p, [r EXCEPT !.pc = "fastwrite", !.pending = logs(v)])
  /\ UNCHANGED <<chainVars, active, lease, created, cursor, match, origin, missed>>

\* Mutant: a write that only spares what is final.
WriteProvisionalAnyway(p) ==
  /\ run[p].pc = "fastwrite"
  /\ \E w \in run[p].pending :
       /\ match' = [match EXCEPT ![w[1]] = IF @.status = "final" THEN @
                                           ELSE [status |-> "provisional", block |-> w[2]]]
       /\ Step(p, [run[p] EXCEPT !.pending = @ \ {w}])
  /\ UNCHANGED <<chainVars, active, lease, created, cursor, origin, missed, lagged, faults>>

WriteProvisional(p) ==
  /\ run[p].pc = "fastwrite"
  /\ \E w \in run[p].pending :
       /\ match' = [match EXCEPT ![w[1]] = IF @.status # "none" THEN @
                                           ELSE [status |-> "provisional", block |-> w[2]]]
       /\ Step(p, [run[p] EXCEPT !.pending = @ \ {w}])
  /\ UNCHANGED <<chainVars, active, lease, created, cursor, origin, missed, lagged, faults>>

\* Once the scan ends, early or not: the cursor goes up to what was reached.
FastEnded(r) ==
  IF r.reached > r.from /\ r.reached > r.cur.fast THEN [r EXCEPT !.pc = "fastsave"] ELSE Ending

FastChunkDone(p) ==
  /\ run[p].pc = "fastwrite"
  /\ run[p].pending = {}
  /\ LET r == [run[p] EXCEPT !.reached = ChunkEnd(run[p])]
     IN Step(p, IF r.reached < r.head THEN [r EXCEPT !.pc = "fastread"] ELSE FastEnded(r))
  /\ UNCHANGED <<chainVars, active, lease, created, cursor, match, origin, missed, lagged, faults>>

\* Mutant: the cursor is moved to the head, wherever the scan stopped.
FastBlockAtHead(r) == r.head

FastBlock(r) == Larger(r.cur.fast, r.reached)

SaveFast(p) ==
  /\ run[p].pc = "fastsave"
  /\ LET next == [run[p].cur EXCEPT !.fast = FastBlock(run[p])]
     IN SaveCursor(p, next, Ending)
  /\ UNCHANGED <<chainVars, active, lease, created, match, origin, missed, lagged, faults>>

(***************************************************************************)
(* A run ends                                                              *)
(***************************************************************************)
\* releaseLease deletes the lease row only while this run owns it.
Release(p) ==
  /\ run[p].pc = "release"
  /\ lease' = IF lease = p THEN NoOne ELSE lease
  /\ Step(p, Idle)
  /\ UNCHANGED <<chainVars, active, created, cursor, match, origin, missed, lagged, faults>>

\* An error ends the run and its lease; the deadline ends a fast scan where it
\* is, and any other part of a run without going on to the next.
CutShort(p) ==
  /\ run[p].pc \notin {"idle", "release"}
  /\ Fault
  /\ \/ Step(p, Ending)
     \/ run[p].pc = "fastread" /\ Step(p, FastEnded(run[p]))
  /\ UNCHANGED <<chainVars, active, lease, created, cursor, match, origin, missed, lagged>>

\* The invocation dies, or its release fails, and the lease stays.
Crash(p) ==
  /\ run[p].pc # "idle"
  /\ Fault
  /\ Step(p, Idle)
  /\ UNCHANGED <<chainVars, active, lease, created, cursor, match, origin, missed, lagged>>

\* leaseUntil passes, after a crash or over a run that outlives its lease.
LeaseEnds ==
  /\ lease # NoOne
  /\ \/ run[lease].pc = "idle" /\ UNCHANGED faults
     \/ run[lease].pc # "idle" /\ Fault
  /\ lease' = NoOne
  /\ UNCHANGED <<chainVars, active, created, cursor, match, run, origin, missed, lagged>>

Works(p) ==
  \/ ReadCursor(p) \/ Create(p) \/ Conflict(p)
  \/ ReadWhole(p) \/ ReadRefused(p) \/ WriteFinal(p) \/ SaveChunk(p) \/ SkipAhead(p)
  \/ QueryStale(p) \/ DropOne(p) \/ DropsDone(p)
  \/ LowerFast(p) \/ FastRead(p) \/ WriteProvisional(p) \/ FastChunkDone(p) \/ SaveFast(p)
  \/ Release(p)

Next ==
  \/ Mine \/ Finalize \/ Reorg \/ (\E r \in Rules : Switch(r)) \/ LeaseEnds
  \/ \E p \in Runs : Begin(p) \/ Works(p) \/ ReadLagging(p) \/ CutShort(p) \/ Crash(p)

Spec == Init /\ [][Next]_vars

\* While a lease can end, a run begin or one that is not cut short make its next
\* call, one of these is done in the end: the schedule starts runs again and again,
\* and not all of them hang.  Of the chain nothing is assumed.
Fairness == WF_vars(LeaseEnds \/ \E p \in Runs : Begin(p) \/ Works(p))

FairSpec == Spec /\ Fairness

(***************************************************************************)
(* Properties                                                              *)
(***************************************************************************)
TypeOK ==
  /\ head \in Nat /\ finalized \in Nat
  /\ where \in [Txs -> Nat]
  /\ active \subseteq Rules
  /\ lease \in Runs \cup {NoOne}
  /\ created \in BOOLEAN /\ cursor \in Cursor
  /\ match \in [Hits -> Row]
  /\ run \in [Runs -> Run]
  /\ origin \in Nat
  /\ missed \subseteq Rules \X Nat
  /\ lagged \in BOOLEAN
  /\ reorgs \in Nat /\ faults \in Nat

\* Every match of a block the durable cursor has passed is written as final, in
\* the block it is in, if its rule was on when that run loaded its rules: what a
\* crash, a conflict, a halved range or a node behind leaves unread stays ahead
\* of the cursor (cycle.ts:187-191, 313).
CursorCovers ==
  \A m \in Hits :
    /\ created
    /\ where[m[1]] \in origin + 1 .. cursor.durable
    /\ <<m[2], where[m[1]]>> \notin missed
    => match[m] = [status |-> "final", block |-> where[m[1]]]

\* A final match is in a finalized block of the chain, whatever was reorganised
\* before (cycle.ts:110, "would let the durable scan write final records from
\* blocks that can still reorg").
FinalIsOnChain ==
  \A m \in Hits : match[m].status = "final" =>
    match[m].block = where[m[1]] /\ where[m[1]] \in 1 .. finalized

\* While no node was behind, nothing was reorganised and the scan was never so
\* far behind that it leaps, each fast match up to the fast cursor has a row: a
\* scan that stops in the middle does not move the cursor over what it has not
\* written (cycle.ts:257-263).
FastCovers ==
  /\ StartBlock # NoBlock /\ created
  /\ ~lagged /\ reorgs = 0 /\ head - origin <= FAST_MAX_RANGE
  => \A m \in Hits :
       /\ m[2] \in FastRules \ Switched
       /\ where[m[1]] \in origin + 1 .. cursor.fast
       => match[m].status # "none"

\* A final match is final for good, and the durable cursor never goes back: a
\* slow run neither drops what another made final (store.ts:281) nor saves a
\* cursor that another moved (store.ts:148).
FinalForGood ==
  [][/\ \A m \in Hits : match[m].status = "final" => match'[m] = match[m]
     /\ created => created' /\ cursor'.durable >= cursor.durable]_vars

\* The durable cursor comes up with the finalized block again and again once
\* nodes keep up and runs are not cut short any more, although leases were left
\* behind, ranges refused and cursors overtaken.
CatchesUp == []<>(created /\ cursor.durable >= finalized)

\* No match stays provisional once its block is DROP_AFTER_BLOCKS below the finalized
\* one: it becomes final or is dropped, also one that the slow fast scan of a run
\* that outlived its lease wrote behind the cursor, of a block that was reorganised
\* meanwhile (cycle.ts:226).
ProvisionalSettles ==
  \A m \in Hits :
    []<>~(match[m].status = "provisional" /\ match[m].block + DROP_AFTER_BLOCKS <= finalized)

\* What the dispatchers are told of a match is what MatchPromise says: provisional
\* once and first, dropped only from there, and final of what is in a finalized block,
\* also after a drop and although slow runs write late (store.ts:213-296).
Watched == INSTANCE MatchPromise WITH
  Matches <- Hits,
  report <- [m \in Hits |-> match[m].status],
  settled <- {m \in Hits : where[m[1]] \in 1 .. finalized}
MatchesKept == Watched!Spec
=============================================================================
