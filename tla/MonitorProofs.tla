---------------------------- MODULE MonitorProofs ----------------------------
(***************************************************************************)
(* What holds of the monitor for any number of overlapping runs, rules,    *)
(* matches, blocks, reorganisations and faults, and every range size.      *)
(*                                                                         *)
(* The argument: a run that scans final blocks knows of each match of the  *)
(* range under its hands that it is final or among those it has yet to     *)
(* write (ScanFits), and that range stays as it is because it is           *)
(* finalized. The cursor moves only by a run whose view of it is what the  *)
(* table holds (ViewFits).                                                 *)
(*                                                                         *)
(* What follows about MatchPromise rests on the same invariant; what is    *)
(* proved of Pipeline, at the end, has one of its own (PipelineInv).       *)
(***************************************************************************)
EXTENDS Monitor, Pipeline, TLAPS, WellFoundedInduction

Scanning == {"range", "final"}

\* How a run's local state r fits the blocks w, finalized up to f, and the rows mt.
ScanFits(r, f, w, mt) ==
  /\ r.fin # NoBlock => r.fin <= f
  /\ r.span > 0 /\ r.ceiling > 0 /\ (r.fitted # NoBlock => r.fitted > 0)
  /\ r.pc = "skip" => r.rules = {} /\ r.fin # NoBlock /\ r.cur.durable < r.fin
  /\ r.pc \in Scanning => /\ r.fin # NoBlock
                          /\ r.cur.durable < r.to /\ r.to <= r.fin
                          /\ \A e \in r.ends : r.to < e /\ e <= r.fin
  /\ r.pc = "final" =>
       /\ \A x \in r.pending : w[x[1][1]] = x[2] /\ x[2] \in 1 .. r.to
       /\ \A m \in Hits :
            /\ w[m[1]] \in r.cur.durable + 1 .. r.to /\ m[2] \in r.rules
            => \/ mt[m] = [status |-> "final", block |-> w[m[1]]]
               \/ <<m, w[m[1]]>> \in r.pending

\* How it fits the cursor row: whether there is one, and what it says.
ViewFits(r, cr, cu) ==
  r.fresh => IF r.pc = "create" THEN ~cr ELSE cr /\ r.cur = cu

RunFits(r, f, w, mt, cr, cu) == r \in Run /\ ScanFits(r, f, w, mt) /\ ViewFits(r, cr, cu)

RunsFit ==
  /\ run = [p \in Runs |-> run[p]]
  /\ \A p \in Runs : RunFits(run[p], finalized, where, match, created, cursor)

DataOK ==
  /\ head \in Nat /\ finalized \in Nat /\ finalized <= head
  /\ where \in [Txs -> Nat]
  /\ active \subseteq Rules
  /\ lease \in Runs \cup {NoOne}
  /\ created \in BOOLEAN /\ cursor \in Cursor
  /\ match \in [Hits -> Row]
  /\ origin \in Nat
  /\ missed \subseteq Rules \X Nat
  /\ lagged \in BOOLEAN
  /\ reorgs \in Nat /\ faults \in Nat

\* What the cursor has passed since it was created is finalized.
CursorFits ==
  created => /\ origin <= cursor.durable
             /\ origin < cursor.durable => cursor.durable <= finalized

IInv == DataOK /\ CursorFits /\ RunsFit /\ CursorCovers /\ FinalIsOnChain

(***************************************************************************)
(* The operators                                                           *)
(***************************************************************************)
LEMMA LeastIsLeast ==
  ASSUME NEW S \in SUBSET Nat, S # {}
  PROVE  Least(S) \in S /\ \A y \in S : Least(S) <= y
<1> DEFINE less == OpToRel(<, Nat)
<1>1. \E x \in S : \A y \in S : <<y, x>> \notin less
  <2> HIDE DEF less
  <2>1. IsWellFoundedOn(less, Nat)
    BY NatLessThanWellFounded DEF less
  <2> QED
    BY <2>1, WFMin
<1>2. PICK x \in S : \A y \in S : <<y, x>> \notin less
  BY <1>1
<1>3. \A y \in S : x <= y
  <2> TAKE y \in S
  <2>1. y \in Nat /\ x \in Nat
    OBVIOUS
  <2>2. ~(y < x)
    BY <1>2, <2>1 DEF OpToRel
  <2> QED
    BY <2>1, <2>2
<1> QED
  BY <1>3 DEF Least

LEMMA HitParts == \A m \in Hits : m[1] \in Txs /\ m[2] \in Rules
  BY RulesAssumption

LEMMA NumbersDiffer == NoBlock \notin Nat
  BY BlocksAssumption

\* What is found is in its block, in the range.
LEMMA FoundIsThere ==
  ASSUME NEW rules, NEW from \in Nat, NEW to \in Nat, NEW v \in Nat,
         NEW x \in Found(rules, from, to, v)
  PROVE  x \in Hits \X Nat /\ where[x[1][1]] = x[2] /\ x[2] \in from .. to
BY DEF Found, Smaller

\* A node that has the range finds all of it.
LEMMA AllIsFound ==
  ASSUME NEW rules, NEW from \in Nat, NEW to \in Nat, NEW v \in Nat, to <= v,
         NEW m \in Hits, where[m[1]] \in from .. to, m[2] \in rules
  PROVE  <<m, where[m[1]]>> \in Found(rules, from, to, v)
BY DEF Found, Smaller

(***************************************************************************)
(* Where a run goes next                                                   *)
(***************************************************************************)
LEMMA IdleType ==
  /\ Idle \in Run /\ Ending \in Run
  /\ Idle.pc = "idle" /\ Ending.pc = "release"
  /\ \A r \in {Idle, Ending} :
       /\ r.fin = NoBlock /\ r.fresh = FALSE
       /\ r.span = MaxRange /\ r.ceiling = MaxRange /\ r.fitted = NoBlock
<1>1. MaxRange \in Nat
  BY BlocksAssumption
<1>2. NoCursor \in Cursor
  BY DEF NoCursor, Cursor
<1>3. {} \in SUBSET Rules /\ {} \in SUBSET Nat /\ {} \in SUBSET (Hits \X Nat)
  OBVIOUS
<1>4. Idle \in Run
  BY <1>1, <1>2, <1>3 DEF Idle, Run, PC
<1>5. /\ Idle.pc = "idle" /\ Idle.fin = NoBlock /\ Idle.fresh = FALSE
      /\ Idle.span = MaxRange /\ Idle.ceiling = MaxRange /\ Idle.fitted = NoBlock
  BY DEF Idle
<1>6. /\ Ending \in Run /\ Ending.pc = "release"
      /\ Ending.fin = Idle.fin /\ Ending.fresh = Idle.fresh
      /\ Ending.span = Idle.span /\ Ending.ceiling = Idle.ceiling /\ Ending.fitted = Idle.fitted
  BY <1>4 DEF Ending, Run, PC
<1> QED
  BY <1>4, <1>5, <1>6

LEMMA IdleFits ==
  ASSUME NEW f, NEW w, NEW mt, NEW cr, NEW cu
  PROVE  RunFits(Idle, f, w, mt, cr, cu) /\ RunFits(Ending, f, w, mt, cr, cu)
<1>1. MaxRange > 0
  BY BlocksAssumption
<1> QED
  BY <1>1, IdleType DEF RunFits, ScanFits, ViewFits, Scanning

\* What a run carries from one part to the next.
Carries(r, f, cr, cu) ==
  /\ r \in Run
  /\ r.fin # NoBlock => r.fin <= f
  /\ r.span > 0 /\ r.ceiling > 0 /\ (r.fitted # NoBlock => r.fitted > 0)
  /\ r.fresh => cr /\ r.cur = cu

LEMMA FastStartType ==
  ASSUME NEW r \in Run
  PROVE  FastStart(r) \in Nat
<1>1. r.cur.durable \in Nat /\ r.cur.fast \in Nat /\ r.head \in Nat
  BY DEF Run, Cursor
<1> QED
  BY <1>1, BlocksAssumption DEF FastStart, Larger

LEMMA ToFastFits ==
  ASSUME NEW r, NEW f, NEW w, NEW mt, NEW cr, NEW cu, Carries(r, f, cr, cu)
  PROVE  RunFits(ToFast(r), f, w, mt, cr, cu)
<1> DEFINE from == FastStart(r)
           at(pc) == [Idle EXCEPT !.pc = pc, !.rules = r.rules \cap FastRules, !.head = r.head,
                                  !.cur = r.cur, !.fresh = r.fresh, !.from = from, !.reached = from]
<1>1. r \in Run /\ from \in Nat
  BY FastStartType DEF Carries
<1>2. ASSUME NEW pc \in {"lower", "fastread"}
      PROVE  RunFits(at(pc), f, w, mt, cr, cu)
  <2>1. /\ r.rules \cap FastRules \in SUBSET Rules /\ r.head \in Nat
        /\ r.cur \in Cursor /\ r.fresh \in BOOLEAN
    BY <1>1 DEF Run
  <2>2. /\ at(pc) \in Run
        /\ at(pc).pc = pc /\ at(pc).fin = NoBlock /\ at(pc).cur = r.cur
        /\ at(pc).fresh = r.fresh /\ at(pc).fitted = NoBlock
        /\ at(pc).span = MaxRange /\ at(pc).ceiling = MaxRange
    BY <1>1, <2>1, IdleType, ZenonT(60) DEF Run, PC
  <2>3. MaxRange > 0
    BY BlocksAssumption
  <2> HIDE DEF at
  <2> QED
    BY <2>2, <2>3 DEF RunFits, ScanFits, ViewFits, Scanning, Carries
<1>3. ToFast(r) \in {Ending, at("lower"), at("fastread")}
  <2>1. r.cur.fast \in Nat /\ r.head \in Nat
    BY <1>1 DEF Run, Cursor
  <2> QED
    BY <2>1 DEF ToFast
<1> QED
  <2> HIDE DEF at
  <2> QED
    BY <1>2, <1>3, IdleFits

\* A run at a point where nothing but what it carries matters.
LEMMA AnyPointFits ==
  ASSUME NEW r, NEW f, NEW w, NEW mt, NEW cr, NEW cu, Carries(r, f, cr, cu),
         NEW pc \in PC \ ({"create", "skip"} \cup Scanning)
  PROVE  RunFits([r EXCEPT !.pc = pc], f, w, mt, cr, cu)
<1> DEFINE n == [r EXCEPT !.pc = pc]
<1>1. /\ n \in Run /\ n.pc = pc /\ n.fin = r.fin /\ n.cur = r.cur /\ n.fresh = r.fresh
      /\ n.span = r.span /\ n.ceiling = r.ceiling /\ n.fitted = r.fitted
  BY DEF Carries, Run
<1>2. pc # "create" /\ pc # "skip" /\ pc # "final" /\ pc \notin Scanning
  BY DEF Scanning
<1> HIDE DEF n
<1>3. RunFits(n, f, w, mt, cr, cu)
  BY <1>1, <1>2 DEF RunFits, ScanFits, ViewFits, Carries
<1> QED
  BY <1>3 DEF n

LEMMA ToDropFits ==
  ASSUME NEW r, NEW f, NEW w, NEW mt, NEW cr, NEW cu, Carries(r, f, cr, cu)
  PROVE  RunFits(ToDrop(r), f, w, mt, cr, cu)
<1> DEFINE n == [Idle EXCEPT !.pc = "drop", !.rules = r.rules, !.head = r.head,
                             !.cur = r.cur, !.fresh = r.fresh]
<1>1. /\ r \in Run /\ r.rules \in SUBSET Rules /\ r.head \in Nat
      /\ r.cur \in Cursor /\ r.fresh \in BOOLEAN
  BY DEF Carries, Run
<1>2. /\ n \in Run
      /\ n.pc = "drop" /\ n.fin = NoBlock /\ n.cur = r.cur
      /\ n.fresh = r.fresh /\ n.fitted = NoBlock
      /\ n.span = MaxRange /\ n.ceiling = MaxRange
  BY <1>1, IdleType, ZenonT(60) DEF Run, PC
<1>3. MaxRange > 0
  BY BlocksAssumption
<1>4. ToDrop(r) = n \/ ToDrop(r) = ToFast(r)
  BY DEF ToDrop
<1> HIDE DEF n
<1>5. RunFits(n, f, w, mt, cr, cu)
  BY <1>2, <1>3 DEF RunFits, ScanFits, ViewFits, Scanning, Carries
<1> QED
  BY <1>4, <1>5, ToFastFits

LEMMA ToDurableFits ==
  ASSUME NEW r, NEW f, NEW w, NEW mt, NEW cr, NEW cu, Carries(r, f, cr, cu)
  PROVE  RunFits(ToDurable(r), f, w, mt, cr, cu)
<1>1. CASE ~Behind(r)
  BY <1>1, ToDropFits DEF ToDurable
<1>2. CASE Behind(r) /\ r.rules = {}
  <2> DEFINE n == [r EXCEPT !.pc = "skip"]
  <2>1. /\ n \in Run /\ n.pc = "skip" /\ n.fin = r.fin /\ n.cur = r.cur /\ n.fresh = r.fresh
        /\ n.span = r.span /\ n.ceiling = r.ceiling /\ n.fitted = r.fitted /\ n.rules = r.rules
    BY DEF Carries, Run, PC
  <2>2. ToDurable(r) = n
    BY <1>2 DEF ToDurable
  <2> HIDE DEF n
  <2> QED
    BY <1>2, <2>1, <2>2 DEF RunFits, ScanFits, ViewFits, Carries, Behind, Scanning
<1>3. CASE Behind(r) /\ r.rules # {}
  <2> DEFINE to == Smaller(r.fin, r.cur.durable + r.span)
             n == [r EXCEPT !.pc = "range", !.to = to, !.ends = {}, !.split = "no"]
  <2>1. /\ r.fin \in Nat /\ r.cur.durable \in Nat /\ r.span \in Nat /\ r.span > 0
        /\ r.cur.durable < r.fin
    BY <1>3 DEF Carries, Run, Cursor, Behind
  <2>2. to \in Nat /\ r.cur.durable < to /\ to <= r.fin
    BY <2>1 DEF Smaller
  <2> HIDE DEF to
  <2>3. /\ n \in Run /\ n.pc = "range" /\ n.fin = r.fin /\ n.cur = r.cur /\ n.fresh = r.fresh
        /\ n.span = r.span /\ n.ceiling = r.ceiling /\ n.fitted = r.fitted
        /\ n.to = to /\ n.ends = {}
    BY <2>2 DEF Carries, Run, PC
  <2>4. ToDurable(r) = n
    BY <1>3 DEF ToDurable, to
  <2> HIDE DEF n
  <2> QED
    BY <1>3, <2>2, <2>3, <2>4 DEF RunFits, ScanFits, ViewFits, Carries, Behind, Scanning
<1> QED
  BY <1>1, <1>2, <1>3

(***************************************************************************)
(* Kinds of steps                                                          *)
(***************************************************************************)
LEMMA RunIsFit ==
  ASSUME IInv, NEW p \in Runs
  PROVE  /\ RunFits(run[p], finalized, where, match, created, cursor)
         /\ run[p] \in Run
BY DEF IInv, RunsFit, RunFits

\* What a run carries on, unless it is about to create the cursor.
LEMMA RunCarries ==
  ASSUME IInv, NEW p \in Runs, run[p].pc # "create"
  PROVE  Carries(run[p], finalized, created, cursor)
BY RunIsFit DEF RunFits, ScanFits, ViewFits, Carries

\* A step of one run that writes neither a row nor the cursor.
LEMMA LocalStep ==
  ASSUME IInv, NEW p \in Runs, NEW mine, run' = [run EXCEPT ![p] = mine],
         UNCHANGED <<finalized, where, match, created, cursor>>,
         RunFits(mine, finalized, where, match, created, cursor)
  PROVE  RunsFit'
BY DEF IInv, RunsFit

\* The rest of the invariant, in a step that leaves the data of the scans alone.
LEMMA QuietStep ==
  ASSUME IInv, UNCHANGED <<head, finalized, where, created, cursor, match, origin, missed, reorgs>>,
         active' \subseteq Rules, lease' \in Runs \cup {NoOne}, lagged' \in BOOLEAN, faults' \in Nat,
         RunsFit'
  PROVE  IInv'
<1>1. DataOK'
  BY DEF IInv, DataOK
<1>2. CursorFits' /\ CursorCovers' /\ FinalIsOnChain'
  BY DEF IInv, CursorFits, CursorCovers, FinalIsOnChain
<1> QED
  BY <1>1, <1>2 DEF IInv

\* A write of a row that keeps what is final leaves every run fitting.
LEMMA RowStep ==
  ASSUME IInv, NEW p \in Runs, NEW mine, run' = [run EXCEPT ![p] = mine],
         NEW m \in Hits, NEW new \in Row, match' = [match EXCEPT ![m] = new],
         match[m].status = "final" => new = match[m],
         new.status = "final" =>
           new.block = where[m[1]] /\ where[m[1]] \in 1 .. finalized,
         UNCHANGED <<head, finalized, where, active, lease, created, cursor, origin, missed,
                     reorgs, lagged, faults>>,
         RunFits(mine, finalized, where, match', created, cursor)
  PROVE  IInv'
<1>1. match \in [Hits -> Row]
  BY DEF IInv, DataOK
<1>2. DataOK' /\ CursorFits'
  BY <1>1 DEF IInv, DataOK, CursorFits
<1>3. \A n \in Hits : match[n].status = "final" => match'[n] = match[n]
  BY <1>1
<1>4. CursorCovers'
  BY <1>3 DEF IInv, CursorCovers
<1>5. FinalIsOnChain'
  BY <1>1, <1>3 DEF IInv, FinalIsOnChain
<1>6. ASSUME NEW q \in Runs
      PROVE  RunFits(run'[q], finalized, where, match', created, cursor)
  <2>1. CASE q = p
    BY <2>1 DEF IInv, RunsFit
  <2>2. CASE q # p
    <3>1. run'[q] = run[q]
      BY <2>2 DEF IInv, RunsFit
    <3>2. ScanFits(run[q], finalized, where, match')
      BY <1>3, RunIsFit DEF RunFits, ScanFits
    <3> QED
      BY <3>1, <3>2, RunIsFit DEF RunFits
  <2> QED
    BY <2>1, <2>2
<1>7. RunsFit'
  BY <1>6 DEF IInv, RunsFit
<1> QED
  BY <1>2, <1>4, <1>5, <1>7 DEF IInv

\* A write of the cursor: the other runs have a stale view of it.
LEMMA CursorStep ==
  ASSUME IInv, NEW p \in Runs, NEW next, NEW mine, SaveCursor(p, next, mine), created' = TRUE,
         UNCHANGED <<finalized, where, match>>,
         RunFits(mine, finalized, where, match, TRUE, next)
  PROVE  RunsFit'
<1>1. run' = [q \in Runs |-> IF q = p THEN mine ELSE [run[q] EXCEPT !.fresh = FALSE]]
      /\ cursor' = next
  BY DEF SaveCursor
<1>2. ASSUME NEW q \in Runs
      PROVE  RunFits(run'[q], finalized, where, match, created', cursor')
  <2>1. CASE q = p
    BY <1>1, <2>1
  <2>2. CASE q # p
    <3> DEFINE n == [run[q] EXCEPT !.fresh = FALSE]
    <3>1. /\ n \in Run /\ n.fresh = FALSE
          /\ n.pc = run[q].pc /\ n.rules = run[q].rules /\ n.fin = run[q].fin
          /\ n.cur = run[q].cur /\ n.to = run[q].to /\ n.ends = run[q].ends
          /\ n.span = run[q].span /\ n.ceiling = run[q].ceiling
          /\ n.fitted = run[q].fitted /\ n.pending = run[q].pending
      BY RunIsFit, ZenonT(60) DEF Run
    <3>2. run'[q] = n
      BY <1>1, <2>2
    <3>3. ScanFits(run[q], finalized, where, match)
      BY RunIsFit DEF RunFits
    <3> HIDE DEF n
    <3>4. ScanFits(n, finalized, where, match)
      BY <3>1, <3>3 DEF ScanFits
    <3> QED
      BY <3>1, <3>2, <3>4 DEF RunFits, ViewFits
  <2> QED
    BY <2>1, <2>2
<1>3. UNCHANGED <<finalized, where, match>>
  OBVIOUS
<1> QED
  BY <1>1, <1>2, <1>3 DEF RunsFit

\* A change of the chain above the finalized block.
LEMMA ChainStep ==
  ASSUME IInv, head' \in Nat, finalized' \in Nat, finalized <= finalized', finalized' <= head',
         where' \in [Txs -> Nat],
         \A t \in Txs : where[t] \in 1 .. finalized \/ where'[t] \in 1 .. finalized
                        => where'[t] = where[t],
         reorgs' \in Nat,
         UNCHANGED <<active, lease, created, cursor, match, run, origin, missed, lagged, faults>>
  PROVE  IInv'
<1>1. finalized \in Nat /\ where \in [Txs -> Nat] /\ cursor \in Cursor /\ origin \in Nat
  BY DEF IInv, DataOK
<1>2. DataOK' /\ CursorFits'
  BY <1>1 DEF IInv, DataOK, CursorFits, Cursor
<1>3. CursorCovers'
  <2> SUFFICES ASSUME NEW m \in Hits, created,
                      where'[m[1]] \in origin + 1 .. cursor.durable,
                      <<m[2], where'[m[1]]>> \notin missed
               PROVE  match[m] = [status |-> "final", block |-> where'[m[1]]]
    BY DEF CursorCovers
  <2>1. where'[m[1]] \in 1 .. finalized
    BY <1>1 DEF IInv, CursorFits, Cursor
  <2>2. where'[m[1]] = where[m[1]]
    BY <2>1, HitParts
  <2> QED
    BY <2>2 DEF IInv, CursorCovers
<1>4. FinalIsOnChain'
  <2> SUFFICES ASSUME NEW m \in Hits, match[m].status = "final"
               PROVE  /\ match[m].block = where'[m[1]]
                      /\ where'[m[1]] \in 1 .. finalized'
    BY DEF FinalIsOnChain
  <2>1. match[m].block = where[m[1]] /\ where[m[1]] \in 1 .. finalized
    BY DEF IInv, FinalIsOnChain
  <2>2. where'[m[1]] = where[m[1]]
    BY <2>1, HitParts
  <2> QED
    BY <1>1, <2>1, <2>2
<1>5. ASSUME NEW q \in Runs
      PROVE  RunFits(run[q], finalized', where', match, created, cursor)
  <2> DEFINE r == run[q]
  <2>1. RunFits(r, finalized, where, match, created, cursor) /\ r \in Run
    BY RunIsFit
  <2>2. /\ r.fin \in Nat \cup {NoBlock} /\ r.to \in Nat /\ r.cur.durable \in Nat
        /\ r.pending \in SUBSET (Hits \X Nat)
    BY <2>1 DEF Run, Cursor
  <2> HIDE DEF r
  <2>3. r.fin # NoBlock => r.fin <= finalized'
    BY <1>1, <2>1, <2>2 DEF RunFits, ScanFits
  <2>4. ASSUME r.pc = "final"
        PROVE  ScanFits(r, finalized', where', match)
    <3>1. r.fin \in Nat /\ r.to <= r.fin /\ r.fin <= finalized
      BY <2>1, <2>2, <2>4 DEF RunFits, ScanFits, Scanning
    <3>2. \A x \in r.pending : where'[x[1][1]] = x[2] /\ x[2] \in 1 .. r.to
      <4> TAKE x \in r.pending
      <4>1. x[1] \in Hits /\ x[2] \in Nat
        BY <2>2
      <4>2. where[x[1][1]] = x[2] /\ x[2] \in 1 .. r.to
        BY <2>1, <2>4 DEF RunFits, ScanFits
      <4>3. where[x[1][1]] \in 1 .. finalized
        BY <1>1, <2>2, <3>1, <4>2
      <4> QED
        BY <4>1, <4>2, <4>3, HitParts
    <3>3. ASSUME NEW m \in Hits, where'[m[1]] \in r.cur.durable + 1 .. r.to, m[2] \in r.rules
          PROVE  \/ match[m] = [status |-> "final", block |-> where'[m[1]]]
                 \/ <<m, where'[m[1]]>> \in r.pending
      <4>1. where'[m[1]] \in 1 .. finalized
        BY <1>1, <2>2, <3>1, <3>3
      <4>2. where'[m[1]] = where[m[1]]
        BY <4>1, HitParts
      <4> QED
        BY <2>1, <2>4, <3>3, <4>2 DEF RunFits, ScanFits
    <3> QED
      BY <2>1, <2>3, <2>4, <3>2, <3>3 DEF RunFits, ScanFits
  <2>5. ASSUME r.pc # "final"
        PROVE  ScanFits(r, finalized', where', match)
    BY <2>1, <2>3, <2>5 DEF RunFits, ScanFits
  <2>6. RunFits(r, finalized', where', match, created, cursor)
    BY <2>1, <2>4, <2>5 DEF RunFits
  <2> QED
    BY <2>6 DEF r
<1>6. RunsFit'
  BY <1>5 DEF IInv, RunsFit
<1> QED
  BY <1>2, <1>3, <1>4, <1>6 DEF IInv

\* What no step undoes: FinalForGood, of one step.
Kept ==
  /\ \A m \in Hits : match[m].status = "final" => match'[m] = match[m]
  /\ created => created' /\ cursor'.durable >= cursor.durable

LEMMA UntouchedIsKept ==
  ASSUME IInv, UNCHANGED <<created, cursor, match>>
  PROVE  Kept
<1>1. cursor.durable \in Nat
  BY DEF IInv, DataOK, Cursor
<1> QED
  BY <1>1 DEF Kept

\* A step of one run alone.
LEMMA RunStep ==
  ASSUME IInv, NEW p \in Runs, NEW mine, Step(p, mine),
         UNCHANGED <<chainVars, created, cursor, match, origin, missed>>,
         active' \subseteq Rules, lease' \in Runs \cup {NoOne}, lagged' \in BOOLEAN, faults' \in Nat,
         RunFits(mine, finalized, where, match, created, cursor)
  PROVE  IInv' /\ Kept
<1>1. UNCHANGED <<head, finalized, where, reorgs, created, cursor, match, origin, missed>>
  BY DEF chainVars
<1>2. RunsFit'
  BY <1>1, LocalStep DEF Step
<1> QED
  BY <1>1, <1>2, QuietStep, UntouchedIsKept

LEMMA Bookkeeping ==
  IInv => active \subseteq Rules /\ lease \in Runs \cup {NoOne} /\ lagged \in BOOLEAN /\ faults \in Nat
BY DEF IInv, DataOK

LEMMA FaultType ==
  /\ IInv /\ Fault => faults' \in Nat
  /\ IInv /\ Lag => faults' \in Nat /\ lagged' \in BOOLEAN
<1>1. IInv /\ Fault => faults' \in Nat
  BY DEF IInv, DataOK, Fault
<1>2. Lag => Fault /\ lagged' = TRUE
  BY DEF Lag
<1>3. TRUE \in BOOLEAN
  OBVIOUS
<1> QED
  BY <1>1, <1>2, <1>3

\* A write of the cursor that passes only blocks whose matches are written.
LEMMA PassingStep ==
  ASSUME IInv, created, created' = TRUE, cursor' \in Cursor,
         cursor.durable <= cursor'.durable,
         cursor'.durable = cursor.durable \/ cursor'.durable <= finalized,
         missed \subseteq missed', missed' \subseteq Rules \X Nat,
         \A m \in Hits : /\ where[m[1]] \in cursor.durable + 1 .. cursor'.durable
                         /\ <<m[2], where[m[1]]>> \notin missed'
                         => match[m] = [status |-> "final", block |-> where[m[1]]],
         UNCHANGED <<head, finalized, where, active, lease, match, origin, reorgs, lagged, faults>>,
         RunsFit'
  PROVE  IInv' /\ Kept
<1>1. /\ cursor.durable \in Nat /\ cursor'.durable \in Nat /\ origin \in Nat /\ finalized \in Nat
      /\ where \in [Txs -> Nat]
  BY DEF IInv, DataOK, Cursor
<1>2. DataOK'
  BY DEF IInv, DataOK
<1>3. CursorFits'
  BY <1>1 DEF IInv, CursorFits
<1>4. CursorCovers'
  <2> SUFFICES ASSUME NEW m \in Hits,
                      where[m[1]] \in origin + 1 .. cursor'.durable,
                      <<m[2], where[m[1]]>> \notin missed'
               PROVE  match[m] = [status |-> "final", block |-> where[m[1]]]
    BY DEF CursorCovers
  <2>1. where[m[1]] \in Nat
    BY <1>1, HitParts
  <2>2. CASE where[m[1]] <= cursor.durable
    <3>1. where[m[1]] \in origin + 1 .. cursor.durable
      BY <1>1, <2>1, <2>2
    <3> QED
      BY <3>1 DEF IInv, CursorCovers
  <2>3. CASE ~(where[m[1]] <= cursor.durable)
    <3>1. where[m[1]] \in cursor.durable + 1 .. cursor'.durable
      BY <1>1, <2>1, <2>3
    <3> QED
      BY <3>1
  <2> QED
    BY <2>2, <2>3
<1>5. FinalIsOnChain'
  BY DEF IInv, FinalIsOnChain
<1>6. Kept
  BY <1>1 DEF Kept
<1> QED
  BY <1>2, <1>3, <1>4, <1>5, <1>6 DEF IInv

(***************************************************************************)
(* The chain, the operators of the rules and the lease                     *)
(***************************************************************************)
LEMMA MineInv == ASSUME IInv, Mine PROVE IInv' /\ Kept
<1>1. PICK S \in SUBSET {t \in Txs : where[t] = 0} :
         where' = [t \in Txs |-> IF t \in S THEN head + 1 ELSE where[t]]
  BY DEF Mine
<1>2. head \in Nat /\ finalized \in Nat /\ finalized <= head /\ where \in [Txs -> Nat]
      /\ reorgs \in Nat /\ head' = head + 1 /\ finalized' = finalized
  BY DEF IInv, DataOK, Mine
<1>3. where' \in [Txs -> Nat]
  BY <1>1, <1>2
<1>4. \A t \in Txs : where[t] \in 1 .. finalized \/ where'[t] \in 1 .. finalized
                     => where'[t] = where[t]
  BY <1>1, <1>2
<1>5. IInv'
  BY <1>2, <1>3, <1>4, ChainStep DEF Mine
<1> QED
  BY <1>5, UntouchedIsKept DEF Mine

LEMMA FinalizeInv == ASSUME IInv, Finalize PROVE IInv' /\ Kept
<1>1. head \in Nat /\ finalized \in Nat /\ where \in [Txs -> Nat] /\ reorgs \in Nat
  BY DEF IInv, DataOK
<1>2. head' = head /\ where' = where /\ reorgs' = reorgs
      /\ finalized' \in Nat /\ finalized <= finalized' /\ finalized' <= head
  BY <1>1 DEF Finalize
<1>3. IInv'
  BY <1>1, <1>2, ChainStep DEF Finalize
<1> QED
  BY <1>3, UntouchedIsKept DEF Finalize

LEMMA ReorgInv == ASSUME IInv, Reorg PROVE IInv' /\ Kept
<1>1. /\ head \in Nat /\ finalized \in Nat /\ finalized <= head /\ where \in [Txs -> Nat]
      /\ reorgs \in Nat /\ head' = head /\ finalized' = finalized /\ reorgs' = reorgs + 1
  BY DEF IInv, DataOK, Reorg
<1>2. PICK keep \in finalized .. head - 1 :
         LET loose == {t \in Txs : where[t] = 0 \/ where[t] > keep}
         IN \E again \in [loose -> {0} \cup (keep + 1 .. head)] :
              where' = [t \in Txs |-> IF t \in loose THEN again[t] ELSE where[t]]
  BY DEF Reorg
<1> DEFINE loose == {t \in Txs : where[t] = 0 \/ where[t] > keep}
<1>3. PICK again \in [loose -> {0} \cup (keep + 1 .. head)] :
         where' = [t \in Txs |-> IF t \in loose THEN again[t] ELSE where[t]]
  BY <1>2
<1>4. where' \in [Txs -> Nat]
  BY <1>1, <1>3
<1>5. ASSUME NEW t \in Txs, where[t] \in 1 .. finalized \/ where'[t] \in 1 .. finalized
      PROVE  where'[t] = where[t]
  <2>1. keep \in Nat /\ finalized <= keep /\ where[t] \in Nat
    BY <1>1
  <2>2. t \in loose => where'[t] \in {0} \cup (keep + 1 .. head)
    BY <1>3
  <2>3. t \notin loose => where'[t] = where[t]
    BY <1>3
  <2>4. where[t] \in 1 .. finalized => t \notin loose
    BY <1>1, <2>1
  <2> HIDE DEF loose
  <2> QED
    BY <1>1, <1>5, <2>1, <2>2, <2>3, <2>4
<1>6. IInv'
  BY <1>1, <1>4, <1>5, ChainStep DEF Reorg
<1> QED
  BY <1>6, UntouchedIsKept DEF Reorg

LEMMA SwitchInv == ASSUME IInv, NEW r \in Rules, Switch(r) PROVE IInv' /\ Kept
<1>1. active' \subseteq Rules /\ faults' \in Nat
  BY Bookkeeping, FaultType DEF Switch
<1>2. RunsFit'
  BY DEF Switch, IInv, RunsFit
<1> QED
  BY <1>1, <1>2, Bookkeeping, QuietStep, UntouchedIsKept DEF Switch

LEMMA LeaseEndsInv == ASSUME IInv, LeaseEnds PROVE IInv' /\ Kept
<1>1. lease' \in Runs \cup {NoOne} /\ faults' \in Nat
  BY Bookkeeping, FaultType DEF LeaseEnds
<1>2. RunsFit'
  BY DEF LeaseEnds, IInv, RunsFit, chainVars
<1> QED
  BY <1>1, <1>2, Bookkeeping, QuietStep, UntouchedIsKept DEF LeaseEnds, chainVars

(***************************************************************************)
(* A run begins and ends                                                   *)
(***************************************************************************)
LEMMA BeginInv == ASSUME IInv, NEW p \in Runs, Begin(p) PROVE IInv' /\ Kept
<1>1. PICK h \in 0 .. head, f \in FinalizedAnswers :
         /\ IF h = head /\ f = finalized THEN UNCHANGED <<lagged, faults>> ELSE Lag
         /\ Step(p, [Idle EXCEPT !.pc = "cursor", !.rules = active, !.head = h, !.fin = f])
  BY DEF Begin
<1> DEFINE mine == [Idle EXCEPT !.pc = "cursor", !.rules = active, !.head = h, !.fin = f]
<1>2. lagged' \in BOOLEAN /\ faults' \in Nat
  BY <1>1, Bookkeeping, FaultType
<1>3. h \in Nat /\ f \in Nat \cup {NoBlock} /\ (f # NoBlock => f <= finalized)
      /\ active \in SUBSET Rules
  BY DEF IInv, DataOK, FinalizedAnswers
<1>4. /\ mine \in Run /\ mine.pc = "cursor" /\ mine.fin = f /\ mine.fresh = Idle.fresh
      /\ mine.span = Idle.span /\ mine.ceiling = Idle.ceiling /\ mine.fitted = Idle.fitted
  BY <1>3, IdleType, ZenonT(60) DEF Run, PC
<1>5. MaxRange > 0
  BY BlocksAssumption
<1>6. Step(p, mine)
  BY <1>1
<1> HIDE DEF mine
<1>7. RunFits(mine, finalized, where, match, created, cursor)
  BY <1>3, <1>4, <1>5, IdleType DEF RunFits, ScanFits, ViewFits, Scanning
<1> QED
  BY <1>2, <1>6, <1>7, RunStep, Bookkeeping DEF Begin

LEMMA ReadCursorInv == ASSUME IInv, NEW p \in Runs, ReadCursor(p) PROVE IInv' /\ Kept
<1> DEFINE r == run[p]
           at(d, f) == [r EXCEPT !.cur = [durable |-> d, fast |-> f], !.fresh = TRUE]
<1>1. r \in Run /\ r.pc = "cursor" /\ Carries(r, finalized, created, cursor)
  BY RunIsFit, RunCarries DEF ReadCursor
<1>2. ASSUME NEW d \in Nat, NEW f \in Nat
      PROVE  /\ at(d, f) \in Run /\ at(d, f).cur = [durable |-> d, fast |-> f]
             /\ at(d, f).fresh = TRUE /\ at(d, f).fin = r.fin /\ at(d, f).pc = "cursor"
             /\ at(d, f).span = r.span /\ at(d, f).ceiling = r.ceiling
             /\ at(d, f).fitted = r.fitted
  BY <1>1 DEF Run, Cursor
<1>3. CASE created
  <2> DEFINE mine == at(cursor.durable, cursor.fast)
  <2>1. cursor.durable \in Nat /\ cursor.fast \in Nat
        /\ cursor = [durable |-> cursor.durable, fast |-> cursor.fast]
    BY DEF IInv, DataOK, Cursor
  <2>2. Step(p, ToDurable(mine))
    BY <1>3 DEF ReadCursor
  <2>3. Carries(mine, finalized, created, cursor)
    <3>1. mine \in Run /\ mine.cur = cursor /\ mine.fin = r.fin
          /\ mine.span = r.span /\ mine.ceiling = r.ceiling /\ mine.fitted = r.fitted
      BY <1>2, <2>1, ZenonT(60)
    <3> HIDE DEF mine, r
    <3> QED
      BY <1>1, <1>3, <3>1 DEF Carries
  <2> HIDE DEF mine
  <2>4. RunFits(ToDurable(mine), finalized, where, match, created, cursor)
    BY <2>3, ToDurableFits
  <2> QED
    BY <2>2, <2>4, RunStep, Bookkeeping DEF ReadCursor
<1>4. ASSUME ~created, NEW d \in Nat, NEW f \in Nat,
             Step(p, [at(d, f) EXCEPT !.pc = "create"])
      PROVE  IInv' /\ Kept
  <2> DEFINE n == at(d, f)
             mine == [n EXCEPT !.pc = "create"]
  <2>0. n \in Run /\ n.fresh = TRUE /\ n.fin = r.fin
        /\ n.span = r.span /\ n.ceiling = r.ceiling /\ n.fitted = r.fitted
    BY <1>2
  <2> HIDE DEF n
  <2>1. /\ mine \in Run /\ mine.pc = "create" /\ mine.fresh = TRUE /\ mine.fin = r.fin
        /\ mine.span = r.span /\ mine.ceiling = r.ceiling /\ mine.fitted = r.fitted
    BY <2>0 DEF Run, PC
  <2>2. Step(p, mine)
    BY <1>4 DEF n
  <2> HIDE DEF mine, r
  <2>3. RunFits(mine, finalized, where, match, created, cursor)
    BY <1>1, <1>4, <2>1 DEF RunFits, ScanFits, ViewFits, Scanning, Carries
  <2> QED
    BY <2>2, <2>3, RunStep, Bookkeeping DEF ReadCursor
<1>5. CASE ~created /\ StartBlock # NoBlock
  <2>1. StartBlock \in Nat
    BY <1>5, BlocksAssumption
  <2>2. Step(p, [at(StartBlock, StartBlock) EXCEPT !.pc = "create"])
    BY <1>5 DEF ReadCursor
  <2> QED
    BY <1>4, <1>5, <2>1, <2>2
<1>6. CASE ~created /\ StartBlock = NoBlock /\ r.fin # NoBlock
  <2>1. r.fin \in Nat /\ r.head \in Nat
    BY <1>1, <1>6 DEF Run
  <2>2. Step(p, [at(r.fin, r.head) EXCEPT !.pc = "create"])
    BY <1>6 DEF ReadCursor
  <2> QED
    BY <1>4, <1>6, <2>1, <2>2
<1>7. CASE ~created /\ StartBlock = NoBlock /\ r.fin = NoBlock
  <2>1. Step(p, Ending)
    BY <1>7 DEF ReadCursor
  <2> QED
    BY <2>1, IdleFits, RunStep, Bookkeeping DEF ReadCursor
<1> QED
  BY <1>3, <1>5, <1>6, <1>7

LEMMA CreateInv == ASSUME IInv, NEW p \in Runs, Create(p) PROVE IInv' /\ Kept
<1> DEFINE r == run[p]
<1>1. /\ r \in Run /\ r.pc = "create" /\ r.fresh
      /\ RunFits(r, finalized, where, match, created, cursor)
      /\ r.cur \in Cursor /\ r.cur.durable \in Nat
  BY RunIsFit DEF Create, SaveCursor, Run, Cursor
<1>2. ~created /\ created' = TRUE /\ cursor' = r.cur /\ origin' = r.cur.durable
  BY <1>1 DEF RunFits, ViewFits, Create, SaveCursor
<1>3. RunFits(ToDurable(r), finalized, where, match, TRUE, r.cur)
  <2>1. Carries(r, finalized, TRUE, r.cur)
    BY <1>1 DEF RunFits, ScanFits, Carries
  <2> QED
    BY <2>1, ToDurableFits
<1>4. UNCHANGED <<head, finalized, where, reorgs, active, lease, match, missed, lagged, faults>>
  BY DEF Create, chainVars
<1>5. RunsFit'
  BY <1>2, <1>3, <1>4, CursorStep DEF Create
<1> HIDE DEF r
<1>6. DataOK'
  BY <1>1, <1>2, <1>4 DEF IInv, DataOK
<1>7. CursorFits'
  BY <1>1, <1>2 DEF CursorFits
<1>8. CursorCovers'
  BY <1>1, <1>2 DEF CursorCovers
<1>9. FinalIsOnChain'
  BY <1>4 DEF IInv, FinalIsOnChain
<1>10. Kept
  BY <1>2, <1>4 DEF Kept
<1> QED
  BY <1>5, <1>6, <1>7, <1>8, <1>9, <1>10 DEF IInv

\* A run stops, and its lease is given back or not.
LEMMA EndInv ==
  ASSUME IInv, NEW p \in Runs, Conflict(p) \/ Release(p) \/ Crash(p)
  PROVE  IInv' /\ Kept
<1>1. Step(p, Idle) \/ Step(p, Ending)
  BY DEF Conflict, Release, Crash
<1>2. /\ UNCHANGED <<chainVars, active, created, cursor, match, origin, missed, lagged>>
      /\ lease' \in Runs \cup {NoOne} /\ faults' \in Nat
  BY Bookkeeping, FaultType DEF Conflict, Release, Crash
<1> QED
  BY <1>1, <1>2, IdleFits, RunStep, Bookkeeping

LEMMA FastEndedFits ==
  ASSUME NEW r, NEW f, NEW w, NEW mt, NEW cr, NEW cu, Carries(r, f, cr, cu)
  PROVE  RunFits(FastEnded(r), f, w, mt, cr, cu)
<1>1. "fastsave" \in PC \ ({"create", "skip"} \cup Scanning)
  BY DEF PC, Scanning
<1> QED
  BY <1>1, AnyPointFits, IdleFits DEF FastEnded

LEMMA CutShortInv == ASSUME IInv, NEW p \in Runs, CutShort(p) PROVE IInv' /\ Kept
<1>1. /\ UNCHANGED <<chainVars, active, lease, created, cursor, match, origin, missed, lagged>>
      /\ faults' \in Nat
  BY FaultType DEF CutShort
<1>2. CASE Step(p, Ending)
  BY <1>1, <1>2, IdleFits, RunStep, Bookkeeping
<1>3. CASE run[p].pc = "fastread" /\ Step(p, FastEnded(run[p]))
  <2>1. RunFits(FastEnded(run[p]), finalized, where, match, created, cursor)
    BY <1>3, RunCarries, FastEndedFits
  <2> QED
    BY <1>1, <1>3, <2>1, RunStep, Bookkeeping
<1> QED
  BY <1>2, <1>3 DEF CutShort

(***************************************************************************)
(* The durable scan                                                        *)
(***************************************************************************)
LEMMA ReadWholeInv == ASSUME IInv, NEW p \in Runs, ReadWhole(p) PROVE IInv' /\ Kept
<1> DEFINE r == run[p]
           found == Found(r.rules, r.cur.durable + 1, r.to, head)
           mine == [r EXCEPT !.pc = "final", !.pending = found]
<1>1. /\ r \in Run /\ r.pc = "range" /\ RunFits(r, finalized, where, match, created, cursor)
      /\ r.cur.durable \in Nat /\ r.to \in Nat /\ r.fin \in Nat \cup {NoBlock}
      /\ head \in Nat /\ finalized \in Nat /\ finalized <= head
  BY RunIsFit DEF ReadWhole, Run, Cursor, IInv, DataOK
<1>2. r.to <= head
  BY <1>1 DEF RunFits, ScanFits, Scanning
<1>3. \A x \in found : /\ x \in Hits \X Nat /\ where[x[1][1]] = x[2]
                      /\ x[2] \in r.cur.durable + 1 .. r.to
  BY <1>1, FoundIsThere
<1>4. \A x \in found : where[x[1][1]] = x[2] /\ x[2] \in 1 .. r.to
  BY <1>1, <1>3
<1>5. \A m \in Hits : where[m[1]] \in r.cur.durable + 1 .. r.to /\ m[2] \in r.rules
                      => <<m, where[m[1]]>> \in found
  BY <1>1, <1>2, AllIsFound
<1>6. Step(p, mine)
  BY DEF ReadWhole
<1>7. found \in SUBSET (Hits \X Nat)
  BY <1>3
<1> HIDE DEF found
<1>8. /\ mine \in Run /\ mine.pc = "final" /\ mine.pending = found /\ mine.rules = r.rules
      /\ mine.fin = r.fin /\ mine.cur = r.cur /\ mine.fresh = r.fresh /\ mine.to = r.to
      /\ mine.ends = r.ends /\ mine.span = r.span /\ mine.ceiling = r.ceiling
      /\ mine.fitted = r.fitted
  BY <1>1, <1>7 DEF Run, PC
<1> HIDE DEF mine, r
<1>9. ScanFits(mine, finalized, where, match)
  BY <1>1, <1>4, <1>5, <1>8 DEF RunFits, ScanFits, Scanning
<1>10. ViewFits(mine, created, cursor)
  BY <1>1, <1>8 DEF RunFits, ViewFits
<1> QED
  BY <1>6, <1>8, <1>9, <1>10, RunStep, Bookkeeping DEF ReadWhole, RunFits

LEMMA ReadLaggingInv == ASSUME IInv, NEW p \in Runs, ReadLagging(p) PROVE IInv' /\ Kept
<1>1. faults' \in Nat /\ lagged' \in BOOLEAN
  BY FaultType DEF ReadLagging
<1>2. RunFits(ToDrop(run[p]), finalized, where, match, created, cursor)
  BY RunCarries, ToDropFits DEF ReadLagging
<1> QED
  BY <1>1, <1>2, RunStep, Bookkeeping DEF ReadLagging

LEMMA ReadRefusedInv == ASSUME IInv, NEW p \in Runs, ReadRefused(p) PROVE IInv' /\ Kept
<1> DEFINE r == run[p]
           mid == (r.cur.durable + 1 + r.to) \div 2
           split == IF r.split = "no" THEN "refused" ELSE r.split
           mine == [r EXCEPT !.to = mid, !.ends = r.ends \cup {r.to}, !.split = split]
<1>1. /\ r \in Run /\ r.pc = "range" /\ RunFits(r, finalized, where, match, created, cursor)
      /\ r.cur.durable \in Nat /\ r.to \in Nat /\ r.fin \in Nat \cup {NoBlock}
      /\ r.ends \in SUBSET Nat /\ r.cur.durable + 1 < r.to
  BY RunIsFit DEF ReadRefused, Run, Cursor
<1>2. mid \in Nat /\ r.cur.durable < mid /\ mid < r.to
  BY <1>1
<1>3. split \in {"no", "refused", "halved"}
  BY <1>1 DEF Run
<1>4. Step(p, mine)
  BY DEF ReadRefused
<1> HIDE DEF mid, split
<1>5. /\ mine \in Run /\ mine.pc = "range" /\ mine.to = mid /\ mine.ends = r.ends \cup {r.to}
      /\ mine.fin = r.fin /\ mine.cur = r.cur /\ mine.fresh = r.fresh
      /\ mine.span = r.span /\ mine.ceiling = r.ceiling /\ mine.fitted = r.fitted
  BY <1>1, <1>2, <1>3 DEF Run
<1> HIDE DEF mine, r
<1>6. r.fin \in Nat /\ r.to <= r.fin /\ \A e \in r.ends : r.to < e /\ e <= r.fin
  BY <1>1 DEF RunFits, ScanFits, Scanning
<1>7. \A e \in mine.ends : mid < e /\ e <= r.fin
  BY <1>1, <1>2, <1>5, <1>6
<1>8. mid <= r.fin
  BY <1>1, <1>2, <1>6
<1>9. ScanFits(mine, finalized, where, match)
  BY <1>1, <1>2, <1>5, <1>6, <1>7, <1>8 DEF RunFits, ScanFits, Scanning
<1>10. ViewFits(mine, created, cursor)
  BY <1>1, <1>5 DEF RunFits, ViewFits
<1>11. faults' \in Nat
  BY FaultType DEF ReadRefused
<1> QED
  BY <1>4, <1>5, <1>9, <1>10, <1>11, RunStep, Bookkeeping DEF ReadRefused, RunFits

\* A run that has written one of its matches.
LEMMA OneLess ==
  ASSUME NEW r \in Run, NEW x
  PROVE  LET n == [r EXCEPT !.pending = @ \ {x}]
         IN /\ n \in Run /\ n.pending = r.pending \ {x} /\ n.pc = r.pc /\ n.rules = r.rules
            /\ n.fin = r.fin /\ n.cur = r.cur /\ n.fresh = r.fresh /\ n.to = r.to
            /\ n.ends = r.ends /\ n.span = r.span /\ n.ceiling = r.ceiling
            /\ n.fitted = r.fitted
BY DEF Run

LEMMA WriteFinalInv == ASSUME IInv, NEW p \in Runs, WriteFinal(p) PROVE IInv' /\ Kept
<1> DEFINE r == run[p]
<1>1. /\ r \in Run /\ r.pc = "final" /\ RunFits(r, finalized, where, match, created, cursor)
      /\ r.pending \in SUBSET (Hits \X Nat) /\ r.to \in Nat /\ r.fin \in Nat \cup {NoBlock}
      /\ finalized \in Nat /\ match \in [Hits -> Row]
  BY RunIsFit DEF WriteFinal, Run, IInv, DataOK
<1>2. PICK x \in r.pending :
         /\ match' = [match EXCEPT ![x[1]] = IF @.status = "final" THEN @
                                             ELSE [status |-> "final", block |-> x[2]]]
         /\ Step(p, [r EXCEPT !.pending = @ \ {x}])
  BY DEF WriteFinal
<1> DEFINE m == x[1]
           new == IF match[m].status = "final" THEN match[m]
                  ELSE [status |-> "final", block |-> x[2]]
           mine == [r EXCEPT !.pending = @ \ {x}]
<1>3. m \in Hits /\ x[2] \in Nat /\ x = <<m, x[2]>>
  BY <1>1
<1>4. match' = [match EXCEPT ![m] = new] /\ Step(p, mine)
  BY <1>2
<1>5. where[m[1]] = x[2] /\ x[2] \in 1 .. finalized
  <2>1. where[m[1]] = x[2] /\ x[2] \in 1 .. r.to
    BY <1>1 DEF RunFits, ScanFits
  <2>2. r.fin # NoBlock /\ r.to <= r.fin /\ r.fin <= finalized
    BY <1>1 DEF RunFits, ScanFits, Scanning
  <2> QED
    BY <1>1, <2>1, <2>2
<1>6. new = [status |-> "final", block |-> where[m[1]]]
  <2>1. match[m] \in Row
    BY <1>1, <1>3
  <2>2. match[m].status = "final" => match[m].block = where[m[1]]
    BY <1>3 DEF IInv, FinalIsOnChain
  <2>3. match[m] = [status |-> match[m].status, block |-> match[m].block]
    BY <2>1 DEF Row
  <2> QED
    BY <1>5, <2>2, <2>3
<1>7. new \in Row /\ new.status = "final" /\ new.block = where[m[1]]
      /\ where[m[1]] \in 1 .. finalized
  BY <1>3, <1>5, <1>6 DEF Row
<1>8. match[m].status = "final" => new = match[m]
  OBVIOUS
<1> HIDE DEF new
<1>9. /\ mine \in Run /\ mine.pending = r.pending \ {x} /\ mine.pc = r.pc /\ mine.rules = r.rules
      /\ mine.fin = r.fin /\ mine.cur = r.cur /\ mine.fresh = r.fresh /\ mine.to = r.to
      /\ mine.ends = r.ends /\ mine.span = r.span /\ mine.ceiling = r.ceiling
      /\ mine.fitted = r.fitted
  BY <1>1, OneLess
<1> HIDE DEF mine, r
<1>10. ASSUME NEW n \in Hits, where[n[1]] \in r.cur.durable + 1 .. r.to, n[2] \in r.rules
       PROVE  \/ match'[n] = [status |-> "final", block |-> where[n[1]]]
              \/ <<n, where[n[1]]>> \in mine.pending
  <2>1. CASE n = m
    BY <1>1, <1>3, <1>4, <1>6, <2>1
  <2>2. CASE n # m
    <3>1. match'[n] = match[n] /\ <<n, where[n[1]]>> # x
      BY <1>1, <1>3, <1>4, <2>2
    <3>2. \/ match[n] = [status |-> "final", block |-> where[n[1]]]
          \/ <<n, where[n[1]]>> \in r.pending
      BY <1>1, <1>10 DEF RunFits, ScanFits
    <3> QED
      BY <1>9, <3>1, <3>2
  <2> QED
    BY <2>1, <2>2
<1>11. ScanFits(mine, finalized, where, match')
  BY <1>1, <1>9, <1>10 DEF RunFits, ScanFits
<1>12. RunFits(mine, finalized, where, match', created, cursor)
  BY <1>1, <1>9, <1>11 DEF RunFits, ViewFits
<1>13. IInv'
  BY <1>3, <1>4, <1>7, <1>8, <1>12, RowStep DEF WriteFinal, Step, chainVars
<1>14. Kept
  <2>1. cursor.durable \in Nat
    BY DEF IInv, DataOK, Cursor
  <2> QED
    BY <1>1, <1>3, <1>4, <1>8, <2>1 DEF Kept, WriteFinal
<1> QED
  BY <1>13, <1>14

\* What the size of the next range carries on.
LEMMA ResizedType ==
  ASSUME NEW r \in Run, r.span > 0, r.ceiling > 0, r.fitted # NoBlock => r.fitted > 0,
         r.cur.durable < r.to
  PROVE  LET n == Resized(r)
         IN /\ n \in Run /\ n.span > 0 /\ n.ceiling > 0 /\ (n.fitted # NoBlock => n.fitted > 0)
            /\ n.pc = r.pc /\ n.rules = r.rules /\ n.fin = r.fin /\ n.cur = r.cur
            /\ n.fresh = r.fresh /\ n.to = r.to /\ n.ends = r.ends
<1> DEFINE size == r.to - r.cur.durable
           ceiling == IF r.split = "refused" /\ r.fitted # NoBlock
                      THEN Smaller(r.ceiling, r.fitted) ELSE r.ceiling
           double == Smaller(r.ceiling, r.span * 2)
<1>1. /\ r.to \in Nat /\ r.cur.durable \in Nat /\ r.span \in Nat /\ r.ceiling \in Nat
      /\ r.fitted \in Nat \cup {NoBlock}
  BY DEF Run, Cursor
<1>2. size \in Nat /\ size > 0
  BY <1>1
<1>3. ceiling \in Nat /\ ceiling > 0
  BY <1>1 DEF Smaller
<1>4. double \in Nat /\ double > 0
  BY <1>1 DEF Smaller
<1>5. Resized(r) = IF r.split = "no"
                   THEN [r EXCEPT !.span = double, !.fitted = size]
                   ELSE [r EXCEPT !.span = size, !.ceiling = ceiling, !.split = "halved",
                                  !.fitted = size]
  BY DEF Resized
<1> HIDE DEF size, ceiling, double
<1>6. CASE r.split = "no"
  <2> DEFINE n == [r EXCEPT !.span = double, !.fitted = size]
  <2>1. /\ n \in Run /\ n.span = double /\ n.ceiling = r.ceiling /\ n.fitted = size
        /\ n.pc = r.pc /\ n.rules = r.rules /\ n.fin = r.fin /\ n.cur = r.cur
        /\ n.fresh = r.fresh /\ n.to = r.to /\ n.ends = r.ends
    BY <1>2, <1>4 DEF Run
  <2>2. Resized(r) = n
    BY <1>5, <1>6
  <2> HIDE DEF n
  <2> QED
    BY <1>2, <1>4, <2>1, <2>2
<1>7. CASE r.split # "no"
  <2> DEFINE n == [r EXCEPT !.span = size, !.ceiling = ceiling, !.split = "halved",
                            !.fitted = size]
  <2>1. /\ n \in Run /\ n.span = size /\ n.ceiling = ceiling /\ n.fitted = size
        /\ n.pc = r.pc /\ n.rules = r.rules /\ n.fin = r.fin /\ n.cur = r.cur
        /\ n.fresh = r.fresh /\ n.to = r.to /\ n.ends = r.ends
    BY <1>2, <1>3 DEF Run
  <2>2. Resized(r) = n
    BY <1>5, <1>7
  <2> HIDE DEF n
  <2> QED
    BY <1>2, <1>3, <2>1, <2>2
<1> QED
  BY <1>6, <1>7

\* On to the rest of a halved range, from where the cursor is now.
LEMMA NextRangeFits ==
  ASSUME NEW r, NEW f, NEW w, NEW mt, NEW cr, NEW cu, Carries(r, f, cr, cu),
         r.fin # NoBlock, r.ends # {}, \A e \in r.ends : r.cur.durable < e /\ e <= r.fin
  PROVE  RunFits([r EXCEPT !.pc = "range", !.to = Least(r.ends), !.ends = @ \ {Least(r.ends)}],
                 f, w, mt, cr, cu)
<1> DEFINE to == Least(r.ends)
           n == [r EXCEPT !.pc = "range", !.to = to, !.ends = @ \ {to}]
<1>1. r \in Run /\ r.ends \in SUBSET Nat
  BY DEF Carries, Run
<1>2. to \in r.ends /\ \A y \in r.ends : to <= y
  BY <1>1, LeastIsLeast
<1>3. to \in Nat /\ \A y \in r.ends \ {to} : to < y
  BY <1>1, <1>2
<1> HIDE DEF to
<1>4. /\ n \in Run /\ n.pc = "range" /\ n.to = to /\ n.ends = r.ends \ {to}
      /\ n.fin = r.fin /\ n.cur = r.cur /\ n.fresh = r.fresh
      /\ n.span = r.span /\ n.ceiling = r.ceiling /\ n.fitted = r.fitted
  BY <1>1, <1>3 DEF Run, PC
<1> HIDE DEF n
<1>5. RunFits(n, f, w, mt, cr, cu)
  BY <1>2, <1>3, <1>4 DEF RunFits, ScanFits, ViewFits, Scanning, Carries
<1> QED
  BY <1>5 DEF n, to

LEMMA SaveChunkInv == ASSUME IInv, NEW p \in Runs, SaveChunk(p) PROVE IInv' /\ Kept
<1> DEFINE mine == run[p]
           r == Resized(mine)
           next == [mine.cur EXCEPT !.durable = mine.to]
           at == [r EXCEPT !.cur = next, !.pending = {}]
           new == IF r.ends = {} THEN ToDurable(at)
                  ELSE [at EXCEPT !.pc = "range", !.to = Least(r.ends), !.ends = @ \ {Least(r.ends)}]
<1>1. /\ mine \in Run /\ mine.pc = "final" /\ mine.pending = {} /\ mine.fresh
      /\ RunFits(mine, finalized, where, match, created, cursor)
      /\ mine.cur \in Cursor /\ mine.cur.durable \in Nat /\ mine.to \in Nat
      /\ mine.fin \in Nat \cup {NoBlock} /\ mine.ends \in SUBSET Nat
  BY RunIsFit DEF SaveChunk, ChunkWritten, SaveCursor, Run, Cursor
<1>2. /\ mine.fin # NoBlock /\ mine.cur.durable < mine.to /\ mine.to <= mine.fin
      /\ mine.fin <= finalized /\ \A e \in mine.ends : mine.to < e /\ e <= mine.fin
      /\ mine.span > 0 /\ mine.ceiling > 0 /\ (mine.fitted # NoBlock => mine.fitted > 0)
  BY <1>1 DEF RunFits, ScanFits, Scanning
<1>3. created /\ cursor = mine.cur
  BY <1>1 DEF RunFits, ViewFits
<1>4. /\ r \in Run /\ r.span > 0 /\ r.ceiling > 0 /\ (r.fitted # NoBlock => r.fitted > 0)
      /\ r.fin = mine.fin /\ r.fresh = mine.fresh /\ r.ends = mine.ends
  BY <1>1, <1>2, ResizedType
<1>5. next \in Cursor /\ next.durable = mine.to
  BY <1>1 DEF Cursor
<1>6. SaveCursor(p, next, new)
  BY DEF SaveChunk
<1> HIDE DEF r, next
<1>7. /\ at \in Run /\ at.cur = next /\ at.fin = mine.fin /\ at.fresh = mine.fresh
      /\ at.span = r.span /\ at.ceiling = r.ceiling /\ at.fitted = r.fitted
      /\ at.ends = mine.ends
  BY <1>4, <1>5 DEF Run
<1> HIDE DEF at, mine
<1>8. Carries(at, finalized, TRUE, next)
  BY <1>2, <1>4, <1>7 DEF Carries
<1>9. RunFits(new, finalized, where, match, TRUE, next)
  <2>1. CASE r.ends = {}
    BY <1>8, <2>1, ToDurableFits
  <2>2. CASE r.ends # {}
    <3>1. \A e \in at.ends : at.cur.durable < e /\ e <= at.fin
      BY <1>2, <1>5, <1>7
    <3>2. at.ends # {} /\ at.ends = r.ends /\ at.fin # NoBlock
      BY <1>2, <1>4, <1>7, <2>2
    <3> QED
      BY <1>8, <2>2, <3>1, <3>2, NextRangeFits
  <2> QED
    BY <2>1, <2>2
<1> HIDE DEF new
<1>10. /\ created' /\ created' = TRUE /\ cursor' = next
       /\ UNCHANGED <<head, finalized, where, reorgs, active, lease, match, origin, lagged, faults>>
       /\ missed' = Missed(mine, mine.to)
  BY <1>3, <1>6 DEF SaveChunk, SaveCursor, chainVars, IInv, DataOK, mine
<1>11. RunsFit'
  BY <1>6, <1>9, <1>10, CursorStep
<1>12. missed \subseteq missed' /\ missed' \subseteq Rules \X Nat
  BY <1>1, <1>10 DEF Missed, IInv, DataOK
<1>13. ASSUME NEW m \in Hits, where[m[1]] \in cursor.durable + 1 .. cursor'.durable,
              <<m[2], where[m[1]]>> \notin missed'
       PROVE  match[m] = [status |-> "final", block |-> where[m[1]]]
  <2>1. where[m[1]] \in mine.cur.durable + 1 .. mine.to
    BY <1>3, <1>5, <1>10, <1>13
  <2>2. m[2] \in mine.rules
    BY <1>10, <1>13, <2>1, HitParts DEF Missed
  <2> QED
    BY <1>1, <2>1, <2>2 DEF RunFits, ScanFits
<1>14. cursor' \in Cursor /\ cursor.durable <= cursor'.durable /\ cursor'.durable <= finalized
  <2>1. finalized \in Nat
    BY DEF IInv, DataOK
  <2> QED
    BY <1>1, <1>2, <1>3, <1>5, <1>10, <2>1
<1> QED
  BY <1>3, <1>10, <1>11, <1>12, <1>13, <1>14, PassingStep

LEMMA SkipAheadInv == ASSUME IInv, NEW p \in Runs, SkipAhead(p) PROVE IInv' /\ Kept
<1> DEFINE mine == run[p]
           next == [mine.cur EXCEPT !.durable = mine.fin]
           at == [mine EXCEPT !.cur = next, !.fresh = TRUE]
<1>1. /\ mine \in Run /\ mine.pc = "skip" /\ mine.fresh
      /\ RunFits(mine, finalized, where, match, created, cursor)
      /\ mine.cur \in Cursor /\ mine.cur.durable \in Nat /\ mine.fin \in Nat \cup {NoBlock}
  BY RunIsFit DEF SkipAhead, SaveCursor, Run, Cursor
<1>2. /\ mine.fin \in Nat /\ mine.cur.durable < mine.fin /\ mine.fin <= finalized
      /\ mine.rules = {}
      /\ mine.span > 0 /\ mine.ceiling > 0 /\ (mine.fitted # NoBlock => mine.fitted > 0)
  BY <1>1 DEF RunFits, ScanFits
<1>3. created /\ cursor = mine.cur
  BY <1>1 DEF RunFits, ViewFits
<1>4. next \in Cursor /\ next.durable = mine.fin
  BY <1>1, <1>2 DEF Cursor
<1>5. SaveCursor(p, next, ToDurable(at))
  BY DEF SkipAhead, Saved
<1> HIDE DEF next
<1>6. /\ at \in Run /\ at.cur = next /\ at.fin = mine.fin
      /\ at.span = mine.span /\ at.ceiling = mine.ceiling /\ at.fitted = mine.fitted
  BY <1>1, <1>4 DEF Run
<1> HIDE DEF at, mine
<1>7. Carries(at, finalized, TRUE, next)
  BY <1>2, <1>6 DEF Carries
<1>8. /\ created' = TRUE /\ cursor' = next
      /\ UNCHANGED <<head, finalized, where, reorgs, active, lease, match, origin, lagged, faults>>
      /\ missed' = Missed(mine, mine.fin)
  BY <1>3, <1>5 DEF SkipAhead, SaveCursor, chainVars, IInv, DataOK, mine
<1>9. RunsFit'
  BY <1>5, <1>7, <1>8, CursorStep, ToDurableFits
<1>10. missed \subseteq missed' /\ missed' \subseteq Rules \X Nat
  BY <1>1, <1>8 DEF Missed, IInv, DataOK
<1>11. ASSUME NEW m \in Hits, where[m[1]] \in cursor.durable + 1 .. cursor'.durable
       PROVE  <<m[2], where[m[1]]>> \in missed'
  BY <1>2, <1>3, <1>4, <1>8, <1>11, HitParts DEF Missed
<1>12. cursor' \in Cursor /\ cursor.durable <= cursor'.durable /\ cursor'.durable <= finalized
  BY <1>1, <1>2, <1>3, <1>4, <1>8
<1> QED
  BY <1>3, <1>8, <1>9, <1>10, <1>11, <1>12, PassingStep

LEMMA QueryStaleInv == ASSUME IInv, NEW p \in Runs, QueryStale(p) PROVE IInv' /\ Kept
<1> DEFINE r == run[p]
           stale == Stale(r.cur.durable)
           mine == [r EXCEPT !.pc = "dropping", !.pending = stale]
<1>1. r \in Run /\ r.pc = "drop" /\ Carries(r, finalized, created, cursor)
  BY RunIsFit, RunCarries DEF QueryStale
<1>2. r.cur.durable \in Nat
  BY <1>1 DEF Run, Cursor
<1>3. stale \in SUBSET (Hits \X Nat)
  BY <1>2, BlocksAssumption DEF Stale
<1>4. Step(p, mine)
  BY DEF QueryStale
<1> HIDE DEF stale
<1>5. /\ mine \in Run /\ mine.pc = "dropping" /\ mine.fin = r.fin /\ mine.cur = r.cur
      /\ mine.fresh = r.fresh /\ mine.span = r.span /\ mine.ceiling = r.ceiling
      /\ mine.fitted = r.fitted
  BY <1>1, <1>3 DEF Run, PC
<1> HIDE DEF mine, r
<1>6. RunFits(mine, finalized, where, match, created, cursor)
  BY <1>1, <1>5 DEF RunFits, ScanFits, ViewFits, Scanning, Carries
<1> QED
  BY <1>4, <1>6, RunStep, Bookkeeping DEF QueryStale

\* A write that is not of a final match, by a run that holds no range.
LEMMA ProvisionalStep ==
  ASSUME IInv, NEW p \in Runs, run[p].pc \in {"dropping", "fastwrite"}, NEW x \in run[p].pending,
         NEW new, new \in Row, match[x[1]].status = "final" => new = match[x[1]],
         new.status = "final" => new = match[x[1]],
         match' = [match EXCEPT ![x[1]] = new],
         Step(p, [run[p] EXCEPT !.pending = @ \ {x}]),
         UNCHANGED <<chainVars, active, lease, created, cursor, origin, missed, lagged, faults>>
  PROVE  IInv' /\ Kept
<1> DEFINE r == run[p]
           m == x[1]
           mine == [r EXCEPT !.pending = @ \ {x}]
<1>1. /\ r \in Run /\ Carries(r, finalized, created, cursor) /\ r.pc \in {"dropping", "fastwrite"}
      /\ match \in [Hits -> Row] /\ cursor.durable \in Nat
  BY RunIsFit, RunCarries DEF IInv, DataOK, Cursor
<1>2. m \in Hits
  BY <1>1 DEF Run
<1>3. /\ mine \in Run /\ mine.pc = r.pc /\ mine.fin = r.fin /\ mine.cur = r.cur
      /\ mine.fresh = r.fresh /\ mine.span = r.span /\ mine.ceiling = r.ceiling
      /\ mine.fitted = r.fitted
  BY <1>1, OneLess
<1>4. run' = [run EXCEPT ![p] = mine]
  BY DEF Step
<1> HIDE DEF mine, r
<1>5. RunFits(mine, finalized, where, match', created, cursor)
  BY <1>1, <1>3 DEF RunFits, ScanFits, ViewFits, Scanning, Carries
<1>6. new.status = "final" => new.block = where[m[1]] /\ where[m[1]] \in 1 .. finalized
  BY <1>2 DEF IInv, FinalIsOnChain
<1> HIDE DEF m
<1>7. match' = [match EXCEPT ![m] = new] /\ (match[m].status = "final" => new = match[m])
  BY DEF m
<1>8. UNCHANGED <<head, finalized, where, active, lease, created, cursor, origin, missed,
                  reorgs, lagged, faults>>
  BY DEF chainVars
<1>9. new \in Row
  OBVIOUS
<1>10. IInv'
  BY ONLY IInv, p \in Runs, <1>2, <1>4, <1>5, <1>6, <1>7, <1>8, <1>9, RowStep
<1> QED
  BY <1>1, <1>2, <1>7, <1>8, <1>10 DEF Kept

LEMMA DropOneInv == ASSUME IInv, NEW p \in Runs, DropOne(p) PROVE IInv' /\ Kept
<1>1. PICK x \in run[p].pending : /\ match' = [match EXCEPT ![x[1]] = DroppedRow(@)]
                                 /\ Step(p, [run[p] EXCEPT !.pending = @ \ {x}])
  BY DEF DropOne
<1> DEFINE new == DroppedRow(match[x[1]])
<1>2. match[x[1]] \in Row
  BY RunIsFit DEF Run, IInv, DataOK
<1>3. new \in Row /\ (match[x[1]].status = "final" => new = match[x[1]])
      /\ (new.status = "final" => new = match[x[1]])
  BY <1>2 DEF DroppedRow, Row
<1>4. match' = [match EXCEPT ![x[1]] = new]
  BY <1>1
<1> HIDE DEF new
<1> QED
  BY <1>1, <1>3, <1>4, ProvisionalStep, ZenonT(60) DEF DropOne

LEMMA DropsDoneInv == ASSUME IInv, NEW p \in Runs, DropsDone(p) PROVE IInv' /\ Kept
<1>1. RunFits(ToFast(run[p]), finalized, where, match, created, cursor)
  BY RunCarries, ToFastFits DEF DropsDone
<1> QED
  BY <1>1, RunStep, Bookkeeping DEF DropsDone

(***************************************************************************)
(* The fast scan                                                           *)
(***************************************************************************)
\* A write of the fast half of the cursor passes no final block.
LEMMA FastCursorStep ==
  ASSUME IInv, NEW p \in Runs, run[p].pc \in {"lower", "fastsave"}, NEW f \in Nat, NEW mine,
         SaveCursor(p, [run[p].cur EXCEPT !.fast = f], mine),
         UNCHANGED <<chainVars, active, lease, created, match, origin, missed, lagged, faults>>,
         RunFits(mine, finalized, where, match, TRUE, [run[p].cur EXCEPT !.fast = f])
  PROVE  IInv' /\ Kept
<1> DEFINE r == run[p]
           next == [r.cur EXCEPT !.fast = f]
<1>1. /\ r \in Run /\ r.fresh /\ RunFits(r, finalized, where, match, created, cursor)
      /\ r.cur \in Cursor /\ r.cur.durable \in Nat
  BY RunIsFit DEF SaveCursor, Run, Cursor
<1>2. created /\ cursor = r.cur
  BY <1>1 DEF RunFits, ViewFits
<1>3. next \in Cursor /\ next.durable = r.cur.durable
  BY <1>1 DEF Cursor
<1>4. SaveCursor(p, next, mine) /\ RunFits(mine, finalized, where, match, TRUE, next)
  BY <1>3
<1> HIDE DEF next, r
<1>5. /\ created' = TRUE /\ cursor' = next
      /\ UNCHANGED <<head, finalized, where, active, lease, match, origin, reorgs, lagged, faults,
                     missed>>
  BY <1>2, <1>4 DEF SaveCursor, chainVars, IInv, DataOK
<1>6. RunsFit'
  BY <1>4, <1>5, CursorStep
<1>7. /\ cursor' \in Cursor /\ cursor.durable <= cursor'.durable
      /\ cursor'.durable = cursor.durable
      /\ \A m \in Hits : where[m[1]] \notin cursor.durable + 1 .. cursor'.durable
  BY <1>1, <1>2, <1>3, <1>5
<1>8. missed \subseteq missed' /\ missed' \subseteq Rules \X Nat
  BY <1>5 DEF IInv, DataOK
<1> QED
  BY <1>2, <1>5, <1>6, <1>7, <1>8, PassingStep

LEMMA LowerFastInv == ASSUME IInv, NEW p \in Runs, LowerFast(p) PROVE IInv' /\ Kept
<1> DEFINE r == run[p]
           next == [r.cur EXCEPT !.fast = r.head]
           at == [r EXCEPT !.cur = next, !.fresh = TRUE]
           mine == IF r.from < r.head THEN [at EXCEPT !.pc = "fastread"] ELSE Ending
<1>1. r \in Run /\ r.pc = "lower" /\ Carries(r, finalized, created, cursor)
      /\ r.head \in Nat /\ r.cur \in Cursor
  BY RunIsFit, RunCarries DEF LowerFast, Run
<1>2. next \in Cursor
  BY <1>1 DEF Cursor
<1>3. SaveCursor(p, next, mine)
  BY DEF LowerFast, Saved
<1> HIDE DEF next
<1>4. /\ at \in Run /\ at.cur = next /\ at.fin = r.fin
      /\ at.span = r.span /\ at.ceiling = r.ceiling /\ at.fitted = r.fitted
  BY <1>1, <1>2 DEF Run
<1> HIDE DEF at
<1>5. Carries(at, finalized, TRUE, next)
  BY <1>1, <1>4 DEF Carries
<1>6. "fastread" \in PC \ ({"create", "skip"} \cup Scanning)
  BY DEF PC, Scanning
<1>7. RunFits(mine, finalized, where, match, TRUE, next)
  BY <1>5, <1>6, AnyPointFits, IdleFits
<1> HIDE DEF mine
<1>8. UNCHANGED <<chainVars, active, lease, created, match, origin, missed, lagged, faults>>
  BY DEF LowerFast
<1>9. next = [run[p].cur EXCEPT !.fast = run[p].head]
  BY DEF next
<1>10. run[p].head \in Nat /\ run[p].pc \in {"lower", "fastsave"}
  BY <1>1
<1> QED
  BY ONLY IInv, p \in Runs, <1>3, <1>7, <1>8, <1>9, <1>10, FastCursorStep

LEMMA SaveFastInv == ASSUME IInv, NEW p \in Runs, SaveFast(p) PROVE IInv' /\ Kept
<1>1. FastBlock(run[p]) \in Nat
  BY RunIsFit DEF FastBlock, Larger, Run, Cursor
<1> QED
  BY <1>1, IdleFits, FastCursorStep DEF SaveFast

LEMMA FastReadInv == ASSUME IInv, NEW p \in Runs, FastRead(p) PROVE IInv' /\ Kept
<1> DEFINE r == run[p]
           logs(n) == Found(r.rules, r.reached + 1, ChunkEnd(r), n)
<1>1. PICK v \in 0 .. head :
         /\ IF logs(v) = logs(head) THEN UNCHANGED <<lagged, faults>> ELSE Lag
         /\ Step(p, [r EXCEPT !.pc = "fastwrite", !.pending = logs(v)])
  BY DEF FastRead
<1> DEFINE found == logs(v)
           mine == [r EXCEPT !.pc = "fastwrite", !.pending = found]
<1>2. r \in Run /\ r.pc = "fastread" /\ Carries(r, finalized, created, cursor)
  BY RunIsFit, RunCarries DEF FastRead
<1>3. v \in Nat /\ r.reached + 1 \in Nat /\ ChunkEnd(r) \in Nat
  BY <1>2, BlocksAssumption DEF Run, ChunkEnd, Smaller, IInv, DataOK
<1>4. found \in SUBSET (Hits \X Nat)
  BY <1>3, FoundIsThere
<1>5. Step(p, mine) /\ faults' \in Nat /\ lagged' \in BOOLEAN
  BY <1>1, Bookkeeping, FaultType
<1> HIDE DEF found
<1>6. /\ mine \in Run /\ mine.pc = "fastwrite" /\ mine.fin = r.fin /\ mine.cur = r.cur
      /\ mine.fresh = r.fresh /\ mine.span = r.span /\ mine.ceiling = r.ceiling
      /\ mine.fitted = r.fitted
  BY <1>2, <1>4 DEF Run, PC
<1> HIDE DEF mine, r
<1>7. RunFits(mine, finalized, where, match, created, cursor)
  BY <1>2, <1>6 DEF RunFits, ScanFits, ViewFits, Scanning, Carries
<1> QED
  BY <1>5, <1>7, RunStep, Bookkeeping DEF FastRead

LEMMA WriteProvisionalInv ==
  ASSUME IInv, NEW p \in Runs, WriteProvisional(p)
  PROVE  IInv' /\ Kept
<1>1. PICK x \in run[p].pending :
         /\ match' = [match EXCEPT ![x[1]] = IF @.status # "none" THEN @
                                             ELSE [status |-> "provisional", block |-> x[2]]]
         /\ Step(p, [run[p] EXCEPT !.pending = @ \ {x}])
  BY DEF WriteProvisional
<1> DEFINE new == IF match[x[1]].status # "none" THEN match[x[1]]
                  ELSE [status |-> "provisional", block |-> x[2]]
<1>2. match[x[1]] \in Row /\ x[2] \in Nat
  BY RunIsFit DEF Run, IInv, DataOK
<1>3. new \in Row /\ (match[x[1]].status = "final" => new = match[x[1]])
      /\ (new.status = "final" => new = match[x[1]])
  BY <1>2 DEF Row
<1>4. match' = [match EXCEPT ![x[1]] = new]
  BY <1>1
<1> HIDE DEF new
<1>5. run[p].pc \in {"dropping", "fastwrite"}
      /\ UNCHANGED <<chainVars, active, lease, created, cursor, origin, missed, lagged, faults>>
  BY DEF WriteProvisional
<1> QED
  BY ONLY IInv, p \in Runs, x \in run[p].pending, <1>1, <1>3, <1>4, <1>5, ProvisionalStep, ZenonT(60)

LEMMA FastChunkDoneInv ==
  ASSUME IInv, NEW p \in Runs, FastChunkDone(p)
  PROVE  IInv' /\ Kept
<1> DEFINE r == [run[p] EXCEPT !.reached = ChunkEnd(run[p])]
           mine == IF r.reached < r.head THEN [r EXCEPT !.pc = "fastread"] ELSE FastEnded(r)
<1>1. run[p] \in Run /\ Carries(run[p], finalized, created, cursor)
  BY RunIsFit, RunCarries DEF FastChunkDone
<1>2. ChunkEnd(run[p]) \in Nat
  BY <1>1, BlocksAssumption DEF Run, ChunkEnd, Smaller
<1>3. /\ r \in Run /\ r.fin = run[p].fin /\ r.cur = run[p].cur /\ r.fresh = run[p].fresh
      /\ r.span = run[p].span /\ r.ceiling = run[p].ceiling /\ r.fitted = run[p].fitted
  BY <1>1, <1>2 DEF Run
<1>4. Step(p, mine)
  BY DEF FastChunkDone
<1> HIDE DEF r
<1>5. Carries(r, finalized, created, cursor)
  BY <1>1, <1>3 DEF Carries
<1>6. "fastread" \in PC \ ({"create", "skip"} \cup Scanning)
  BY DEF PC, Scanning
<1>7. RunFits(mine, finalized, where, match, created, cursor)
  BY <1>5, <1>6, AnyPointFits, FastEndedFits
<1> HIDE DEF mine
<1> QED
  BY <1>4, <1>7, RunStep, Bookkeeping DEF FastChunkDone

(***************************************************************************)
(* The invariant                                                           *)
(***************************************************************************)
LEMMA InitInv == Init => IInv
<1> SUFFICES ASSUME Init
             PROVE  IInv
  OBVIOUS
<1>1. DataOK
  <2>1. NoCursor \in Cursor
    BY DEF NoCursor, Cursor
  <2>2. where \in [Txs -> Nat] /\ match \in [Hits -> Row]
    BY DEF Init, Row
  <2>3. head \in Nat /\ finalized \in Nat /\ finalized <= head /\ origin \in Nat
        /\ reorgs \in Nat /\ faults \in Nat /\ active \subseteq Rules
        /\ missed \subseteq Rules \X Nat /\ lease \in Runs \cup {NoOne}
    BY DEF Init
  <2>4. created \in BOOLEAN /\ lagged \in BOOLEAN
    BY DEF Init
  <2>5. cursor \in Cursor
    BY <2>1 DEF Init
  <2> QED
    BY ONLY <2>2, <2>3, <2>4, <2>5 DEF DataOK
<1>2. ~created
  BY DEF Init
<1>3. RunsFit
  BY IdleFits DEF Init, RunsFit
<1>4. FinalIsOnChain
  BY DEF Init, FinalIsOnChain
<1> QED
  BY <1>1, <1>2, <1>3, <1>4 DEF IInv, CursorFits, CursorCovers

LEMMA WorksInv == ASSUME IInv, NEW p \in Runs, Works(p) PROVE IInv' /\ Kept
BY ReadCursorInv, CreateInv, EndInv, ReadWholeInv, ReadRefusedInv, WriteFinalInv, SaveChunkInv,
   SkipAheadInv, QueryStaleInv, DropOneInv, DropsDoneInv, LowerFastInv, FastReadInv,
   WriteProvisionalInv, FastChunkDoneInv, SaveFastInv
DEF Works

LEMMA NextInv == ASSUME IInv, [Next]_vars PROVE IInv' /\ Kept
<1>1. CASE Mine \/ Finalize \/ Reorg \/ (\E r \in Rules : Switch(r)) \/ LeaseEnds
  BY <1>1, MineInv, FinalizeInv, ReorgInv, SwitchInv, LeaseEndsInv
<1>2. CASE \E p \in Runs : Begin(p) \/ Works(p) \/ ReadLagging(p) \/ CutShort(p) \/ Crash(p)
  BY <1>2, BeginInv, WorksInv, ReadLaggingInv, CutShortInv, EndInv
<1>3. CASE UNCHANGED vars
  <2>1. RunsFit'
    BY <1>3 DEF vars, IInv, RunsFit
  <2>2. UNCHANGED <<head, finalized, where, created, cursor, match, origin, missed, reorgs>>
        /\ UNCHANGED <<active, lease, lagged, faults>>
    BY <1>3 DEF vars
  <2> QED
    BY <2>1, <2>2, QuietStep, UntouchedIsKept, Bookkeeping
<1> QED
  BY <1>1, <1>2, <1>3 DEF Next

LEMMA SpecInv == Spec => []IInv
BY InitInv, NextInv, PTL DEF Spec

LEMMA InvTypes == IInv => TypeOK
<1> SUFFICES ASSUME IInv
             PROVE  TypeOK
  OBVIOUS
<1>1. run \in [Runs -> Run]
  BY RunIsFit DEF IInv, RunsFit
<1> QED
  BY <1>1 DEF IInv, DataOK, TypeOK

(***************************************************************************)
(* The theorems                                                            *)
(***************************************************************************)
\* Every variable keeps its type (cycle.ts, store.ts), for every range size,
\* overlap and number of runs: no range is ever empty and no block negative.
THEOREM MonitorTypes == Spec => []TypeOK
BY SpecInv, InvTypes, PTL

\* The durable cursor passes no block whose matches are not written as final,
\* whatever crashes, overlaps, is refused or reorganised (cycle.ts:187-191).
THEOREM CursorCoversAll == Spec => []CursorCovers
<1>1. IInv => CursorCovers
  BY DEF IInv
<1> QED
  BY <1>1, SpecInv, PTL

\* A final match is in a finalized block of the chain (cycle.ts:110).
THEOREM FinalStaysOnChain == Spec => []FinalIsOnChain
<1>1. IInv => FinalIsOnChain
  BY DEF IInv
<1> QED
  BY <1>1, SpecInv, PTL

\* No step undoes a final match or moves the durable cursor back
\* (store.ts:148, 281).
THEOREM FinalIsForGood == Spec => FinalForGood
<1>1. IInv /\ [Next]_vars => [Kept]_vars
  BY NextInv
<1>2. [][Kept]_vars => FinalForGood
  BY DEF Kept, FinalForGood
<1> QED
  BY <1>1, <1>2, SpecInv, PTL DEF Spec
(***************************************************************************)
(* The monitor keeps the promise of a match                                *)
(***************************************************************************)
SettledHits == {m \in Hits : where[m[1]] \in 1 .. finalized}

\* Rows that are not written, and a chain that only goes on.
LEMMA WatchedRests ==
  ASSUME UNCHANGED match, SettledHits \subseteq SettledHits'
  PROVE  [Watched!Next]_(Watched!vars)
<1> DEFINE words == [m \in Hits |-> match[m].status]
<1>1. words' = words
  OBVIOUS
<1>2. SettledHits' \in SUBSET Hits
  BY DEF SettledHits
<1> QED
  BY <1>1, <1>2 DEF Watched!Next, Watched!Settle, SettledHits

\* One row is written.
LEMMA WatchedRow ==
  ASSUME IInv, NEW m \in Hits, NEW new, match' = [match EXCEPT ![m] = new], UNCHANGED <<where, finalized>>,
         \/ new.status = match[m].status
         \/ match[m].status = "none" /\ new.status = "provisional"
         \/ match[m].status = "provisional" /\ new.status = "dropped"
         \/ new.status = "final" /\ m \in SettledHits
  PROVE  [Watched!Next]_(Watched!vars)
<1> DEFINE words == [h \in Hits |-> match[h].status]
           there == {h \in Hits : where[h[1]] \in 1 .. finalized}
<1>1. match \in [Hits -> Row]
  BY DEF IInv, DataOK
<1>2. words' = [words EXCEPT ![m] = new.status] /\ words[m] = match[m].status
  BY <1>1
<1>3. there' = there
  OBVIOUS
<1>4. match[m].status \in {"none", "provisional", "final", "dropped"}
  BY <1>1 DEF Row
<1>5. new.status = match[m].status => words' = words
  BY <1>2
<1>6. m \in SettledHits => m \in there
  BY DEF SettledHits
<1> HIDE DEF words, there
<1>7. CASE new.status = match[m].status
  BY <1>3, <1>5, <1>7 DEF Watched!vars, words, there
<1>8. CASE match[m].status = "none" /\ new.status = "provisional"
  <2>1. Watched!Provisional(m)
    BY <1>2, <1>3, <1>8 DEF Watched!Provisional, Watched!Report, words, there
  <2> QED
    BY <2>1 DEF Watched!Next
<1>9. CASE match[m].status = "provisional" /\ new.status = "dropped"
  <2>1. Watched!Drop(m)
    BY <1>2, <1>3, <1>9 DEF Watched!Drop, Watched!Report, words, there
  <2> QED
    BY <2>1 DEF Watched!Next
<1>10. CASE new.status = "final" /\ m \in SettledHits /\ new.status # match[m].status
  <2>1. Watched!Final(m)
    BY <1>2, <1>3, <1>4, <1>6, <1>10 DEF Watched!Final, Watched!Report, words, there
  <2> QED
    BY <2>1 DEF Watched!Next
<1> QED
  BY <1>7, <1>8, <1>9, <1>10

LEMMA WritesWatched ==
  ASSUME IInv, IInv', NEW p \in Runs, WriteFinal(p) \/ DropOne(p) \/ WriteProvisional(p)
  PROVE  [Watched!Next]_(Watched!vars)
<1>1. run[p].pending \in SUBSET (Hits \X Nat) /\ UNCHANGED <<where, finalized>>
  BY RunIsFit DEF Run, WriteFinal, DropOne, WriteProvisional, chainVars
<1>2. match \in [Hits -> Row]
  BY DEF IInv, DataOK
<1>3. CASE WriteFinal(p)
  <2>1. PICK w \in run[p].pending :
          match' = [match EXCEPT ![w[1]] = IF @.status = "final" THEN @
                                           ELSE [status |-> "final", block |-> w[2]]]
    BY <1>3 DEF WriteFinal
  <2> DEFINE new == IF match[w[1]].status = "final" THEN match[w[1]]
                    ELSE [status |-> "final", block |-> w[2]]
  <2>2. w[1] \in Hits /\ match' = [match EXCEPT ![w[1]] = new] /\ new.status = "final"
    BY <1>1, <2>1
  <2> HIDE DEF new
  <2>3. match'[w[1]].status = "final"
    BY <1>2, <2>2
  <2>4. w[1] \in SettledHits
    BY <1>1, <2>2, <2>3 DEF IInv, FinalIsOnChain, SettledHits
  <2> QED
    BY <1>1, <2>2, <2>4, WatchedRow
<1>4. CASE DropOne(p)
  <2>1. PICK w \in run[p].pending : match' = [match EXCEPT ![w[1]] = DroppedRow(@)]
    BY <1>4 DEF DropOne
  <2> DEFINE new == DroppedRow(match[w[1]])
  <2>2. w[1] \in Hits /\ match' = [match EXCEPT ![w[1]] = new]
    BY <1>1, <2>1
  <2>3. match[w[1]] \in Row
    BY <1>2, <2>2
  <2>4. match[w[1]].status # "provisional" => new = match[w[1]]
    BY DEF DroppedRow
  <2>5. match[w[1]].status = "provisional" => new = [match[w[1]] EXCEPT !.status = "dropped"]
    BY DEF DroppedRow
  <2>6. match[w[1]].status = "provisional" => new.status = "dropped"
    BY <2>3, <2>5 DEF Row
  <2> HIDE DEF new
  <2> QED
    BY <1>1, <2>2, <2>4, <2>6, WatchedRow
<1>5. CASE WriteProvisional(p)
  <2>1. PICK w \in run[p].pending :
          match' = [match EXCEPT ![w[1]] = IF @.status # "none" THEN @
                                           ELSE [status |-> "provisional", block |-> w[2]]]
    BY <1>5 DEF WriteProvisional
  <2> DEFINE new == IF match[w[1]].status # "none" THEN match[w[1]]
                    ELSE [status |-> "provisional", block |-> w[2]]
  <2>2. w[1] \in Hits /\ match' = [match EXCEPT ![w[1]] = new]
    BY <1>1, <2>1
  <2>3. \/ new.status = match[w[1]].status
        \/ match[w[1]].status = "none" /\ new.status = "provisional"
    OBVIOUS
  <2> HIDE DEF new
  <2> QED
    BY <1>1, <2>2, <2>3, WatchedRow
<1> QED
  BY <1>3, <1>4, <1>5

\* What is in a final block stays where it is.
LEMMA ChainWatched ==
  ASSUME IInv, Mine \/ Finalize \/ Reorg
  PROVE  [Watched!Next]_(Watched!vars)
<1>1. /\ head \in Nat /\ finalized \in Nat /\ finalized <= head
      /\ where \in [Txs -> Nat] /\ \A m \in Hits : m[1] \in Txs
  BY HitParts DEF IInv, DataOK
<1>2. CASE Mine
  BY <1>1, <1>2, WatchedRests DEF Mine, SettledHits
<1>3. CASE Finalize
  <2>1. UNCHANGED where /\ finalized' \in Nat /\ finalized <= finalized'
    BY <1>1, <1>3 DEF Finalize
  <2>2. \A b \in Nat : b \in 1 .. finalized => b \in 1 .. finalized'
    BY <1>1, <2>1
  <2> QED
    BY <1>1, <1>3, <2>1, <2>2, WatchedRests DEF Finalize, SettledHits
<1>4. CASE Reorg
  <2>1. PICK keep \in finalized .. head - 1 :
           LET loose == {t \in Txs : where[t] = 0 \/ where[t] > keep}
           IN \E again \in [loose -> {0} \cup (keep + 1 .. head)] :
                where' = [t \in Txs |-> IF t \in loose THEN again[t] ELSE where[t]]
    BY <1>4 DEF Reorg
  <2>2. \A t \in Txs : where[t] \in 1 .. finalized => where'[t] = where[t]
    BY <1>1, <2>1
  <2>3. UNCHANGED <<match, finalized>>
    BY <1>4 DEF Reorg
  <2> QED
    BY <1>1, <2>2, <2>3, WatchedRests DEF SettledHits
<1> QED
  BY <1>2, <1>3, <1>4

LEMMA StepWatched ==
  ASSUME IInv, IInv', [Next]_vars
  PROVE  [Watched!Next]_(Watched!vars)
<1>1. ASSUME UNCHANGED <<match, where, finalized>>
      PROVE  [Watched!Next]_(Watched!vars)
  BY <1>1, WatchedRests DEF SettledHits
<1>2. CASE UNCHANGED vars
  BY <1>1, <1>2 DEF vars
<1>3. CASE (\E r \in Rules : Switch(r)) \/ LeaseEnds
  BY <1>1, <1>3 DEF Switch, LeaseEnds, chainVars
<1>4. ASSUME NEW p \in Runs, Begin(p) \/ ReadLagging(p) \/ CutShort(p) \/ Crash(p)
      PROVE  [Watched!Next]_(Watched!vars)
  BY <1>1, <1>4 DEF Begin, ReadLagging, CutShort, Crash, chainVars
<1>5. ASSUME NEW p \in Runs,
             \/ ReadCursor(p) \/ Create(p) \/ Conflict(p) \/ ReadWhole(p) \/ ReadRefused(p)
             \/ SaveChunk(p) \/ SkipAhead(p) \/ QueryStale(p) \/ DropsDone(p) \/ LowerFast(p)
             \/ FastRead(p) \/ FastChunkDone(p) \/ SaveFast(p) \/ Release(p)
      PROVE  [Watched!Next]_(Watched!vars)
  <2>1. UNCHANGED <<match, where, finalized>>
    BY <1>5 DEF ReadCursor, Create, Conflict, ReadWhole, ReadRefused, SaveChunk, SkipAhead, QueryStale,
                DropsDone, LowerFast, FastRead, FastChunkDone, SaveFast, Release, chainVars
  <2> QED
    BY <1>1, <2>1
<1>6. ASSUME NEW p \in Runs, Works(p)
      PROVE  [Watched!Next]_(Watched!vars)
  BY <1>5, <1>6, WritesWatched DEF Works
<1> QED
  BY <1>2, <1>3, <1>4, <1>6, ChainWatched DEF Next

LEMMA InitWatched == Init => Watched!Init
BY HitParts DEF Init, Watched!Init

\* The statuses of a match keep what MatchPromise says: a match is provisional once
\* and first, only a provisional one is dropped, and final is said of what is settled
\* on the chain and never taken back, however late a slow run writes
\* (store.ts:213-296).
THEOREM MatchesAreKept == Spec => MatchesKept
<1>1. IInv /\ IInv' /\ [Next]_vars => [Watched!Next]_(Watched!vars)
  BY StepWatched
<1> QED
  BY <1>1, InitWatched, SpecInv, PTL DEF Spec, MatchesKept, Watched!Spec

(***************************************************************************)
(* The fast scan.  While no node is behind and nothing is reorganised, a   *)
(* run knows of each match up to where its scan has come that it has a     *)
(* row, and of each match of the chunk in its hands that it has a row or   *)
(* is yet to be written (FastFits); this holds of runs with a stale        *)
(* cursor, too, for rows never go and the cursor never falls behind what a *)
(* run has read as its durable part.  That a run has the rules which are   *)
(* never turned off, and a head that is on the chain, needs none of this   *)
(* (Loaded).                                                               *)
(***************************************************************************)
\* Matches that every run looks for: their rules are never turned off.
Steady == FastRules \ Switched

\* The blocks w of such matches, from the first after o up to b, have rows in mt.
Covered(w, mt, o, b) ==
  \A m \in Hits : m[2] \in Steady /\ w[m[1]] \in o + 1 .. b => mt[m].status # "none"

Early == {"idle", "cursor", "create", "release"}
Over == {"idle", "release"}
Fast == {"lower", "fastread", "fastwrite", "fastsave"}

\* What a run r has loaded, and where it may be before there is a cursor.
Loaded(r, h, cr) ==
  /\ r.pc \notin Over => Steady \subseteq r.rules /\ r.head <= h
  /\ ~cr => r.pc \in Early
  /\ r.pc = "create" /\ StartBlock # NoBlock =>
       r.cur = [durable |-> StartBlock, fast |-> StartBlock]
  /\ r.pc = "lower" => r.head <= r.cur.fast

LoadInv ==
  /\ Rules \ Switched \subseteq active
  /\ \A x \in missed : x[1] \notin Steady
  /\ \A p \in Runs : Loaded(run[p], head, created)

\* A block up to b is behind the fast scan: its matches have rows.
Passed(h, w, mt, o, b) == b <= Larger(h, o) /\ Covered(w, mt, o, b)

\* How a run's fast scan fits a chain of height h and the durable cursor d.
FastFits(r, h, w, mt, o, d) ==
  /\ r.pc \notin Early => r.cur.durable \in o .. d /\ Passed(h, w, mt, o, r.cur.fast)
  /\ r.pc \in Fast => Passed(h, w, mt, o, r.reached)
  /\ r.pc = "fastwrite" =>
       \A m \in Hits : m[2] \in Steady /\ w[m[1]] \in o + 1 .. ChunkEnd(r) =>
         mt[m].status # "none" \/ <<m, w[m[1]]>> \in r.pending

\* No node was behind, nothing was reorganised and the scan is near.
Near ==
  StartBlock # NoBlock /\ ~lagged /\ reorgs = 0 /\ head - origin <= FAST_MAX_RANGE

FastInv ==
  created /\ Near =>
    /\ Passed(head, where, match, origin, cursor.fast)
    /\ \A p \in Runs : FastFits(run[p], head, where, match, origin, cursor.durable)
\* Two views of one run differ in nothing but what it knows of the cursor row.
Alike(n, r) == n = r \/ n = [r EXCEPT !.fresh = FALSE]

LEMMA AlikeIsAlike ==
  ASSUME NEW r \in Run, NEW n, Alike(n, r)
  PROVE  /\ n.pc = r.pc /\ n.rules = r.rules /\ n.head = r.head /\ n.cur = r.cur
         /\ n.reached = r.reached /\ n.pending = r.pending
<1>1. CASE n = r
  BY <1>1
<1>2. CASE n = [r EXCEPT !.fresh = FALSE]
  BY <1>2 DEF Run
<1> QED
  BY <1>1, <1>2 DEF Alike

LEMMA AlikeLoaded ==
  ASSUME NEW r \in Run, NEW n, Alike(n, r), NEW h \in Nat, NEW h2 \in Nat, h <= h2,
         NEW cr \in BOOLEAN, NEW cr2 \in BOOLEAN, cr => cr2, Loaded(r, h, cr)
  PROVE  Loaded(n, h2, cr2)
<1>1. r.head \in Nat
  BY DEF Run
<1> QED
  BY <1>1, AlikeIsAlike DEF Loaded

\* What may happen to the chain, in the sight of a scan, and to the rows.
Grows(h, w, mt, h2, w2, mt2) ==
  /\ h \in Nat /\ h2 \in Nat /\ h <= h2
  /\ \A t \in Txs : w2[t] \in Nat /\ (w2[t] = w[t] \/ w2[t] > h)
  /\ \A m \in Hits : mt[m].status # "none" => mt2[m].status # "none"

LEMMA PassedStays ==
  ASSUME NEW h, NEW w, NEW mt, NEW h2, NEW w2, NEW mt2, Grows(h, w, mt, h2, w2, mt2),
         NEW o \in Nat, NEW b \in Nat, Passed(h, w, mt, o, b)
  PROVE  Passed(h2, w2, mt2, o, b)
<1>1. h \in Nat /\ h2 \in Nat /\ h <= h2 /\ b <= Larger(h, o)
  BY DEF Grows, Passed
<1>2. b <= Larger(h2, o) /\ (b <= h \/ b <= o)
  BY <1>1 DEF Larger
<1>3. ASSUME NEW m \in Hits, m[2] \in Steady, w2[m[1]] \in o + 1 .. b
      PROVE  mt2[m].status # "none"
  <2>1. m[1] \in Txs
    BY HitParts
  <2>2. w2[m[1]] \in Nat /\ (w2[m[1]] = w[m[1]] \/ w2[m[1]] > h)
    BY <2>1 DEF Grows
  <2>3. w2[m[1]] <= h
    BY <1>1, <1>2, <1>3, <2>2
  <2>4. w2[m[1]] = w[m[1]]
    BY <1>1, <2>2, <2>3
  <2> QED
    BY <1>3, <2>4 DEF Grows, Passed, Covered
<1> QED
  BY <1>2, <1>3 DEF Passed, Covered

LEMMA PassedBelow ==
  ASSUME NEW h \in Nat, NEW w \in [Txs -> Nat], NEW mt, NEW o \in Nat, NEW b \in Nat, NEW a \in Nat,
         a <= b, Passed(h, w, mt, o, b)
  PROVE  Passed(h, w, mt, o, a)
<1>1. a <= Larger(h, o)
  BY DEF Passed, Larger
<1>2. ASSUME NEW m \in Hits, w[m[1]] \in o + 1 .. a
      PROVE  w[m[1]] \in o + 1 .. b
  BY <1>2, HitParts
<1> QED
  BY <1>1, <1>2 DEF Passed, Covered

LEMMA FitsStay ==
  ASSUME NEW h, NEW w, NEW mt, NEW h2, NEW w2, NEW mt2, Grows(h, w, mt, h2, w2, mt2),
         NEW o \in Nat, NEW d \in Nat, NEW d2 \in Nat, d <= d2,
         NEW r \in Run, NEW n, Alike(n, r), Loaded(r, h, TRUE), FastFits(r, h, w, mt, o, d)
  PROVE  FastFits(n, h2, w2, mt2, o, d2)
<1>1. /\ n.pc = r.pc /\ n.cur = r.cur /\ n.reached = r.reached /\ n.pending = r.pending
      /\ n.head = r.head
  BY AlikeIsAlike
<1>2. r.cur.durable \in Nat /\ r.cur.fast \in Nat /\ r.reached \in Nat /\ r.head \in Nat
  BY DEF Run, Cursor
<1>3. n.pc \notin Early =>
        n.cur.durable \in o .. d2 /\ Passed(h2, w2, mt2, o, n.cur.fast)
  <2> SUFFICES ASSUME n.pc \notin Early
               PROVE  n.cur.durable \in o .. d2 /\ Passed(h2, w2, mt2, o, n.cur.fast)
    OBVIOUS
  <2>1. r.cur.durable \in o .. d /\ Passed(h, w, mt, o, r.cur.fast)
    BY <1>1 DEF FastFits
  <2>2. r.cur.durable \in o .. d2
    BY <2>1, <1>2
  <2> QED
    BY <1>1, <1>2, <2>1, <2>2, PassedStays
<1>4. n.pc \in Fast => Passed(h2, w2, mt2, o, n.reached)
  BY <1>1, <1>2, PassedStays DEF FastFits
<1>5. ASSUME n.pc = "fastwrite", NEW m \in Hits, m[2] \in Steady, w2[m[1]] \in o + 1 .. ChunkEnd(n)
      PROVE  mt2[m].status # "none" \/ <<m, w2[m[1]]>> \in n.pending
  <2>1. ChunkEnd(n) = ChunkEnd(r)
    BY <1>1 DEF ChunkEnd
  <2>2. r.head <= h
    BY <1>1, <1>5 DEF Loaded, Over
  <2>3. ChunkEnd(r) \in Nat /\ ChunkEnd(r) <= r.head
    BY <1>2, BlocksAssumption DEF ChunkEnd, Smaller
  <2>4. m[1] \in Txs
    BY HitParts
  <2>5. h \in Nat /\ w2[m[1]] \in Nat /\ (w2[m[1]] = w[m[1]] \/ w2[m[1]] > h)
    BY <2>4 DEF Grows
  <2>6. w2[m[1]] <= ChunkEnd(r)
    BY <1>5, <2>1, <2>3, <2>5
  <2>7. ~(w2[m[1]] > h)
    BY <1>2, <2>2, <2>3, <2>5, <2>6
  <2>8. w2[m[1]] = w[m[1]]
    BY <2>5, <2>7
  <2>9. w[m[1]] \in o + 1 .. ChunkEnd(r)
    BY <1>5, <2>1, <2>8
  <2>10. mt[m].status # "none" \/ <<m, w[m[1]]>> \in r.pending
    BY <1>1, <1>5, <2>9 DEF FastFits
  <2> QED
    BY <1>1, <2>8, <2>10 DEF Grows
<1> QED
  BY <1>3, <1>4, <1>5 DEF FastFits

\* What the durable cursor has passed is behind the fast scan, too.
LEMMA DurableIsPassed ==
  IInv /\ LoadInv /\ created => Passed(head, where, match, origin, cursor.durable)
<1> SUFFICES ASSUME IInv, LoadInv, created
             PROVE  Passed(head, where, match, origin, cursor.durable)
  OBVIOUS
<1>1. cursor.durable \in Nat /\ head \in Nat /\ origin \in Nat /\ finalized \in Nat
      /\ finalized <= head /\ where \in [Txs -> Nat]
  BY DEF IInv, DataOK, Cursor
<1>2. cursor.durable <= Larger(head, origin)
  BY <1>1 DEF IInv, CursorFits, Larger
<1>3. ASSUME NEW m \in Hits, m[2] \in Steady, where[m[1]] \in origin + 1 .. cursor.durable
      PROVE  match[m].status # "none"
  <2>1. <<m[2], where[m[1]]>> \notin missed
    BY <1>3 DEF LoadInv
  <2>2. match[m] = [status |-> "final", block |-> where[m[1]]]
    BY <1>3, <2>1 DEF IInv, CursorCovers
  <2> QED
    BY <2>2
<1> QED
  BY <1>2, <1>3 DEF Passed, Covered

(***************************************************************************)
(* Where a run goes next, with what it has loaded                          *)
(***************************************************************************)
LEMMA OverFits ==
  ASSUME NEW r, r.pc \in Over
  PROVE  /\ \A h, cr : Loaded(r, h, cr)
         /\ \A h, w, mt, o, d : FastFits(r, h, w, mt, o, d)
BY DEF Loaded, FastFits, Over, Early, Fast

LEMMA EndsOver == Idle.pc \in Over /\ Ending.pc \in Over
BY IdleType DEF Over

\* The fast scan, as it starts.
LEMMA ToFastParts ==
  ASSUME NEW r \in Run
  PROVE  \/ ToFast(r) = Ending
         \/ /\ ToFast(r).pc \in {"lower", "fastread"}
            /\ ToFast(r).rules = r.rules \cap FastRules /\ ToFast(r).head = r.head
            /\ ToFast(r).cur = r.cur /\ ToFast(r).reached = FastStart(r)
            /\ ToFast(r).pc = "lower" => r.head <= r.cur.fast
<1> DEFINE from == FastStart(r)
           at(pc) == [Idle EXCEPT !.pc = pc, !.rules = r.rules \cap FastRules, !.head = r.head,
                                  !.cur = r.cur, !.fresh = r.fresh, !.from = from, !.reached = from]
<1>1. ASSUME NEW pc
      PROVE  /\ at(pc).pc = pc /\ at(pc).rules = r.rules \cap FastRules /\ at(pc).head = r.head
             /\ at(pc).cur = r.cur /\ at(pc).reached = from
  BY DEF Idle
<1>2. /\ ToFast(r) \in {Ending, at("lower"), at("fastread")}
      /\ ToFast(r) = at("lower") => r.head <= r.cur.fast
  <2>1. r.cur.fast \in Nat /\ r.head \in Nat
    BY DEF Run, Cursor
  <2>2. /\ at("lower").pc = "lower" /\ at("fastread").pc = "fastread"
    BY <1>1
  <2>3. Ending.pc = "release"
    BY IdleType
  <2>4. /\ ToFast(r) \in {Ending, at("lower"), at("fastread")}
        /\ ~(r.head < r.cur.fast) => ToFast(r) \in {Ending, at("fastread")}
    BY <2>1 DEF ToFast
  <2> HIDE DEF at
  <2> QED
    BY <2>1, <2>2, <2>3, <2>4
<1>3. Ending.pc = "release"
  BY IdleType
<1> HIDE DEF at
<1> QED
  BY <1>1, <1>2, <1>3

\* A run that goes on where it is, with what it has loaded.
Stays(n, r) == n.rules = r.rules /\ n.head = r.head /\ n.cur = r.cur

Slow == {"range", "final", "skip", "drop", "dropping"}

LEMMA ToDropParts ==
  ASSUME NEW r \in Run
  PROVE  ToDrop(r) = ToFast(r) \/ (ToDrop(r).pc \in Slow /\ Stays(ToDrop(r), r))
BY DEF ToDrop, Run, Slow, Stays

LEMMA ToDurableParts ==
  ASSUME NEW r \in Run
  PROVE  ToDurable(r) = ToFast(r) \/ (ToDurable(r).pc \in Slow /\ Stays(ToDurable(r), r))
<1>1. CASE ~Behind(r)
  BY <1>1, ToDropParts DEF ToDurable
<1>2. CASE Behind(r) /\ r.rules = {}
  <2>1. ToDurable(r) = [r EXCEPT !.pc = "skip"]
    BY <1>2 DEF ToDurable
  <2> QED
    BY <2>1 DEF Run, Slow, Stays
<1>3. CASE Behind(r) /\ r.rules # {}
  <2> DEFINE to == Smaller(r.fin, r.cur.durable + r.span)
  <2>1. ToDurable(r) = [r EXCEPT !.pc = "range", !.to = to, !.ends = {}, !.split = "no"]
    BY <1>3 DEF ToDurable
  <2> HIDE DEF to
  <2> QED
    BY <2>1 DEF Run, Slow, Stays
<1> QED
  BY <1>1, <1>2, <1>3

\* A run that has loaded what it needs, and then its cursor fits.
CurFits(c, h, w, mt, o, d) == c.durable \in o .. d /\ Passed(h, w, mt, o, c.fast)

LEMMA SlowFits ==
  ASSUME NEW n, NEW r, n.pc \in Slow, Stays(n, r), Steady \subseteq r.rules,
         NEW h, r.head <= h
  PROVE  /\ Loaded(n, h, TRUE)
         /\ \A w, mt, o, d : CurFits(r.cur, h, w, mt, o, d) => FastFits(n, h, w, mt, o, d)
<1>1. n.pc \notin Early /\ n.pc \notin Fast /\ n.pc # "fastwrite" /\ n.pc # "create"
      /\ n.pc # "lower"
  BY DEF Slow, Early, Fast
<1> QED
  BY <1>1 DEF Loaded, FastFits, CurFits, Stays

LEMMA ToFastLoaded ==
  ASSUME NEW r \in Run, Steady \subseteq r.rules, NEW h, r.head <= h
  PROVE  Loaded(ToFast(r), h, TRUE)
<1>1. Steady \subseteq r.rules \cap FastRules
  BY DEF Steady
<1>2. CASE ToFast(r) = Ending
  BY <1>2, EndsOver, OverFits
<1>3. CASE ToFast(r) # Ending
  BY <1>1, <1>3, ToFastParts DEF Loaded
<1> QED
  BY <1>2, <1>3

LEMMA ToFastKeepsFit ==
  ASSUME NEW r \in Run, NEW h \in Nat, r.head <= h, NEW w \in [Txs -> Nat], NEW mt,
         NEW o \in Nat, NEW d \in Nat, h - o <= FAST_MAX_RANGE,
         CurFits(r.cur, h, w, mt, o, d), Passed(h, w, mt, o, d)
  PROVE  FastFits(ToFast(r), h, w, mt, o, d)
<1>1. /\ r.cur.durable \in Nat /\ r.cur.fast \in Nat /\ r.head \in Nat
      /\ o <= r.cur.durable /\ r.cur.durable <= d
  BY DEF Run, Cursor, CurFits
<1>2. Passed(h, w, mt, o, r.cur.durable) /\ Passed(h, w, mt, o, r.cur.fast)
  BY <1>1, PassedBelow DEF CurFits
<1> DEFINE back == r.cur.fast - FAST_OVERLAP
           start == Larger(r.cur.durable, back)
<1>3. back \in Int /\ back <= r.cur.fast
  BY <1>1, BlocksAssumption
<1> HIDE DEF back
<1>4. start \in Nat /\ start >= r.cur.durable /\ (start = r.cur.durable \/ start <= r.cur.fast)
  BY <1>1, <1>3 DEF Larger
<1>5. FastStart(r) = start
  <2>1. ~(r.head - start > FAST_MAX_RANGE)
    BY <1>1, <1>4, BlocksAssumption
  <2> QED
    BY <2>1 DEF FastStart, start, back
<1>6. Passed(h, w, mt, o, start)
  <2> HIDE DEF start
  <2> QED
    BY <1>1, <1>2, <1>4, PassedBelow
<1>7. CASE ToFast(r) = Ending
  BY <1>7, EndsOver, OverFits
<1>8. CASE ToFast(r) # Ending
  <2>1. /\ ToFast(r).pc \in {"lower", "fastread"}
        /\ ToFast(r).cur = r.cur /\ ToFast(r).reached = start
    BY <1>5, <1>8, ToFastParts
  <2>2. ToFast(r).pc # "fastwrite"
    BY <2>1
  <2> HIDE DEF start
  <2> QED
    BY <1>2, <1>6, <2>1, <2>2 DEF FastFits, CurFits
<1> QED
  BY <1>7, <1>8

\* The next part of a run, and what fits it.
LEMMA OnwardFits ==
  ASSUME NEW r \in Run, NEW n,
         n \in {ToFast(r), ToDrop(r), ToDurable(r)} \/ (n.pc \in Slow /\ Stays(n, r)),
         Steady \subseteq r.rules, NEW h \in Nat, r.head <= h
  PROVE  /\ Loaded(n, h, TRUE)
         /\ \A mt : \A w \in [Txs -> Nat], o \in Nat, d \in Nat :
              /\ h - o <= FAST_MAX_RANGE
              /\ CurFits(r.cur, h, w, mt, o, d) /\ Passed(h, w, mt, o, d)
              => FastFits(n, h, w, mt, o, d)
<1>1. n = ToFast(r) \/ (n.pc \in Slow /\ Stays(n, r))
  BY ToDropParts, ToDurableParts
<1>2. CASE n = ToFast(r)
  BY <1>2, ToFastLoaded, ToFastKeepsFit
<1>3. CASE n.pc \in Slow /\ Stays(n, r)
  BY <1>3, SlowFits
<1> QED
  BY <1>1, <1>2, <1>3

(***************************************************************************)
(* Kinds of steps, for the fast scan                                       *)
(***************************************************************************)
Rows(mt, mt2) == \A m \in Hits : mt[m].status # "none" => mt2[m].status # "none"

LEMMA NumbersOfState ==
  ASSUME IInv
  PROVE  /\ head \in Nat /\ origin \in Nat /\ cursor.durable \in Nat /\ cursor.fast \in Nat
         /\ where \in [Txs -> Nat] /\ created \in BOOLEAN
BY DEF IInv, DataOK, Cursor

\* What the invariant says of the run that makes a step.
LEMMA RunAtWork ==
  ASSUME IInv, LoadInv, NEW p \in Runs, run[p].pc \notin Over
  PROVE  /\ run[p] \in Run /\ Steady \subseteq run[p].rules /\ run[p].head <= head
         /\ run[p].pc \notin Early => created
BY RunIsFit DEF LoadInv, Loaded

LEMMA CurOfRun ==
  ASSUME FastInv, created, Near, NEW p \in Runs, run[p].pc \notin Early
  PROVE  CurFits(run[p].cur, head, where, match, origin, cursor.durable)
BY DEF FastInv, FastFits, CurFits

\* A step of one run that leaves the chain and the cursor alone.
LEMMA RunStepFast ==
  ASSUME IInv, LoadInv, FastInv, NEW p \in Runs, NEW n, run' = [run EXCEPT ![p] = n],
         UNCHANGED <<head, where, created, cursor, origin, reorgs, active, missed>>,
         lagged => lagged', Rows(match, match'),
         Loaded(n, head, created),
         created /\ Near /\ ~lagged' => FastFits(n, head, where, match', origin, cursor.durable)
  PROVE  LoadInv' /\ FastInv'
<1>1. run'[p] = n /\ \A q \in Runs : q # p => run'[q] = run[q]
  BY DEF IInv, RunsFit
<1>2. LoadInv'
  BY <1>1 DEF LoadInv
<1>3. Grows(head, where, match, head, where, match')
  BY NumbersOfState DEF Grows, Rows
<1>4. ASSUME created', Near'
      PROVE  /\ Passed(head, where, match', origin, cursor.fast)
             /\ \A q \in Runs : FastFits(run'[q], head, where, match', origin, cursor.durable)
  <2>1. created /\ Near /\ ~lagged'
    BY <1>4 DEF Near
  <2>2. Passed(head, where, match', origin, cursor.fast)
    BY <1>3, <2>1, NumbersOfState, PassedStays DEF FastInv
  <2>3. ASSUME NEW q \in Runs, q # p
        PROVE  FastFits(run'[q], head, where, match', origin, cursor.durable)
    <3>1. run'[q] = run[q] /\ run[q] \in Run /\ Alike(run[q], run[q])
      BY <1>1, <2>3, RunIsFit DEF Alike
    <3>2. FastFits(run[q], head, where, match, origin, cursor.durable)
      BY <2>1 DEF FastInv
    <3>3. Loaded(run[q], head, TRUE)
      BY <2>1 DEF LoadInv, Loaded
    <3>4. origin \in Nat /\ cursor.durable \in Nat /\ cursor.durable <= cursor.durable
      BY NumbersOfState
    <3> QED
      BY <1>3, <3>1, <3>2, <3>3, <3>4, FitsStay
  <2> QED
    BY <1>1, <2>1, <2>2, <2>3
<1> QED
  BY <1>2, <1>4 DEF FastInv

\* A step of the chain or of the operators.
LEMMA ChainStepFast ==
  ASSUME IInv, LoadInv, FastInv, UNCHANGED <<run, created, cursor, origin, missed>>,
         Rules \ Switched \subseteq active', head' \in Nat, head <= head',
         Near' => Near /\ Grows(head, where, match, head', where', match')
  PROVE  LoadInv' /\ FastInv'
<1>1. LoadInv'
  <2>1. ASSUME NEW p \in Runs
        PROVE  Loaded(run[p], head', created)
    BY NumbersOfState, RunIsFit, AlikeLoaded DEF LoadInv, Alike
  <2> QED
    BY <2>1 DEF LoadInv
<1>2. ASSUME created, Near'
      PROVE  /\ Passed(head', where', match', origin, cursor.fast)
             /\ \A q \in Runs : FastFits(run[q], head', where', match', origin, cursor.durable)
  <2>1. Passed(head', where', match', origin, cursor.fast)
    BY <1>2, NumbersOfState, PassedStays DEF FastInv
  <2>2. ASSUME NEW q \in Runs
        PROVE  FastFits(run[q], head', where', match', origin, cursor.durable)
    <3>1. run[q] \in Run /\ Alike(run[q], run[q])
      BY RunIsFit DEF Alike
    <3>2. FastFits(run[q], head, where, match, origin, cursor.durable)
      BY <1>2 DEF FastInv
    <3>3. Loaded(run[q], head, TRUE)
      BY <1>2 DEF LoadInv, Loaded
    <3>4. origin \in Nat /\ cursor.durable \in Nat /\ cursor.durable <= cursor.durable
      BY NumbersOfState
    <3> QED
      BY <1>2, <3>1, <3>2, <3>3, <3>4, FitsStay
  <2> QED
    BY <2>1, <2>2
<1> QED
  BY <1>1, <1>2 DEF FastInv

\* A step that saves the cursor.
LEMMA SaveStepFast ==
  ASSUME IInv, IInv', LoadInv, FastInv, created, NEW p \in Runs, NEW next, NEW n,
         SaveCursor(p, next, n), created',
         UNCHANGED <<head, where, match, origin, reorgs, active, lagged>>,
         cursor.durable <= next.durable,
         \A x \in missed' : x[1] \notin Steady,
         Loaded(n, head, TRUE),
         Near => /\ Passed(head, where, match, origin, next.fast)
                 /\ Passed(head, where, match, origin, next.durable) =>
                      FastFits(n, head, where, match, origin, next.durable)
  PROVE  LoadInv' /\ FastInv'
<1>1. cursor' = next /\ run'[p] = n /\ \A q \in Runs : q # p => Alike(run'[q], run[q])
  BY DEF SaveCursor, Alike
<1>2. LoadInv'
  <2>1. ASSUME NEW q \in Runs, q # p
        PROVE  Loaded(run'[q], head, TRUE)
    <3>1. run[q] \in Run /\ Loaded(run[q], head, created)
      BY RunIsFit DEF LoadInv
    <3>2. Alike(run'[q], run[q])
      BY <1>1, <2>1
    <3> QED
      BY <3>1, <3>2, AlikeIsAlike DEF Loaded
  <2>2. \A q \in Runs : Loaded(run'[q], head, TRUE)
    BY <1>1, <2>1
  <2>3. created' = TRUE
    BY DEF IInv, DataOK
  <2> QED
    BY <2>2, <2>3 DEF LoadInv
<1>3. Passed(head, where, match, origin, next.durable)
  <2>1. (IInv /\ LoadInv /\ created => Passed(head, where, match, origin, cursor.durable))'
    BY DurableIsPassed, PTL
  <2> QED
    BY <1>1, <1>2, <2>1
<1>4. Grows(head, where, match, head, where, match)
  BY NumbersOfState DEF Grows
<1>5. next.durable \in Nat
  BY <1>1 DEF IInv, DataOK, Cursor
<1>6. ASSUME Near'
      PROVE  /\ Passed(head, where, match, origin, next.fast)
             /\ \A q \in Runs : FastFits(run'[q], head, where, match, origin, next.durable)
  <2>1. Near
    BY <1>6 DEF Near
  <2>2. ASSUME NEW q \in Runs, q # p
        PROVE  FastFits(run'[q], head, where, match, origin, next.durable)
    <3>1. run[q] \in Run /\ Alike(run'[q], run[q])
      BY <1>1, <2>2, RunIsFit
    <3>2. FastFits(run[q], head, where, match, origin, cursor.durable)
      BY <2>1 DEF FastInv
    <3>3. Loaded(run[q], head, TRUE)
      BY DEF LoadInv, Loaded
    <3> QED
      BY <1>4, <1>5, <3>1, <3>2, <3>3, NumbersOfState, FitsStay
  <2> QED
    BY <1>1, <1>3, <2>1, <2>2
<1> QED
  BY <1>1, <1>2, <1>6 DEF FastInv

(***************************************************************************)
(* The steps                                                               *)
(***************************************************************************)
FInv == IInv /\ LoadInv /\ FastInv

LEMMA MineFast == ASSUME FInv, Mine PROVE (LoadInv /\ FastInv)'
<1>1. head \in Nat /\ where \in [Txs -> Nat]
  BY NumbersOfState DEF FInv
<1>2. head' = head + 1 /\ head' \in Nat /\ head <= head'
  BY <1>1 DEF Mine
<1>3. \A t \in Txs : where'[t] \in Nat /\ (where'[t] = where[t] \/ where'[t] > head)
  BY <1>1 DEF Mine
<1>4. UNCHANGED <<run, created, cursor, origin, missed, active, match, lagged, reorgs>>
  BY DEF Mine
<1>5. Grows(head, where, match, head', where', match')
  BY <1>1, <1>2, <1>3, <1>4 DEF Grows
<1>6. Near' => Near
  <2>1. origin \in Nat
    BY NumbersOfState DEF FInv
  <2> QED
    BY <1>1, <1>2, <1>4, <2>1, BlocksAssumption DEF Near
<1>7. Rules \ Switched \subseteq active'
  BY <1>4 DEF FInv, LoadInv
<1> QED
  BY <1>2, <1>4, <1>5, <1>6, <1>7, ChainStepFast DEF FInv

LEMMA FinalizeFast == ASSUME FInv, Finalize \/ LeaseEnds PROVE (LoadInv /\ FastInv)'
<1>1. head \in Nat /\ where \in [Txs -> Nat]
  BY NumbersOfState DEF FInv
<1>2. UNCHANGED <<head, where, run, created, cursor, origin, missed, active, match, lagged, reorgs>>
  BY DEF Finalize, LeaseEnds, chainVars
<1>3. Grows(head, where, match, head', where', match')
  BY <1>1, <1>2 DEF Grows
<1>4. Near' => Near
  BY <1>2 DEF Near
<1>5. Rules \ Switched \subseteq active' /\ head' \in Nat /\ head <= head'
  BY <1>1, <1>2 DEF FInv, LoadInv
<1> QED
  BY <1>2, <1>3, <1>4, <1>5, ChainStepFast DEF FInv

LEMMA ReorgFast == ASSUME FInv, Reorg PROVE (LoadInv /\ FastInv)'
<1>1. head \in Nat
  BY NumbersOfState DEF FInv
<1>2. UNCHANGED <<head, run, created, cursor, origin, missed, active, match>>
  BY DEF Reorg
<1>3. ~Near'
  <2>1. reorgs \in Nat /\ reorgs' = reorgs + 1
    BY DEF FInv, IInv, DataOK, Reorg
  <2> QED
    BY <2>1 DEF Near
<1>4. Rules \ Switched \subseteq active' /\ head' \in Nat /\ head <= head'
  BY <1>1, <1>2 DEF FInv, LoadInv
<1> QED
  BY <1>2, <1>3, <1>4, ChainStepFast DEF FInv

LEMMA SwitchFast == ASSUME FInv, NEW r \in Rules, Switch(r) PROVE (LoadInv /\ FastInv)'
<1>1. head \in Nat /\ where \in [Txs -> Nat]
  BY NumbersOfState DEF FInv
<1>2. UNCHANGED <<head, where, run, created, cursor, origin, missed, match, lagged, reorgs>>
  BY DEF Switch
<1>3. Grows(head, where, match, head', where', match')
  BY <1>1, <1>2 DEF Grows
<1>4. Near' => Near
  BY <1>2 DEF Near
<1>5. Rules \ Switched \subseteq active' /\ head' \in Nat /\ head <= head'
  BY <1>1, <1>2 DEF FInv, LoadInv, Switch
<1> QED
  BY <1>2, <1>3, <1>4, <1>5, ChainStepFast DEF FInv

\* A run ends.
LEMMA EndFast ==
  ASSUME FInv, NEW p \in Runs, Step(p, Idle) \/ Step(p, Ending),
         UNCHANGED <<head, where, created, cursor, origin, reorgs, active, missed, match, lagged>>
  PROVE  (LoadInv /\ FastInv)'
<1>1. PICK n \in {Idle, Ending} : run' = [run EXCEPT ![p] = n]
  BY DEF Step
<1>2. /\ Loaded(n, head, created)
      /\ FastFits(n, head, where, match', origin, cursor.durable)
  BY EndsOver, OverFits
<1>3. Rows(match, match')
  BY DEF Rows
<1> QED
  BY <1>1, <1>2, <1>3, RunStepFast DEF FInv

LEMMA EndsFast ==
  ASSUME FInv, NEW p \in Runs, Conflict(p) \/ Release(p) \/ Crash(p)
  PROVE  (LoadInv /\ FastInv)'
<1>1. Step(p, Idle) \/ Step(p, Ending)
  BY DEF Conflict, Release, Crash
<1>2. UNCHANGED <<head, where, created, cursor, origin, reorgs, active, missed, match, lagged>>
  BY DEF Conflict, Release, Crash, chainVars
<1> QED
  BY <1>1, <1>2, EndFast

LEMMA BeginFast == ASSUME FInv, NEW p \in Runs, Begin(p) PROVE (LoadInv /\ FastInv)'
<1>1. PICK h \in 0 .. head, f \in FinalizedAnswers :
        /\ Step(p, [Idle EXCEPT !.pc = "cursor", !.rules = active, !.head = h, !.fin = f])
        /\ IF h = head /\ f = finalized THEN UNCHANGED <<lagged, faults>> ELSE Lag
  BY DEF Begin
<1> DEFINE n == [Idle EXCEPT !.pc = "cursor", !.rules = active, !.head = h, !.fin = f]
<1>2. n.pc = "cursor" /\ n.rules = active /\ n.head = h
  BY DEF Idle
<1>3. run' = [run EXCEPT ![p] = n]
  BY <1>1 DEF Step
<1>4. lagged => lagged'
  BY <1>1 DEF Lag
<1> HIDE DEF n
<1>5. Steady \subseteq active
  BY RulesAssumption DEF FInv, LoadInv, Steady
<1>6. h <= head
  BY NumbersOfState DEF FInv
<1>7. Loaded(n, head, created)
  BY <1>2, <1>5, <1>6 DEF Loaded, Early
<1>8. FastFits(n, head, where, match', origin, cursor.durable)
  BY <1>2 DEF FastFits, Early, Fast
<1>9. UNCHANGED <<head, where, created, cursor, origin, reorgs, active, missed, match>>
      /\ Rows(match, match')
  BY DEF Begin, chainVars, Rows
<1> QED
  BY <1>3, <1>4, <1>7, <1>8, <1>9, RunStepFast DEF FInv

\* A run that goes on to its next part, or stays in one of the durable scan.
LEMMA OnwardFast ==
  ASSUME FInv, NEW p \in Runs, NEW n, run' = [run EXCEPT ![p] = n], run[p].pc \notin Early,
         \/ n \in {ToFast(run[p]), ToDrop(run[p]), ToDurable(run[p])}
         \/ n.pc \in Slow /\ Stays(n, run[p]),
         UNCHANGED <<head, where, created, cursor, origin, reorgs, active, missed>>,
         lagged => lagged', Rows(match, match')
  PROVE  (LoadInv /\ FastInv)'
<1>1. IInv /\ LoadInv /\ FastInv
  BY DEF FInv
<1>2. run[p].pc \notin Over
  BY DEF Over, Early
<1>3. run[p] \in Run /\ Steady \subseteq run[p].rules /\ run[p].head <= head /\ created
  BY <1>1, <1>2, RunAtWork
<1>4. /\ head \in Nat /\ origin \in Nat /\ cursor.durable \in Nat /\ cursor.fast \in Nat
      /\ where \in [Txs -> Nat]
  BY <1>1, NumbersOfState
<1>5. /\ Loaded(n, head, TRUE)
      /\ \A mt :
           /\ head - origin <= FAST_MAX_RANGE
           /\ CurFits(run[p].cur, head, where, mt, origin, cursor.durable)
           /\ Passed(head, where, mt, origin, cursor.durable)
           => FastFits(n, head, where, mt, origin, cursor.durable)
  <2>1. /\ Loaded(n, head, TRUE)
        /\ \A mt : \A w \in [Txs -> Nat], o \in Nat, d \in Nat :
             /\ head - o <= FAST_MAX_RANGE
             /\ CurFits(run[p].cur, head, w, mt, o, d) /\ Passed(head, w, mt, o, d)
             => FastFits(n, head, w, mt, o, d)
    BY ONLY <1>3, <1>4, OnwardFits,
       \/ n \in {ToFast(run[p]), ToDrop(run[p]), ToDurable(run[p])}
       \/ n.pc \in Slow /\ Stays(n, run[p])
  <2> QED
    BY ONLY <1>4, <2>1
<1>6. ASSUME Near
      PROVE  FastFits(n, head, where, match', origin, cursor.durable)
  <2>1. CurFits(run[p].cur, head, where, match, origin, cursor.durable)
    BY <1>1, <1>3, <1>6, CurOfRun
  <2>2. Passed(head, where, match, origin, cursor.durable)
    BY <1>1, <1>3, DurableIsPassed
  <2>3. Grows(head, where, match, head, where, match')
    BY <1>4 DEF Grows, Rows
  <2>4. run[p].cur.fast \in Nat
    BY <1>3 DEF Run, Cursor
  <2>5. Passed(head, where, match', origin, run[p].cur.fast)
    BY <1>4, <2>1, <2>3, <2>4, PassedStays DEF CurFits
  <2>6. Passed(head, where, match', origin, cursor.durable)
    BY <1>4, <2>2, <2>3, PassedStays
  <2>7. CurFits(run[p].cur, head, where, match', origin, cursor.durable)
    BY <2>1, <2>5 DEF CurFits
  <2>8. head - origin <= FAST_MAX_RANGE
    BY <1>6 DEF Near
  <2> QED
    BY <1>5, <2>6, <2>7, <2>8
<1>7. Loaded(n, head, created)
  BY <1>3, <1>5 DEF Loaded
<1> QED
  BY <1>1, <1>6, <1>7, RunStepFast

LEMMA ReadCursorFast == ASSUME FInv, NEW p \in Runs, ReadCursor(p) PROVE (LoadInv /\ FastInv)'
<1> DEFINE r == run[p]
           at(d, f) == [r EXCEPT !.cur = [durable |-> d, fast |-> f], !.fresh = TRUE]
<1>1. IInv /\ LoadInv /\ FastInv
  BY DEF FInv
<1>2. r.pc = "cursor"
  BY DEF ReadCursor
<1>3. r \in Run /\ Steady \subseteq r.rules /\ r.head <= head
  BY <1>1, <1>2, RunAtWork DEF Over
<1>4. UNCHANGED <<head, where, created, cursor, origin, reorgs, active, missed, match, lagged>>
      /\ Rows(match, match')
  BY DEF ReadCursor, chainVars, Rows
<1>5. /\ head \in Nat /\ origin \in Nat /\ cursor.durable \in Nat /\ cursor.fast \in Nat
      /\ where \in [Txs -> Nat]
  BY <1>1, NumbersOfState
<1>6. ASSUME NEW d \in Nat, NEW f \in Nat
      PROVE  /\ at(d, f) \in Run /\ at(d, f).cur = [durable |-> d, fast |-> f]
             /\ at(d, f).rules = r.rules /\ at(d, f).head = r.head
  BY <1>3 DEF Run, Cursor
<1>7. CASE created
  <2> DEFINE mine == at(cursor.durable, cursor.fast)
             n == ToDurable(mine)
  <2>1. run' = [run EXCEPT ![p] = n]
    BY <1>7 DEF ReadCursor, Step
  <2>2. /\ mine \in Run /\ Steady \subseteq mine.rules /\ mine.head <= head
        /\ mine.cur.durable = cursor.durable /\ mine.cur.fast = cursor.fast
    <3>1. /\ mine \in Run /\ mine.cur = [durable |-> cursor.durable, fast |-> cursor.fast]
          /\ mine.rules = r.rules /\ mine.head = r.head
      BY <1>5, <1>6
    <3> HIDE DEF mine, r, at
    <3> QED
      BY <1>3, <3>1
  <2> HIDE DEF mine
  <2>3. n \in {ToFast(mine), ToDrop(mine), ToDurable(mine)} \/ (n.pc \in Slow /\ Stays(n, mine))
    OBVIOUS
  <2> HIDE DEF n
  <2>4. /\ Loaded(n, head, TRUE)
        /\ \A mt : \A w \in [Txs -> Nat], o \in Nat, d \in Nat :
             /\ head - o <= FAST_MAX_RANGE
             /\ CurFits(mine.cur, head, w, mt, o, d) /\ Passed(head, w, mt, o, d)
             => FastFits(n, head, w, mt, o, d)
    BY ONLY <1>5, <2>2, <2>3, OnwardFits
  <2>5. ASSUME Near
        PROVE  FastFits(n, head, where, match, origin, cursor.durable)
    <3>1. origin <= cursor.durable
      BY <1>1, <1>7 DEF IInv, CursorFits
    <3>2. Passed(head, where, match, origin, cursor.durable)
      BY <1>1, <1>7, DurableIsPassed
    <3>3. Passed(head, where, match, origin, cursor.fast)
      BY <1>1, <1>7, <2>5 DEF FastInv
    <3>4. CurFits(mine.cur, head, where, match, origin, cursor.durable)
      BY <1>5, <2>2, <3>1, <3>3 DEF CurFits
    <3>5. head - origin <= FAST_MAX_RANGE
      BY <2>5 DEF Near
    <3> QED
      BY <1>5, <2>4, <3>2, <3>4, <3>5
  <2>6. Loaded(n, head, created)
    BY <1>7, <2>4 DEF Loaded
  <2> QED
    BY <1>1, <1>4, <2>1, <2>5, <2>6, RunStepFast
<1>8. ASSUME ~created, NEW d \in Nat, NEW f \in Nat,
             StartBlock # NoBlock => d = StartBlock /\ f = StartBlock,
             Step(p, [at(d, f) EXCEPT !.pc = "create"])
      PROVE  (LoadInv /\ FastInv)'
  <2> DEFINE mine == at(d, f)
             n == [mine EXCEPT !.pc = "create"]
  <2>1. /\ mine \in Run /\ mine.cur = [durable |-> d, fast |-> f]
        /\ mine.rules = r.rules /\ mine.head = r.head
    BY <1>6
  <2>2. run' = [run EXCEPT ![p] = n]
    BY <1>8 DEF Step
  <2> HIDE DEF mine
  <2>3. /\ n.pc = "create" /\ n.rules = r.rules /\ n.head = r.head
        /\ n.cur = [durable |-> d, fast |-> f]
    BY <2>1 DEF Run
  <2> HIDE DEF n
  <2>4. Loaded(n, head, created)
    BY <1>3, <1>8, <2>3 DEF Loaded, Early
  <2>5. ~created
    BY <1>8
  <2> HIDE DEF r
  <2> QED
    BY <1>1, <1>4, <2>2, <2>4, <2>5, RunStepFast
<1>9. CASE ~created /\ StartBlock # NoBlock
  <2>1. StartBlock \in Nat
    BY <1>9, BlocksAssumption
  <2>2. Step(p, [at(StartBlock, StartBlock) EXCEPT !.pc = "create"])
    BY <1>9 DEF ReadCursor
  <2> QED
    BY <1>8, <1>9, <2>1, <2>2
<1>10. CASE ~created /\ StartBlock = NoBlock /\ r.fin # NoBlock
  <2>1. r.fin \in Nat /\ r.head \in Nat
    BY <1>3, <1>10 DEF Run
  <2>2. Step(p, [at(r.fin, r.head) EXCEPT !.pc = "create"])
    BY <1>10 DEF ReadCursor
  <2> QED
    BY <1>8, <1>10, <2>1, <2>2
<1>11. CASE ~created /\ StartBlock = NoBlock /\ r.fin = NoBlock
  <2>1. Step(p, Ending)
    BY <1>11 DEF ReadCursor
  <2> QED
    BY <1>4, <2>1, EndFast
<1> QED
  BY <1>7, <1>9, <1>10, <1>11

\* A cursor that has not moved has passed nothing.
LEMMA NothingYet ==
  ASSUME NEW h \in Nat, NEW w \in [Txs -> Nat], NEW mt, NEW o \in Nat
  PROVE  Passed(h, w, mt, o, o)
<1>1. o <= Larger(h, o)
  BY DEF Larger
<1>2. \A m \in Hits : w[m[1]] \notin o + 1 .. o
  BY HitParts
<1> QED
  BY <1>1, <1>2 DEF Passed, Covered

\* The cursor is new: nothing is behind it, and no other run has passed its own.
LEMMA CreateFast == ASSUME FInv, IInv', NEW p \in Runs, Create(p) PROVE (LoadInv /\ FastInv)'
<1> DEFINE r == run[p]
           n == ToDurable(r)
<1>1. IInv /\ LoadInv /\ FastInv
  BY DEF FInv
<1>2. r.pc = "create" /\ r.fresh /\ SaveCursor(p, r.cur, n)
  BY DEF Create, SaveCursor
<1>3. r \in Run /\ Steady \subseteq r.rules /\ r.head <= head
  BY <1>1, <1>2, RunAtWork DEF Over
<1>4. ~created
  BY <1>1, <1>2, RunIsFit DEF RunFits, ViewFits
<1>5. /\ UNCHANGED <<head, where, match, reorgs, active, missed, lagged>>
      /\ created' = TRUE /\ origin' = r.cur.durable /\ cursor' = r.cur
      /\ run'[p] = n /\ \A q \in Runs : q # p => Alike(run'[q], run[q])
  BY <1>2 DEF Create, chainVars, SaveCursor, Alike
<1>6. /\ head \in Nat /\ where \in [Txs -> Nat] /\ origin' \in Nat
      /\ r.cur.durable \in Nat /\ r.cur.fast \in Nat
  BY <1>1, <1>3, NumbersOfState DEF IInv, DataOK, Run, Cursor
<1>7. n \in {ToFast(r), ToDrop(r), ToDurable(r)} \/ (n.pc \in Slow /\ Stays(n, r))
  OBVIOUS
<1>8. StartBlock # NoBlock => r.cur = [durable |-> StartBlock, fast |-> StartBlock]
  BY <1>1, <1>2 DEF LoadInv, Loaded
<1> HIDE DEF n
<1>9. /\ Loaded(n, head, TRUE)
      /\ \A mt : \A w \in [Txs -> Nat], o \in Nat, d \in Nat :
           /\ head - o <= FAST_MAX_RANGE
           /\ CurFits(r.cur, head, w, mt, o, d) /\ Passed(head, w, mt, o, d)
           => FastFits(n, head, w, mt, o, d)
  BY ONLY <1>3, <1>6, <1>7, OnwardFits
<1>10. ASSUME NEW q \in Runs, q # p
       PROVE  Loaded(run'[q], head, TRUE) /\ run'[q].pc \in Early
  <2>1. run[q] \in Run /\ Alike(run'[q], run[q]) /\ Loaded(run[q], head, created)
    BY <1>1, <1>5, <1>10, RunIsFit DEF LoadInv
  <2> QED
    BY <1>4, <2>1, AlikeIsAlike DEF Loaded
<1>11. LoadInv'
  <2>1. \A q \in Runs : Loaded(run'[q], head, TRUE)
    BY <1>5, <1>9, <1>10
  <2>2. Rules \ Switched \subseteq active' /\ \A x \in missed' : x[1] \notin Steady
    BY <1>1, <1>5 DEF LoadInv
  <2> QED
    BY <1>5, <2>1, <2>2 DEF LoadInv
<1>12. ASSUME Near'
       PROVE  /\ Passed(head, where, match, origin', r.cur.fast)
              /\ \A q \in Runs : FastFits(run'[q], head, where, match, origin', r.cur.durable)
  <2>1. r.cur.durable = origin' /\ r.cur.fast = origin' /\ head - origin' <= FAST_MAX_RANGE
    BY <1>5, <1>8, <1>12 DEF Near
  <2>2. Passed(head, where, match, origin', origin')
    BY ONLY <1>6, NothingYet
  <2>3. CurFits(r.cur, head, where, match, origin', origin')
    BY <1>6, <2>1, <2>2 DEF CurFits
  <2>4. FastFits(n, head, where, match, origin', origin')
    BY ONLY <1>6, <1>9, <2>1, <2>2, <2>3
  <2>5. ASSUME NEW q \in Runs, q # p
        PROVE  FastFits(run'[q], head, where, match, origin', origin')
    BY <1>10, <2>5 DEF FastFits, Early, Fast
  <2> QED
    BY <1>5, <2>1, <2>2, <2>4, <2>5
<1> QED
  BY <1>5, <1>11, <1>12 DEF FastInv

LEMMA CutShortFast == ASSUME FInv, NEW p \in Runs, CutShort(p) PROVE (LoadInv /\ FastInv)'
<1> DEFINE r == run[p]
           n == [r EXCEPT !.pc = "fastsave"]
<1>1. UNCHANGED <<head, where, created, cursor, origin, reorgs, active, missed, match, lagged>>
      /\ Rows(match, match')
  BY DEF CutShort, chainVars, Rows
<1>2. Step(p, Ending) \/ (r.pc = "fastread" /\ Step(p, n))
  BY DEF CutShort, FastEnded
<1>3. CASE Step(p, Ending)
  BY <1>1, <1>3, EndFast
<1>4. CASE r.pc = "fastread" /\ Step(p, n)
  <2>1. IInv /\ LoadInv /\ FastInv
    BY DEF FInv
  <2>2. r \in Run /\ Loaded(r, head, created)
    BY <2>1, RunIsFit DEF LoadInv
  <2>3. /\ n.pc = "fastsave" /\ n.rules = r.rules /\ n.head = r.head /\ n.cur = r.cur
        /\ n.reached = r.reached
    BY <2>2 DEF Run
  <2>4. run' = [run EXCEPT ![p] = n]
    BY <1>4 DEF Step
  <2> HIDE DEF n
  <2>5. Loaded(n, head, created)
    BY <1>4, <2>2, <2>3 DEF Loaded, Early, Over
  <2>6. ASSUME created, Near
        PROVE  FastFits(n, head, where, match, origin, cursor.durable)
    <3>1. FastFits(r, head, where, match, origin, cursor.durable)
      BY <2>1, <2>6 DEF FastInv
    <3> QED
      BY <1>4, <2>3, <3>1 DEF FastFits, Early, Fast
  <2> HIDE DEF r
  <2> QED
    BY <1>1, <2>1, <2>4, <2>5, <2>6, RunStepFast
<1> QED
  BY <1>2, <1>3, <1>4

\* A step within the durable scan, which leaves what was loaded.
LEMMA WithinFast ==
  ASSUME FInv, NEW p \in Runs,
         ReadWhole(p) \/ ReadRefused(p) \/ WriteFinal(p) \/ QueryStale(p) \/ DropOne(p)
  PROVE  (LoadInv /\ FastInv)'
<1>1. run[p] \in Run /\ match \in [Hits -> Row]
  BY RunIsFit DEF FInv, IInv, DataOK
<1>2. UNCHANGED <<head, where, created, cursor, origin, reorgs, active, missed>>
      /\ (lagged => lagged')
  BY DEF ReadWhole, ReadRefused, WriteFinal, QueryStale, DropOne, chainVars
<1>3. run[p].pc \in {"range", "final", "drop", "dropping"} /\ run[p].pc \notin Early
  BY DEF ReadWhole, ReadRefused, WriteFinal, QueryStale, DropOne, Early
<1>4. Rows(match, match')
  <2>1. CASE ReadWhole(p) \/ ReadRefused(p) \/ QueryStale(p)
    BY <2>1 DEF ReadWhole, ReadRefused, QueryStale, Rows
  <2>2. CASE WriteFinal(p)
    <3>1. PICK x \in run[p].pending :
            match' = [match EXCEPT ![x[1]] = IF @.status = "final" THEN @
                                             ELSE [status |-> "final", block |-> x[2]]]
      BY <2>2 DEF WriteFinal
    <3> QED
      BY <1>1, <3>1 DEF Rows
  <2>3. CASE DropOne(p)
    <3>1. PICK x \in run[p].pending : match' = [match EXCEPT ![x[1]] = DroppedRow(@)]
      BY <2>3 DEF DropOne
    <3>2. \A row \in Row : row.status # "none" => DroppedRow(row).status # "none"
      BY DEF DroppedRow, Row
    <3> QED
      BY <1>1, <3>1, <3>2 DEF Rows
  <2> QED
    BY <2>1, <2>2, <2>3
<1>5. PICK n : run' = [run EXCEPT ![p] = n] /\ n.pc \in Slow /\ Stays(n, run[p])
  <2> DEFINE r == run[p]
  <2>1. CASE ReadWhole(p)
    <3> DEFINE n == [r EXCEPT !.pc = "final", !.pending = Found(r.rules, r.cur.durable + 1, r.to, head)]
    <3>1. run' = [run EXCEPT ![p] = n]
      BY <2>1 DEF ReadWhole, Step
    <3>2. n.pc \in Slow /\ Stays(n, r)
      BY <1>1 DEF Slow, Stays, Run
    <3> QED
      BY <3>1, <3>2
  <2>2. CASE ReadRefused(p)
    <3> DEFINE mid == (r.cur.durable + 1 + r.to) \div 2
               n == [r EXCEPT !.to = mid, !.ends = r.ends \cup {r.to},
                              !.split = IF r.split = "no" THEN "refused" ELSE r.split]
    <3>1. run' = [run EXCEPT ![p] = n]
      BY <2>2 DEF ReadRefused, Step
    <3> HIDE DEF mid
    <3>2. n.pc = r.pc /\ Stays(n, r)
      BY <1>1 DEF Stays, Run
    <3>3. n.pc \in Slow
      BY <2>2, <3>2 DEF ReadRefused, Slow
    <3> QED
      BY <3>1, <3>2, <3>3
  <2>3. CASE WriteFinal(p) \/ DropOne(p)
    <3>1. PICK x \in r.pending : run' = [run EXCEPT ![p] = [r EXCEPT !.pending = @ \ {x}]]
      BY <2>3 DEF WriteFinal, DropOne, Step
    <3> DEFINE n == [r EXCEPT !.pending = @ \ {x}]
    <3>2. n.pc = r.pc /\ Stays(n, r)
      BY <1>1 DEF Stays, Run
    <3>3. n.pc \in Slow
      BY <2>3, <3>2 DEF WriteFinal, DropOne, Slow
    <3> QED
      BY <3>1, <3>2, <3>3
  <2>4. CASE QueryStale(p)
    <3> DEFINE stale == Stale(r.cur.durable)
               n == [r EXCEPT !.pc = "dropping", !.pending = stale]
    <3>1. run' = [run EXCEPT ![p] = n]
      BY <2>4 DEF QueryStale, Step
    <3> HIDE DEF stale
    <3>2. n.pc \in Slow /\ Stays(n, r)
      BY <1>1 DEF Slow, Stays, Run
    <3> QED
      BY <3>1, <3>2
  <2> QED
    BY <2>1, <2>2, <2>3, <2>4
<1> QED
  BY <1>2, <1>3, <1>4, <1>5, OnwardFast

LEMMA OnFast ==
  ASSUME FInv, NEW p \in Runs, ReadLagging(p) \/ DropsDone(p)
  PROVE  (LoadInv /\ FastInv)'
<1>1. UNCHANGED <<head, where, created, cursor, origin, reorgs, active, missed, match>>
      /\ (lagged => lagged') /\ Rows(match, match')
  BY DEF ReadLagging, DropsDone, chainVars, Rows, Lag
<1>2. run[p].pc \notin Early
  BY DEF ReadLagging, DropsDone, Early
<1>3. PICK n \in {ToFast(run[p]), ToDrop(run[p])} : run' = [run EXCEPT ![p] = n]
  BY DEF ReadLagging, DropsDone, Step
<1> QED
  BY <1>1, <1>2, <1>3, OnwardFast

LEMMA FastReadFast == ASSUME FInv, NEW p \in Runs, FastRead(p) PROVE (LoadInv /\ FastInv)'
<1> DEFINE r == run[p]
           logs(v) == Found(r.rules, r.reached + 1, ChunkEnd(r), v)
<1>1. IInv /\ LoadInv /\ FastInv /\ r.pc = "fastread"
  BY DEF FInv, FastRead
<1>2. r \in Run /\ Steady \subseteq r.rules /\ r.head <= head /\ created
  BY <1>1, RunAtWork DEF Over, Early
<1>3. PICK v \in 0 .. head :
        /\ Step(p, [r EXCEPT !.pc = "fastwrite", !.pending = logs(v)])
        /\ IF logs(v) = logs(head) THEN UNCHANGED <<lagged, faults>> ELSE Lag
  BY DEF FastRead
<1> DEFINE found == logs(v)
           n == [r EXCEPT !.pc = "fastwrite", !.pending = found]
<1>4. run' = [run EXCEPT ![p] = n]
  BY <1>3 DEF Step
<1>5. lagged => lagged'
  BY <1>3 DEF Lag
<1>6. ~lagged' => found = logs(head)
  BY <1>3 DEF Lag
<1> HIDE DEF found
<1>7. /\ n.pc = "fastwrite" /\ n.rules = r.rules /\ n.head = r.head /\ n.cur = r.cur
      /\ n.reached = r.reached /\ n.pending = found
  BY <1>2 DEF Run
<1> HIDE DEF n
<1>8. Loaded(n, head, created)
  BY <1>2, <1>7 DEF Loaded, Early
<1>9. UNCHANGED <<head, where, created, cursor, origin, reorgs, active, missed, match>>
      /\ Rows(match, match')
  BY DEF FastRead, chainVars, Rows
<1>10. ASSUME Near, ~lagged'
       PROVE  FastFits(n, head, where, match, origin, cursor.durable)
  <2>1. FastFits(r, head, where, match, origin, cursor.durable)
    BY <1>1, <1>2, <1>10 DEF FastInv
  <2>2. /\ r.cur.durable \in origin .. cursor.durable
        /\ Passed(head, where, match, origin, r.cur.fast)
        /\ Passed(head, where, match, origin, r.reached)
    BY <1>1, <2>1 DEF FastFits, Early, Fast
  <2>3. /\ r.reached \in Nat /\ r.head \in Nat /\ head \in Nat /\ origin \in Nat
        /\ where \in [Txs -> Nat]
    BY <1>1, <1>2, NumbersOfState DEF Run
  <2>4. ChunkEnd(r) \in Nat /\ ChunkEnd(r) <= head /\ ChunkEnd(n) = ChunkEnd(r)
    BY <1>2, <1>7, <2>3, BlocksAssumption DEF ChunkEnd, Smaller
  <2>5. ASSUME NEW m \in Hits, m[2] \in Steady, where[m[1]] \in origin + 1 .. ChunkEnd(r)
        PROVE  match[m].status # "none" \/ <<m, where[m[1]]>> \in found
    <3>1. CASE where[m[1]] <= r.reached
      <4>1. where[m[1]] \in origin + 1 .. r.reached
        BY <2>3, <2>5, <3>1, HitParts
      <4> QED
        BY <2>2, <2>5, <4>1 DEF Passed, Covered
    <3>2. CASE ~(where[m[1]] <= r.reached)
      <4>1. where[m[1]] \in r.reached + 1 .. ChunkEnd(r) /\ r.reached + 1 \in Nat
        BY <2>3, <2>4, <2>5, <3>2, HitParts
      <4>2. m[2] \in r.rules
        BY <1>2, <2>5
      <4>3. <<m, where[m[1]]>> \in logs(head)
        BY <2>3, <2>4, <4>1, <4>2, AllIsFound
      <4> QED
        BY <1>6, <1>10, <4>3
    <3> QED
      BY <3>1, <3>2
  <2> QED
    BY <1>7, <2>2, <2>4, <2>5 DEF FastFits
<1> QED
  BY <1>1, <1>4, <1>5, <1>8, <1>9, <1>10, RunStepFast

LEMMA WriteProvisionalFast ==
  ASSUME FInv, NEW p \in Runs, WriteProvisional(p)
  PROVE  (LoadInv /\ FastInv)'
<1> DEFINE r == run[p]
<1>1. IInv /\ LoadInv /\ FastInv /\ r.pc = "fastwrite"
  BY DEF FInv, WriteProvisional
<1>2. r \in Run /\ Steady \subseteq r.rules /\ r.head <= head /\ created /\ match \in [Hits -> Row]
  BY <1>1, RunAtWork DEF Over, Early, IInv, DataOK
<1>3. PICK x \in r.pending :
        /\ Step(p, [r EXCEPT !.pending = @ \ {x}])
        /\ match' = [match EXCEPT ![x[1]] = IF @.status # "none" THEN @
                                            ELSE [status |-> "provisional", block |-> x[2]]]
  BY DEF WriteProvisional
<1> DEFINE n == [r EXCEPT !.pending = @ \ {x}]
<1>4. run' = [run EXCEPT ![p] = n]
  BY <1>3 DEF Step
<1>5. /\ n.pc = r.pc /\ n.rules = r.rules /\ n.head = r.head /\ n.cur = r.cur
      /\ n.reached = r.reached /\ n.pending = r.pending \ {x}
  BY <1>2 DEF Run
<1> HIDE DEF n
<1>6. Loaded(n, head, created)
  BY <1>1, <1>2, <1>5 DEF Loaded, Early
<1>7. UNCHANGED <<head, where, created, cursor, origin, reorgs, active, missed, lagged>>
  BY DEF WriteProvisional, chainVars
<1>8. Rows(match, match') /\ (x[1] \in Hits => match'[x[1]].status # "none")
  BY <1>2, <1>3 DEF Rows
<1>9. ASSUME Near
      PROVE  FastFits(n, head, where, match', origin, cursor.durable)
  <2>1. FastFits(r, head, where, match, origin, cursor.durable)
    BY <1>1, <1>2, <1>9 DEF FastInv
  <2>2. /\ head \in Nat /\ origin \in Nat /\ where \in [Txs -> Nat]
        /\ r.cur.fast \in Nat /\ r.reached \in Nat
    BY <1>1, <1>2, NumbersOfState DEF Run, Cursor
  <2>3. Grows(head, where, match, head, where, match')
    BY <1>8, <2>2 DEF Grows, Rows
  <2>4. /\ r.cur.durable \in origin .. cursor.durable
        /\ Passed(head, where, match, origin, r.cur.fast)
        /\ Passed(head, where, match, origin, r.reached)
    BY <1>1, <2>1 DEF FastFits, Early, Fast
  <2>5. Passed(head, where, match', origin, r.cur.fast)
        /\ Passed(head, where, match', origin, r.reached)
    BY <2>2, <2>3, <2>4, PassedStays
  <2>6. ASSUME NEW m \in Hits, m[2] \in Steady, where[m[1]] \in origin + 1 .. ChunkEnd(n)
        PROVE  match'[m].status # "none" \/ <<m, where[m[1]]>> \in n.pending
    <3>1. ChunkEnd(n) = ChunkEnd(r)
      BY <1>5 DEF ChunkEnd
    <3>2. match[m].status # "none" \/ <<m, where[m[1]]>> \in r.pending
      BY <1>1, <2>1, <2>6, <3>1 DEF FastFits
    <3>3. CASE <<m, where[m[1]]>> = x
      BY <1>8, <3>3
    <3>4. CASE <<m, where[m[1]]>> # x
      BY <1>5, <1>8, <3>2, <3>4 DEF Rows
    <3> QED
      BY <3>3, <3>4
  <2> QED
    BY <1>5, <2>4, <2>5, <2>6 DEF FastFits
<1> QED
  BY <1>1, <1>4, <1>6, <1>7, <1>8, <1>9, RunStepFast

LEMMA FastChunkDoneFast ==
  ASSUME FInv, NEW p \in Runs, FastChunkDone(p)
  PROVE  (LoadInv /\ FastInv)'
<1> DEFINE r == run[p]
           end == ChunkEnd(r)
           at == [r EXCEPT !.reached = end]
<1>1. IInv /\ LoadInv /\ FastInv /\ r.pc = "fastwrite" /\ r.pending = {}
  BY DEF FInv, FastChunkDone
<1>2. r \in Run /\ Steady \subseteq r.rules /\ r.head <= head /\ created
  BY <1>1, RunAtWork DEF Over, Early
<1>3. UNCHANGED <<head, where, created, cursor, origin, reorgs, active, missed, match, lagged>>
      /\ Rows(match, match')
  BY DEF FastChunkDone, chainVars, Rows
<1>4. Step(p, Ending) \/ \E pc \in {"fastread", "fastsave"} : Step(p, [at EXCEPT !.pc = pc])
  <2>1. Step(p, IF at.reached < at.head THEN [at EXCEPT !.pc = "fastread"] ELSE FastEnded(at))
    BY DEF FastChunkDone
  <2> HIDE DEF at
  <2> QED
    BY <2>1 DEF FastEnded
<1>5. CASE Step(p, Ending)
  BY <1>3, <1>5, EndFast
<1>6. ASSUME NEW pc \in {"fastread", "fastsave"}, Step(p, [at EXCEPT !.pc = pc])
      PROVE  (LoadInv /\ FastInv)'
  <2> DEFINE n == [at EXCEPT !.pc = pc]
  <2>1. run' = [run EXCEPT ![p] = n]
    BY <1>6 DEF Step
  <2> HIDE DEF end
  <2>2. /\ n.pc = pc /\ n.rules = r.rules /\ n.head = r.head /\ n.cur = r.cur /\ n.reached = end
    BY <1>2 DEF Run
  <2> HIDE DEF n
  <2>3. Loaded(n, head, created)
    BY <1>2, <2>2 DEF Loaded, Early
  <2>4. ASSUME Near
        PROVE  FastFits(n, head, where, match, origin, cursor.durable)
    <3>1. FastFits(r, head, where, match, origin, cursor.durable)
      BY <1>1, <1>2, <2>4 DEF FastInv
    <3>2. r.reached \in Nat /\ r.head \in Nat /\ head \in Nat /\ origin \in Nat
      BY <1>1, <1>2, NumbersOfState DEF Run
    <3>3. end \in Nat /\ end <= Larger(head, origin)
      BY <1>2, <3>2, BlocksAssumption DEF end, ChunkEnd, Smaller, Larger
    <3>4. Covered(where, match, origin, end)
      BY <1>1, <3>1 DEF FastFits, Covered, end
    <3>5. r.cur.durable \in origin .. cursor.durable
          /\ Passed(head, where, match, origin, r.cur.fast)
      BY <1>1, <3>1 DEF FastFits, Early
    <3> QED
      BY <2>2, <3>3, <3>4, <3>5 DEF FastFits, Passed
  <2> HIDE DEF r
  <2> QED
    BY <1>1, <1>3, <2>1, <2>3, <2>4, RunStepFast
<1> QED
  BY <1>4, <1>5, <1>6

\* What a run that saves the cursor knows: its view is what the table holds.
LEMMA FreshView ==
  ASSUME IInv, NEW p \in Runs, run[p].fresh, run[p].pc # "create"
  PROVE  created /\ cursor = run[p].cur
BY RunIsFit DEF RunFits, ViewFits

LEMMA MissedIsUnsteady ==
  ASSUME LoadInv, NEW r, NEW to, Steady \subseteq r.rules
  PROVE  \A x \in Missed(r, to) : x[1] \notin Steady
BY DEF Missed, LoadInv

\* A save that moves the durable cursor, and the run goes on with what it saved.
LEMMA DurableSaveFast ==
  ASSUME FInv, IInv', NEW p \in Runs, run[p].pc \in {"final", "skip"}, NEW to \in Nat,
         run[p].cur.durable <= to, NEW at \in Run, NEW n,
         at.rules = run[p].rules, at.head = run[p].head,
         at.cur = [run[p].cur EXCEPT !.durable = to],
         n \in {ToFast(at), ToDrop(at), ToDurable(at)} \/ (n.pc \in Slow /\ Stays(n, at)),
         SaveCursor(p, [run[p].cur EXCEPT !.durable = to], n),
         missed' = Missed(run[p], to),
         UNCHANGED <<head, where, match, origin, reorgs, active, lagged, created>>
  PROVE  (LoadInv /\ FastInv)'
<1> DEFINE r == run[p]
           next == [r.cur EXCEPT !.durable = to]
<1>1. IInv /\ LoadInv /\ FastInv /\ r.pc \notin Over /\ r.pc \notin Early /\ r.pc # "create"
      /\ r.fresh
  BY DEF FInv, Over, Early, SaveCursor
<1>2. r \in Run /\ Steady \subseteq r.rules /\ r.head <= head /\ created /\ cursor = r.cur
  BY <1>1, RunAtWork, FreshView
<1>3. next.durable = to /\ next.fast = cursor.fast /\ next \in Cursor
  BY <1>2 DEF Run, Cursor
<1>4. \A x \in missed' : x[1] \notin Steady
  BY <1>1, <1>2, MissedIsUnsteady
<1>5. /\ head \in Nat /\ origin \in Nat /\ cursor.durable \in Nat /\ cursor.fast \in Nat
      /\ where \in [Txs -> Nat]
  BY <1>1, NumbersOfState
<1>6. Steady \subseteq at.rules /\ at.head <= head
  BY <1>2
<1>7. /\ Loaded(n, head, TRUE)
      /\ \A mt : \A w \in [Txs -> Nat], o \in Nat, d \in Nat :
           /\ head - o <= FAST_MAX_RANGE
           /\ CurFits(at.cur, head, w, mt, o, d) /\ Passed(head, w, mt, o, d)
           => FastFits(n, head, w, mt, o, d)
  BY ONLY <1>5, <1>6, OnwardFits, at \in Run,
     n \in {ToFast(at), ToDrop(at), ToDurable(at)} \/ (n.pc \in Slow /\ Stays(n, at))
<1>8. SaveCursor(p, next, n) /\ at.cur = next
  OBVIOUS
<1>9. cursor.durable <= next.durable
  BY <1>2, <1>3
<1> HIDE DEF next, r
<1>10. ASSUME Near
       PROVE  /\ Passed(head, where, match, origin, next.fast)
              /\ Passed(head, where, match, origin, next.durable) =>
                   FastFits(n, head, where, match, origin, next.durable)
  <2>1. Passed(head, where, match, origin, next.fast)
    BY <1>1, <1>2, <1>3, <1>10 DEF FastInv
  <2>2. origin <= cursor.durable
    BY <1>1, <1>2 DEF IInv, CursorFits
  <2>3. next.durable \in origin .. next.durable
    BY <1>3, <1>5, <1>9, <2>2
  <2>4. CurFits(at.cur, head, where, match, origin, next.durable)
    BY <1>8, <2>1, <2>3 DEF CurFits
  <2>5. head - origin <= FAST_MAX_RANGE /\ next.durable \in Nat
    BY <1>3, <1>10 DEF Near
  <2> QED
    BY <1>5, <1>7, <2>1, <2>4, <2>5
<1>11. created' /\ UNCHANGED <<head, where, match, origin, reorgs, active, lagged>>
  BY <1>2
<1> QED
  BY ONLY IInv', p \in Runs, <1>1, <1>2, <1>4, <1>7, <1>8, <1>9, <1>10, <1>11, SaveStepFast

LEMMA ResizedKeeps ==
  ASSUME NEW r \in Run
  PROVE  Resized(r).rules = r.rules /\ Resized(r).head = r.head
BY DEF Resized, Run

LEMMA SaveChunkFast ==
  ASSUME FInv, IInv', NEW p \in Runs, SaveChunk(p)
  PROVE  (LoadInv /\ FastInv)'
<1> DEFINE mine == run[p]
           r == Resized(mine)
           next == [mine.cur EXCEPT !.durable = mine.to]
           at == [r EXCEPT !.cur = next, !.pending = {}]
           new == IF r.ends = {} THEN ToDurable(at)
                  ELSE [at EXCEPT !.pc = "range", !.to = Least(r.ends), !.ends = @ \ {Least(r.ends)}]
<1>1. /\ mine \in Run /\ mine.pc = "final"
      /\ RunFits(mine, finalized, where, match, created, cursor)
      /\ mine.cur \in Cursor /\ mine.cur.durable \in Nat /\ mine.to \in Nat
  BY RunIsFit DEF SaveChunk, ChunkWritten, Run, Cursor, FInv
<1>2. /\ mine.cur.durable < mine.to
      /\ mine.span > 0 /\ mine.ceiling > 0 /\ (mine.fitted # NoBlock => mine.fitted > 0)
  BY <1>1 DEF RunFits, ScanFits, Scanning
<1>3. r \in Run /\ r.rules = mine.rules /\ r.head = mine.head
  BY <1>1, <1>2, ResizedType, ResizedKeeps
<1>4. next \in Cursor
  BY <1>1 DEF Cursor
<1>5. SaveCursor(p, next, new)
  BY DEF SaveChunk
<1>6. next = [run[p].cur EXCEPT !.durable = mine.to]
  OBVIOUS
<1> HIDE DEF r, next
<1>7. at \in Run /\ at.cur = next /\ at.rules = mine.rules /\ at.head = mine.head
  BY <1>3, <1>4 DEF Run
<1> HIDE DEF at
<1>8. new = ToDurable(at) \/ (new.pc \in Slow /\ Stays(new, at))
  <2> DEFINE to == Least(r.ends)
             n == [at EXCEPT !.pc = "range", !.to = to, !.ends = @ \ {to}]
  <2>1. new = ToDurable(at) \/ new = n
    OBVIOUS
  <2> HIDE DEF to
  <2>2. n.pc = "range" /\ Stays(n, at)
    BY <1>7 DEF Run, Stays
  <2> HIDE DEF n, new
  <2> QED
    BY <2>1, <2>2 DEF Slow
<1> HIDE DEF new
<1>9. missed' = Missed(run[p], mine.to)
      /\ UNCHANGED <<head, where, match, origin, reorgs, active, lagged, created>>
  BY DEF SaveChunk, chainVars
<1>10. mine.cur.durable <= mine.to
  BY <1>1, <1>2
<1> QED
  BY <1>1, <1>5, <1>6, <1>7, <1>8, <1>9, <1>10, DurableSaveFast

LEMMA SkipAheadFast ==
  ASSUME FInv, IInv', NEW p \in Runs, SkipAhead(p)
  PROVE  (LoadInv /\ FastInv)'
<1> DEFINE mine == run[p]
           next == [mine.cur EXCEPT !.durable = mine.fin]
           at == [mine EXCEPT !.cur = next, !.fresh = TRUE]
           new == ToDurable(at)
<1>1. /\ mine \in Run /\ mine.pc = "skip"
      /\ RunFits(mine, finalized, where, match, created, cursor)
      /\ mine.cur \in Cursor /\ mine.cur.durable \in Nat /\ mine.fin \in Nat \cup {NoBlock}
  BY RunIsFit DEF SkipAhead, Run, Cursor, FInv
<1>2. mine.fin \in Nat /\ mine.cur.durable <= mine.fin
  BY <1>1 DEF RunFits, ScanFits
<1>3. next \in Cursor
  BY <1>1, <1>2 DEF Cursor
<1>4. SaveCursor(p, next, new)
  BY DEF SkipAhead, Saved
<1>5. next = [run[p].cur EXCEPT !.durable = mine.fin]
  OBVIOUS
<1> HIDE DEF next
<1>6. at \in Run /\ at.cur = next /\ at.rules = mine.rules /\ at.head = mine.head
  BY <1>1, <1>3 DEF Run
<1> HIDE DEF at
<1>7. new = ToDurable(at)
  OBVIOUS
<1> HIDE DEF new
<1>8. missed' = Missed(run[p], mine.fin)
      /\ UNCHANGED <<head, where, match, origin, reorgs, active, lagged, created>>
  BY DEF SkipAhead, chainVars
<1> QED
  BY <1>1, <1>2, <1>4, <1>5, <1>6, <1>7, <1>8, DurableSaveFast

\* A save of the fast cursor.
LEMMA FastSaveFast ==
  ASSUME FInv, IInv', NEW p \in Runs, run[p].pc \in {"lower", "fastsave"}, NEW f \in Nat, NEW n,
         SaveCursor(p, [run[p].cur EXCEPT !.fast = f], n),
         UNCHANGED <<head, where, match, origin, reorgs, active, lagged, created, missed>>,
         /\ Passed(head, where, match, origin, run[p].cur.fast)
         /\ Passed(head, where, match, origin, run[p].reached)
         => Passed(head, where, match, origin, f),
         \/ n.pc \in Over
         \/ /\ n.pc = "fastread" /\ n.rules = run[p].rules /\ n.head = run[p].head
            /\ n.cur = [run[p].cur EXCEPT !.fast = f] /\ n.reached = run[p].reached
  PROVE  (LoadInv /\ FastInv)'
<1> DEFINE r == run[p]
           next == [r.cur EXCEPT !.fast = f]
<1>1. IInv /\ LoadInv /\ FastInv /\ r.pc \notin Over /\ r.pc \notin Early /\ r.pc # "create"
      /\ r.fresh /\ r.pc \in Fast
  BY DEF FInv, Over, Early, Fast, SaveCursor
<1>2. r \in Run /\ Steady \subseteq r.rules /\ r.head <= head /\ created /\ cursor = r.cur
  BY <1>1, RunAtWork, FreshView
<1>3. next.durable = cursor.durable /\ next.fast = f /\ cursor.durable \in Nat /\ origin \in Nat
  BY <1>1, <1>2, NumbersOfState DEF Run, Cursor
<1>4. SaveCursor(p, next, n)
  OBVIOUS
<1>5. \/ n.pc \in Over
      \/ /\ n.pc = "fastread" /\ n.rules = r.rules /\ n.head = r.head
         /\ n.cur = next /\ n.reached = r.reached
  OBVIOUS
<1> HIDE DEF next
<1>6. Loaded(n, head, TRUE)
  <2>1. CASE n.pc \in Over
    BY <2>1, OverFits
  <2>2. CASE n.pc \notin Over
    BY <1>2, <1>5, <2>2 DEF Loaded
  <2> QED
    BY <2>1, <2>2
<1>7. ASSUME Near
      PROVE  /\ Passed(head, where, match, origin, next.fast)
             /\ FastFits(n, head, where, match, origin, next.durable)
  <2>1. FastFits(r, head, where, match, origin, cursor.durable)
    BY <1>1, <1>2, <1>7 DEF FastInv
  <2>2. /\ r.cur.durable \in origin .. cursor.durable
        /\ Passed(head, where, match, origin, r.cur.fast)
        /\ Passed(head, where, match, origin, r.reached)
    BY <1>1, <2>1 DEF FastFits
  <2>3. Passed(head, where, match, origin, f)
    BY <2>2
  <2>4. CASE n.pc \in Over
    BY <1>3, <2>3, <2>4, OverFits
  <2>5. CASE n.pc \notin Over
    <3>1. n.pc = "fastread" /\ n.cur = next /\ n.reached = r.reached
      BY <1>5, <2>5
    <3>2. n.pc # "fastwrite"
      BY <3>1
    <3>3. n.cur.durable \in origin .. next.durable
      BY <1>2, <1>3, <2>2, <3>1
    <3> QED
      BY <1>3, <2>2, <2>3, <3>1, <3>2, <3>3 DEF FastFits
  <2> QED
    BY <2>4, <2>5
<1>8. /\ created' /\ UNCHANGED <<head, where, match, origin, reorgs, active, lagged>>
      /\ cursor.durable <= next.durable
      /\ \A x \in missed' : x[1] \notin Steady
  BY <1>1, <1>2, <1>3 DEF LoadInv
<1> HIDE DEF r
<1> QED
  BY ONLY IInv', p \in Runs, <1>1, <1>2, <1>4, <1>6, <1>7, <1>8, SaveStepFast

LEMMA LowerFastFast ==
  ASSUME FInv, IInv', NEW p \in Runs, LowerFast(p)
  PROVE  (LoadInv /\ FastInv)'
<1> DEFINE r == run[p]
           next == [r.cur EXCEPT !.fast = r.head]
           n == IF r.from < r.head THEN [[r EXCEPT !.cur = next, !.fresh = TRUE] EXCEPT !.pc = "fastread"]
                ELSE Ending
<1>1. r \in Run /\ r.pc = "lower" /\ r.head \in Nat /\ r.head <= head /\ r.cur.fast \in Nat
  BY RunIsFit, RunAtWork DEF FInv, LowerFast, Over, Run, Cursor
<1>2. SaveCursor(p, next, n)
  BY DEF LowerFast, Saved
<1>3. UNCHANGED <<head, where, match, origin, reorgs, active, lagged, created, missed>>
  BY DEF LowerFast, chainVars
<1>4. next = [run[p].cur EXCEPT !.fast = run[p].head]
  OBVIOUS
<1> HIDE DEF next
<1>5. \/ n.pc \in Over
      \/ /\ n.pc = "fastread" /\ n.rules = r.rules /\ n.head = r.head
         /\ n.cur = next /\ n.reached = r.reached
  <2>1. CASE r.from < r.head
    <3>1. n = [[r EXCEPT !.cur = next, !.fresh = TRUE] EXCEPT !.pc = "fastread"]
      BY <2>1
    <3> QED
      BY <1>1, <3>1 DEF Run
  <2>2. CASE ~(r.from < r.head)
    BY <2>2, EndsOver
  <2> QED
    BY <2>1, <2>2
<1> HIDE DEF n
<1>6. ASSUME Passed(head, where, match, origin, r.cur.fast),
             Passed(head, where, match, origin, r.reached)
      PROVE  Passed(head, where, match, origin, r.head)
  <2>1. head \in Nat /\ origin \in Nat /\ where \in [Txs -> Nat]
    BY NumbersOfState DEF FInv
  <2>2. r.head <= r.cur.fast
    BY <1>1 DEF FInv, LoadInv, Loaded
  <2> QED
    BY <1>1, <1>6, <2>1, <2>2, PassedBelow
<1> QED
  BY <1>1, <1>2, <1>3, <1>4, <1>5, <1>6, FastSaveFast

LEMMA SaveFastFast ==
  ASSUME FInv, IInv', NEW p \in Runs, SaveFast(p)
  PROVE  (LoadInv /\ FastInv)'
<1> DEFINE r == run[p]
           f == FastBlock(r)
<1>1. r.cur.fast \in Nat /\ r.reached \in Nat /\ r.pc = "fastsave"
  BY RunIsFit DEF FInv, SaveFast, Run, Cursor
<1>2. f \in Nat /\ f \in {r.cur.fast, r.reached}
  BY <1>1 DEF FastBlock, Larger
<1>3. SaveCursor(p, [run[p].cur EXCEPT !.fast = f], Ending)
      /\ UNCHANGED <<head, where, match, origin, reorgs, active, lagged, created, missed>>
  BY DEF SaveFast, chainVars
<1> HIDE DEF f
<1> QED
  BY <1>1, <1>2, <1>3, EndsOver, FastSaveFast

LEMMA InitFast == Init => LoadInv /\ FastInv
<1> SUFFICES ASSUME Init
             PROVE  LoadInv /\ FastInv
  OBVIOUS
<1>1. \A p \in Runs : run[p] = Idle
  BY DEF Init
<1>2. ~created /\ active = Rules /\ missed = {}
  BY DEF Init
<1> QED
  BY <1>1, <1>2, EndsOver, OverFits DEF LoadInv, FastInv

LEMMA WorksFast ==
  ASSUME FInv, IInv', NEW p \in Runs, Works(p)
  PROVE  (LoadInv /\ FastInv)'
BY ReadCursorFast, CreateFast, EndsFast, WithinFast, SaveChunkFast, SkipAheadFast, OnFast,
   LowerFastFast, FastReadFast, WriteProvisionalFast, FastChunkDoneFast, SaveFastFast
DEF Works

LEMMA NextFast == FInv /\ [Next]_vars => FInv'
<1> SUFFICES ASSUME FInv, [Next]_vars
             PROVE  FInv'
  OBVIOUS
<1>1. IInv'
  BY NextInv DEF FInv
<1>2. CASE Mine \/ Finalize \/ Reorg \/ (\E r \in Rules : Switch(r)) \/ LeaseEnds
  BY <1>1, <1>2, MineFast, FinalizeFast, ReorgFast, SwitchFast DEF FInv
<1>3. CASE \E p \in Runs : Begin(p) \/ Works(p) \/ ReadLagging(p) \/ CutShort(p) \/ Crash(p)
  BY <1>1, <1>3, BeginFast, WorksFast, OnFast, CutShortFast, EndsFast DEF FInv
<1>4. CASE UNCHANGED vars
  <2>1. LoadInv' /\ FastInv'
    BY <1>4 DEF vars, FInv, LoadInv, FastInv, Near
  <2> QED
    BY <1>1, <2>1 DEF FInv
<1> QED
  BY <1>2, <1>3, <1>4 DEF Next

\* While no node was behind and nothing was reorganised, the fast cursor passes no
\* block whose matches have no row, wherever scans stop, overlap or save late
\* (cycle.ts:257-263).
THEOREM FastCursorCovers == Spec => []FastCovers
<1>1. Init => FInv
  BY InitInv, InitFast DEF FInv
<1>2. FInv => FastCovers
  <2> SUFFICES ASSUME FInv, created, Near
               PROVE  Covered(where, match, origin, cursor.fast)
    BY DEF FastCovers, Near, Covered, Steady
  <2> QED
    BY DEF FInv, FastInv, Passed
<1> QED
  BY <1>1, <1>2, NextFast, PTL DEF Spec

(***************************************************************************)
(* The pipeline of the three services.  What is planned for a match that   *)
(* is not fast was reported final, so is settled; what is executed was     *)
(* made for a delivery that was planned; and while the claim of a delivery *)
(* lives, one transaction at most was made for it.                         *)
(***************************************************************************)
MatchStatuses == {"none", "provisional", "final", "dropped"}
TxStatuses == {"none", "queued", "submitted", "mined", "confirmed", "failed"}

PipelineTyped ==
  /\ report \in [MatchIds -> MatchStatuses] /\ settled \subseteq MatchIds
  /\ state \in [Deliveries -> {"none", "live", "delivered", "dead"}]
  /\ made \in [RelayTxs -> Deliveries \cup {NoDelivery}]
  /\ status \in [RelayTxs -> TxStatuses] /\ executed \subseteq RelayTxs

Due(d) == d \in streamed /\ (d[2] = "final" \/ d[1] \notin Finalized)

\* What was reported final is settled, and what is planned was due.
PlannedInv ==
  /\ \A m \in MatchIds : <<m, "final">> \in streamed => m \in settled
  /\ \A d \in Deliveries : state[d] # "none" => Due(d)

\* A transaction is made for a delivery that was planned, and nothing else is executed.
MadeInv ==
  /\ \A t \in RelayTxs : status[t] # "none" => made[t] # NoDelivery
  /\ \A t \in executed : made[t] # NoDelivery
  /\ \A t \in RelayTxs : made[t] # NoDelivery => state[made[t]] # "none"

\* Until a delivery's claim expires, it holds the delivery's only transaction.
ClaimInv ==
  \A d \in Deliveries \ forgotten : \A t \in RelayTxs :
    made[t] = d => d \in claimed /\ \A s \in RelayTxs : made[s] = d => s = t

PipelineInv == PipelineTyped /\ PlannedInv /\ MadeInv /\ ClaimInv

LEMMA PipelineInitInv == PipelineInit => PipelineInv
BY PipelineAssumption
DEF PipelineInit, PipelineInv, PipelineTyped, PlannedInv, MadeInv, ClaimInv, MatchStatuses, TxStatuses,
    MonitorDoes!Init, ActionsDo!Init, RelayerDoes!Init

LEMMA WatchPipeline == ASSUME PipelineInv, Watch PROVE PipelineInv'
<1>1. /\ UNCHANGED <<state, received, made, claimed, forgotten, status, executed>>
      /\ streamed' = streamed \cup {<<m, report'[m]>> : m \in Rewritten}
      /\ MonitorDoes!Next
  BY DEF Watch
<1>2. /\ report' \in [MatchIds -> MatchStatuses] /\ settled' \subseteq MatchIds /\ settled \subseteq settled'
      /\ \A m \in MatchIds : report'[m] = report[m] \/ report'[m] # "final" \/ m \in settled'
  <2>1. CASE MonitorDoes!Settle
    BY <2>1 DEF MonitorDoes!Settle, PipelineInv, PipelineTyped
  <2>2. ASSUME NEW m \in MatchIds,
               MonitorDoes!Provisional(m) \/ MonitorDoes!Drop(m) \/ MonitorDoes!Final(m)
        PROVE  <1>2
    <3>1. PICK to \in MatchStatuses : /\ report' = [report EXCEPT ![m] = to] /\ settled' = settled
                                      /\ to = "final" => m \in settled
      BY <2>2 DEF MonitorDoes!Provisional, MonitorDoes!Drop, MonitorDoes!Final, MonitorDoes!Report,
                  MatchStatuses
    <3> QED
      BY <3>1 DEF PipelineInv, PipelineTyped
  <2> QED
    BY <1>1, <2>1, <2>2 DEF MonitorDoes!Next
<1>3. PipelineTyped'
  BY <1>1, <1>2 DEF PipelineInv, PipelineTyped
<1>4. PlannedInv'
  <2>1. ASSUME NEW m \in MatchIds, <<m, "final">> \in streamed' PROVE m \in settled'
    <3>1. CASE <<m, "final">> \in streamed
      BY <1>2, <3>1 DEF PipelineInv, PlannedInv
    <3>2. CASE m \in Rewritten /\ report'[m] = "final"
      BY <1>2, <3>2 DEF Rewritten
    <3> QED
      BY <1>1, <2>1, <3>1, <3>2
  <2>2. ASSUME NEW d \in Deliveries, state'[d] # "none" PROVE Due(d)'
    BY <1>1, <2>2 DEF PipelineInv, PlannedInv, Due
  <2> QED
    BY <2>1, <2>2 DEF PlannedInv
<1>5. MadeInv' /\ ClaimInv'
  BY <1>1 DEF PipelineInv, MadeInv, ClaimInv
<1> QED
  BY <1>3, <1>4, <1>5 DEF PipelineInv

LEMMA planPipeline == ASSUME PipelineInv, NEW d \in Deliveries, plan(d) PROVE PipelineInv'
<1>1. /\ Due(d) /\ state' = [state EXCEPT ![d] = "live"]
      /\ UNCHANGED <<report, settled, streamed, received, made, claimed, forgotten, status, executed>>
  BY DEF plan, Due, ActionsDo!Create, ActionsDo!Move
<1>2. PipelineTyped'
  BY <1>1 DEF PipelineInv, PipelineTyped
<1>3. \A c \in Deliveries : state'[c] # "none" => state[c] # "none" \/ c = d
  BY <1>1 DEF PipelineInv, PipelineTyped
<1>4. \A c \in Deliveries : state[c] # "none" => state'[c] # "none"
  BY <1>1 DEF PipelineInv, PipelineTyped
<1>5. PlannedInv'
  BY <1>1, <1>3 DEF PipelineInv, PlannedInv, Due
<1>6. MadeInv' /\ ClaimInv'
  BY <1>1, <1>4 DEF PipelineInv, PipelineTyped, MadeInv, ClaimInv
<1> QED
  BY <1>2, <1>5, <1>6 DEF PipelineInv

LEMMA RecordPipeline == ASSUME PipelineInv, NEW d \in Deliveries, Record(d) PROVE PipelineInv'
<1>1. PICK to \in {"live", "delivered", "dead"} :
        /\ state[d] # "none" /\ state' = [state EXCEPT ![d] = to]
        /\ UNCHANGED <<report, settled, streamed, received, made, claimed, forgotten, status, executed>>
  BY DEF Record, ActionsDo!Deliver, ActionsDo!Die, ActionsDo!Redrive, ActionsDo!Move
<1>2. PipelineTyped'
  BY <1>1 DEF PipelineInv, PipelineTyped
<1>3. \A c \in Deliveries : state'[c] # "none" <=> state[c] # "none"
  BY <1>1 DEF PipelineInv, PipelineTyped
<1>4. PlannedInv'
  BY <1>1, <1>3 DEF PipelineInv, PlannedInv, Due
<1>5. MadeInv' /\ ClaimInv'
  BY <1>1, <1>3 DEF PipelineInv, PipelineTyped, MadeInv, ClaimInv
<1> QED
  BY <1>2, <1>4, <1>5 DEF PipelineInv

LEMMA SendRelayPipeline ==
  ASSUME PipelineInv, NEW d \in Deliveries, NEW t \in RelayTxs, SendRelay(d, t)
  PROVE  PipelineInv'
<1>1. /\ d \notin claimed /\ state[d] # "none" /\ made[t] = NoDelivery
      /\ status' = [status EXCEPT ![t] = "queued"] /\ made' = [made EXCEPT ![t] = d]
      /\ claimed' = claimed \cup {d}
      /\ UNCHANGED <<report, settled, streamed, state, forgotten, executed>>
  BY DEF SendRelay, Unused, ActionsDo!Accept, RelayerDoes!Accept, RelayerDoes!Report
<1>2. PipelineTyped'
  BY <1>1 DEF PipelineInv, PipelineTyped, TxStatuses
<1>3. /\ made'[t] = d /\ \A s \in RelayTxs \ {t} : made'[s] = made[s] /\ status'[s] = status[s]
      /\ d # NoDelivery
  BY <1>1, PipelineAssumption DEF PipelineInv, PipelineTyped
<1>4. PlannedInv'
  BY <1>1 DEF PipelineInv, PlannedInv, Due
<1>5. MadeInv'
  BY <1>1, <1>3 DEF PipelineInv, PipelineTyped, MadeInv
<1>6. ClaimInv'
  <2>1. d \notin forgotten => \A s \in RelayTxs : made[s] # d
    BY <1>1 DEF PipelineInv, ClaimInv
  <2> QED
    BY <1>1, <1>3, <2>1 DEF PipelineInv, ClaimInv
<1> QED
  BY <1>2, <1>4, <1>5, <1>6 DEF PipelineInv

LEMMA ClaimExpiresPipeline ==
  ASSUME PipelineInv, NEW d \in Deliveries, KeyExpires(d)
  PROVE  PipelineInv'
BY DEF KeyExpires, PipelineInv, PipelineTyped, PlannedInv, Due, MadeInv, ClaimInv

LEMMA SendPipeline == ASSUME PipelineInv, Send PROVE PipelineInv'
<1>1. UNCHANGED <<report, settled, streamed, state, received, made, claimed, forgotten>>
  BY DEF Send
<1>2. /\ status' \in [RelayTxs -> TxStatuses] /\ executed' \subseteq RelayTxs
      /\ \A t \in RelayTxs : status'[t] # "none" => status[t] # "none"
      /\ \A t \in executed' : t \in executed \/ status[t] # "none"
  <2>1. ASSUME NEW t \in RelayTxs,
               \/ RelayerDoes!Sent(t) \/ RelayerDoes!SeenMined(t) \/ RelayerDoes!SeenReorged(t)
               \/ RelayerDoes!Confirm(t) \/ RelayerDoes!Fail(t)
        PROVE  <1>2
    <3>1. PICK to \in TxStatuses :
            status[t] # "none" /\ status' = [status EXCEPT ![t] = to] /\ executed' = executed
      BY <2>1 DEF RelayerDoes!Sent, RelayerDoes!SeenMined, RelayerDoes!SeenReorged, RelayerDoes!Confirm,
                  RelayerDoes!Fail, RelayerDoes!Report, TxStatuses
    <3> QED
      BY <3>1 DEF PipelineInv, PipelineTyped
  <2>2. ASSUME NEW t \in RelayTxs, RelayerDoes!Execute(t) PROVE <1>2
    BY <2>2 DEF RelayerDoes!Execute, PipelineInv, PipelineTyped
  <2>3. CASE RelayerDoes!Undo
    BY <2>3 DEF RelayerDoes!Undo, PipelineInv, PipelineTyped
  <2> QED
    BY <2>1, <2>2, <2>3 DEF Send
<1>3. PipelineTyped' /\ PlannedInv' /\ ClaimInv'
  BY <1>1, <1>2 DEF PipelineInv, PipelineTyped, PlannedInv, Due, ClaimInv
<1>4. MadeInv'
  BY <1>1, <1>2 DEF PipelineInv, PipelineTyped, MadeInv
<1> QED
  BY <1>3, <1>4 DEF PipelineInv

LEMMA PipelineNextInv == ASSUME PipelineInv, [PipelineNext]_pipelineVars PROVE PipelineInv'
<1>1. CASE UNCHANGED pipelineVars
  BY <1>1 DEF pipelineVars, PipelineInv, PipelineTyped, PlannedInv, Due, MadeInv, ClaimInv
<1> QED
  BY <1>1, WatchPipeline, planPipeline, RecordPipeline, SendRelayPipeline, ClaimExpiresPipeline, SendPipeline
  DEF PipelineNext

LEMMA PipelineSpecInv == PipelineSpec => []PipelineInv
BY PipelineInitInv, PipelineNextInv, PTL DEF PipelineSpec

\* A delivery of a finalized rule's match is the final one, and the match is settled.
LEMMA OnlyFinal ==
  ASSUME PipelineInv, NEW m \in Finalized, NEW e \in Events, state[<<m, e>>] # "none"
  PROVE  e = "final" /\ m \in settled
<1>1. m \in MatchIds /\ <<m, e>> \in Deliveries
  BY PipelineAssumption DEF Deliveries
<1>2. Due(<<m, e>>)
  BY <1>1 DEF PipelineInv, PlannedInv
<1> QED
  BY <1>1, <1>2 DEF Due, PipelineInv, PlannedInv

\* What is executed was made for a delivery that was planned.
LEMMA ExecutedIsPlanned ==
  ASSUME PipelineInv, NEW t \in executed
  PROVE  /\ t \in RelayTxs /\ made[t] \in Deliveries /\ state[made[t]] # "none"
         /\ made[t] = <<made[t][1], made[t][2]>> /\ made[t][2] \in Events
<1>1. t \in RelayTxs /\ made[t] \in Deliveries /\ state[made[t]] # "none"
  BY DEF PipelineInv, PipelineTyped, MadeInv
<1> QED
  BY <1>1 DEF Deliveries

\* Nothing is planned, made or executed for a match of a finalized rule that is not
\* settled on the chain (dispatcher.ts:92), for every number of matches, deliveries,
\* transactions and repetitions.
THEOREM PipelineActsOnSettled == PipelineSpec => []ActsOnSettled
<1>1. PipelineInv => ActsOnSettled
  <2> SUFFICES ASSUME PipelineInv, NEW m \in Finalized, m \notin settled
               PROVE  /\ \A t \in executed : made[t] \in Deliveries /\ made[t][1] # m
                      /\ \A e \in Events : state[<<m, e>>] = "none"
    BY DEF ActsOnSettled
  <2>1. \A e \in Events : state[<<m, e>>] = "none"
    BY OnlyFinal
  <2>2. ASSUME NEW t \in executed PROVE made[t] \in Deliveries /\ made[t][1] # m
    BY <2>1, ExecutedIsPlanned
  <2> QED
    BY <2>1, <2>2
<1> QED
  BY <1>1, PipelineSpecInv, PTL

\* While the relayer remembers its key, a finalized match has its action executed once
\* at most (relay.ts:56), whatever repeats it.
THEOREM PipelineActsOnce == PipelineSpec => []ActsOnce
<1>1. PipelineInv => ActsOnce
  <2> SUFFICES ASSUME PipelineInv, NEW m \in Finalized, <<m, "final">> \notin forgotten,
                      NEW s \in executed, NEW t \in executed, made[s][1] = m, made[t][1] = m
               PROVE  s = t
    BY DEF ActsOnce
  <2>1. made[s] = <<m, "final">>
    BY ExecutedIsPlanned, OnlyFinal
  <2>2. made[t] = <<m, "final">>
    BY ExecutedIsPlanned, OnlyFinal
  <2> QED
    BY <2>1, <2>2, ExecutedIsPlanned DEF PipelineInv, ClaimInv
<1> QED
  BY <1>1, PipelineSpecInv, PTL
=============================================================================
