--------------------------- MODULE RelayerProofs ---------------------------
(***************************************************************************)
(* Proofs about Relayer, for any number of transactions, sweeper runs,     *)
(* signatures, blocks and reorgs.                                          *)
(*                                                                         *)
(* The inductive invariant is in layers.  StoreInv is about the table and  *)
(* the runs' snapshots of it; it holds whatever the nodes do and gives     *)
(* SettledForGood.  Over it, HoldersInv is about who holds a nonce, and    *)
(* KnownInv about what a run's reads say of a chain that went on since.    *)
(* ChainInv adds what the nodes took; it needs a send's tries not to be    *)
(* taken after they timed out, and gives AtMostOnce.  ReliableInv is all   *)
(* of it, and more: that a node took a signature is marked, and what is    *)
(* failed is gone for good.  It needs answers that are not lost and sweeps *)
(* that do not overlap, and gives FailedNeverMined and the refinement of   *)
(* TxPromise.  Without these, KnownInv alone gives PromiseStands, the part *)
(* of TxPromise that does not speak of failed ones.                        *)
(***************************************************************************)
EXTENDS Relayer, SequenceTheorems, TLAPS

(***************************************************************************)
(* The inductive invariant                                                 *)
(***************************************************************************)
\* What the fields of a row say of each other.
RowOK(row) ==
  /\ row.nonce \in Nat \cup {NoNonce}
  /\ row.nonce = NoNonce => row.attempts = << >>
  /\ row.status = "none" => row.nonce = NoNonce
  /\ row.status \in {"submitted", "mined"} => row.nonce \in Nat
  /\ row.status = "mined" => row.mined.n \in DOMAIN row.attempts

SignerPC(q) ==
  /\ q.pc \in {"dead-end", "nonce", "sign", "send", "answered"}
  /\ q.view.status = "queued"
  /\ q.pc = "nonce" => q.view.nonce = NoNonce
  /\ q.pc = "sign" => q.view.nonce \in Nat /\ q.view.attempts = << >>

SweeperPC(q) ==
  /\ q.pc \in {"view", "active", "resumed", "bump", "resend",
               "send", "answered", "mark", "confirm", "fail"}
  /\ q.pc \in {"active", "resumed"} => q.view.status = "queued"
  /\ q.pc \in {"bump", "resend", "send", "answered", "mark", "fail"}
       => q.view.status = "submitted"
  /\ q.pc = "confirm" => q.view.status = "mined"

\* What a run that is under way knows of its own snapshot.
RunOK(p, q) ==
  /\ q.id \in Ids
  /\ q.view.status \in Pending
  /\ RowOK(q.view)
  /\ q.pc \in {"send", "answered", "mark"} =>
       q.view.nonce \in Nat /\ q.n \in DOMAIN q.view.attempts
  /\ IF p = Signer THEN SignerPC(q) ELSE SweeperPC(q)

\* `later` is what may become of a row that was sent, seen as `view`.
SentSince(view, later) ==
  view.status \in {"submitted", "mined"} =>
    /\ later.status \notin {"none", "queued"}
    /\ later.nonce = view.nonce
    /\ Len(view.attempts) <= Len(later.attempts)

\* How a run's snapshot compares with the row that is stored: the signer's never
\* differs, a sweeper's may be old, but the nonce is still that one.
Related(p, q, row) ==
  /\ q.fresh => row = q.view
  /\ IF p = Signer THEN row = q.view ELSE SentSince(q.view, row)

RowsOK == \A t \in Ids : RowOK(tx[t])

RunsOK ==
  \A p \in Procs : proc[p].pc # "idle" =>
    RunOK(p, proc[p]) /\ Related(p, proc[p], tx[proc[p].id])

StoreInv == TypeOK /\ RowsOK /\ RunsOK

\* No node took a signature at a nonce that the signer's run may still give up.
MayGiveUp(q) ==
  /\ q.pc # "idle"
  /\ q.taken
  /\ ~(q.pc = "answered" /\ q.answer \in {"taken", "unknown"})

UnsentIfGivenUp ==
  MayGiveUp(proc[Signer]) => \A sig \in reached : sig.id # proc[Signer].id

\* The chain's nonces are used in order, ours by what a node took.
UsedInOrder ==
  \A i \in DOMAIN used :
    /\ used[i].sig.nonce = i - 1
    /\ used[i].sig.id # NoTx => used[i].sig \in reached

ChainInv == StoreInv /\ UnsentIfGivenUp /\ ReachedIsListed /\ UsedInOrder

(***************************************************************************)
(* Rows                                                                    *)
(***************************************************************************)
\* What marking an attempt leaves alone.
LEMMA MarkAcceptedRow ==
  ASSUME NEW row \in Row, NEW i \in DOMAIN row.attempts
  PROVE  LET r == MarkAccepted(row, i) IN
         /\ r \in Row
         /\ r.attempts \in Seq(Attempt)
         /\ DOMAIN r.attempts = DOMAIN row.attempts
         /\ Len(r.attempts) = Len(row.attempts)
         /\ r.nonce = row.nonce /\ r.status = row.status /\ r.mined = row.mined
<1> DEFINE a == [row.attempts[i] EXCEPT !.accepted = TRUE]
           seq == [row.attempts EXCEPT ![i] = a]
<1>1. row.attempts \in Seq(Attempt) /\ i \in 1 .. Len(row.attempts)
  BY DEF Row
<1>2. row.attempts[i] \in Attempt
  BY <1>1, ElementOfSeq
<1>3. a \in Attempt
  BY <1>2 DEF Attempt
<1>4. seq \in Seq(Attempt) /\ Len(seq) = Len(row.attempts)
  BY <1>1, <1>3, ExceptSeq
<1>5. DOMAIN seq = DOMAIN row.attempts
  OBVIOUS
<1>6. MarkAccepted(row, i) = [row EXCEPT !.attempts = seq]
  BY DEF MarkAccepted
<1>7. [row EXCEPT !.attempts = seq] \in Row
  BY <1>4 DEF Row
<1> QED BY <1>4, <1>5, <1>6, <1>7 DEF Row

LEMMA MarkRefusedRow ==
  ASSUME NEW row \in Row, NEW i \in DOMAIN row.attempts
  PROVE  LET r == MarkRefused(row, i) IN
         /\ r \in Row
         /\ r.attempts \in Seq(Attempt)
         /\ DOMAIN r.attempts = DOMAIN row.attempts
         /\ Len(r.attempts) = Len(row.attempts)
         /\ r.nonce = row.nonce /\ r.status = row.status /\ r.mined = row.mined
<1> DEFINE a == [row.attempts[i] EXCEPT !.refused = TRUE]
           seq == [row.attempts EXCEPT ![i] = a]
<1>1. row.attempts \in Seq(Attempt) /\ i \in 1 .. Len(row.attempts)
  BY DEF Row
<1>2. row.attempts[i] \in Attempt
  BY <1>1, ElementOfSeq
<1>3. a \in Attempt
  BY <1>2 DEF Attempt
<1>4. seq \in Seq(Attempt) /\ Len(seq) = Len(row.attempts)
  BY <1>1, <1>3, ExceptSeq
<1>5. DOMAIN seq = DOMAIN row.attempts
  OBVIOUS
<1>6. MarkRefused(row, i) = [row EXCEPT !.attempts = seq]
  BY DEF MarkRefused
<1>7. [row EXCEPT !.attempts = seq] \in Row
  BY <1>4 DEF Row
<1> QED BY <1>4, <1>5, <1>6, <1>7 DEF Row

(***************************************************************************)
(* Steps that write no row, and steps that write one                       *)
(***************************************************************************)
LEMMA TakeStep ==
  ASSUME StoreInv, NEW p \in Procs, NEW q \in Proc,
         tx' = tx, proc' = [proc EXCEPT ![p] = q],
         q.pc # "idle" => RunOK(p, q) /\ Related(p, q, tx[q.id])
  PROVE  proc' \in [Procs -> Proc] /\ RowsOK' /\ RunsOK'
<1>1. proc' \in [Procs -> Proc]
  BY DEF StoreInv, TypeOK
<1>2. RowsOK'
  BY DEF StoreInv, RowsOK
<1>3. ASSUME NEW r \in Procs, proc'[r].pc # "idle"
      PROVE  RunOK(r, proc'[r]) /\ Related(r, proc'[r], tx'[proc'[r].id])
  <2>1. CASE r = p
    BY <1>3, <2>1 DEF StoreInv, TypeOK
  <2>2. CASE r # p
    BY <1>3, <2>2 DEF StoreInv, TypeOK, RunsOK
  <2> QED BY <2>1, <2>2
<1> QED BY <1>1, <1>2, <1>3 DEF RunsOK

LEMMA IdleProc == Idle \in Proc /\ Idle.pc = "idle" /\ NoRow \in Row /\ RowOK(NoRow)
<1>1. NoRow \in Row
  BY DEF NoRow, Row, Status, NoNonce, NoMined, NoStamp
<1> QED BY <1>1 DEF Idle, Proc, PC, RowOK, NoRow, NoNonce

\* What a run may write: the signer anything, a sweeper nothing new over a queued
\* row, and over a row that was sent only what SentSince allows.
MayWrite(p, view, row) ==
  /\ row \in Row
  /\ RowOK(row)
  /\ p # Signer /\ view.status = "queued" => row = view
  /\ p # Signer => SentSince(view, row)

LEMMA SaveStep ==
  ASSUME StoreInv, NEW p \in Procs, NEW row, NEW next \in Proc,
         proc[p].pc # "idle", SaveTx(p, row, next),
         MayWrite(p, proc[p].view, row),
         next.pc # "idle" => next.id = proc[p].id /\ next.view = row /\ RunOK(p, next)
  PROVE  /\ tx' \in [Ids -> Row] /\ proc' \in [Procs -> Proc]
         /\ RowsOK' /\ RunsOK'
<1> DEFINE t == proc[p].id
           view == proc[p].view
<1>1. /\ proc[p].fresh /\ tx[t] = view /\ t \in Ids /\ view.status \in Pending
      /\ RunOK(p, proc[p])
  BY DEF SaveTx, StoreInv, RunsOK, RunOK, Related
<1>2. tx' = [tx EXCEPT ![t] = row] /\ tx' \in [Ids -> Row]
  BY <1>1 DEF SaveTx, MayWrite, StoreInv, TypeOK
<1>3. RowsOK'
  BY <1>1, <1>2 DEF RowsOK, MayWrite, StoreInv, TypeOK
<1>4. proc' \in [Procs -> Proc]
  <2>1. ASSUME NEW r \in Procs PROVE [proc[r] EXCEPT !.fresh = FALSE] \in Proc
    BY ZenonT(60) DEF StoreInv, TypeOK, Proc
  <2> QED BY <2>1 DEF SaveTx, StoreInv, TypeOK
<1>5. ASSUME NEW r \in Procs, proc'[r].pc # "idle"
      PROVE  RunOK(r, proc'[r]) /\ Related(r, proc'[r], tx'[proc'[r].id])
  <2>1. CASE r = p
    <3>1. proc'[r] = next /\ tx'[next.id] = row /\ next.view = row
      BY <1>1, <1>2, <1>5, <2>1 DEF SaveTx, StoreInv, TypeOK
    <3>2. SentSince(row, row)
      BY DEF SentSince
    <3> QED BY <1>5, <2>1, <3>1, <3>2 DEF Related
  <2>2. CASE r # p /\ proc[r].id # t
    <3>1. proc'[r] = proc[r]
      BY <2>2 DEF SaveTx
    <3>2. RunOK(r, proc[r]) /\ Related(r, proc[r], tx[proc[r].id]) /\ proc[r].id \in Ids
      BY <1>5, <3>1 DEF StoreInv, RunsOK, RunOK
    <3>3. tx'[proc[r].id] = tx[proc[r].id]
      BY <1>2, <2>2, <3>2 DEF StoreInv, TypeOK
    <3> QED BY <3>1, <3>2, <3>3
  <2>3. CASE r # p /\ proc[r].id = t
    <3> DEFINE q == proc[r]
    <3>1. proc'[r] = [q EXCEPT !.fresh = FALSE]
      BY <2>3 DEF SaveTx
    <3>2. q \in Proc
      BY DEF StoreInv, TypeOK
    <3>3. /\ proc'[r].pc = q.pc /\ proc'[r].id = t /\ proc'[r].view = q.view
          /\ proc'[r].n = q.n /\ ~proc'[r].fresh
      BY <2>3, <3>1, <3>2 DEF Proc
    <3>4. RunOK(r, q) /\ Related(r, q, view)
      BY <1>1, <1>5, <2>3, <3>3 DEF StoreInv, RunsOK
    <3>5. RunOK(r, proc'[r])
      BY <2>3, <3>3, <3>4 DEF RunOK, SignerPC, SweeperPC
    <3>6. tx'[t] = row
      BY <1>1, <1>2 DEF StoreInv, TypeOK
    <3>7. CASE r = Signer
      <4>1. view = q.view /\ view.status = "queued" /\ p # Signer
        BY <2>3, <3>4, <3>7 DEF Related, RunOK, SignerPC
      <4>2. row = q.view
        BY <4>1 DEF MayWrite
      <4> QED BY <3>3, <3>5, <3>6, <3>7, <4>2 DEF Related
    <3>8. CASE r # Signer
      <4>1. SentSince(q.view, view)
        BY <3>4, <3>8 DEF Related
      <4>2. CASE p = Signer
        <5>1. view.status = "queued"
          BY <1>1, <4>2 DEF RunOK, SignerPC
        <5>2. q.view.status \notin {"submitted", "mined"}
          BY <4>1, <5>1 DEF SentSince
        <5> QED BY <3>3, <3>5, <3>6, <3>8, <5>2 DEF Related, SentSince
      <4>3. CASE p # Signer
        <5>1. SentSince(view, row) /\ (view.status = "queued" => row = view)
          BY <4>3 DEF MayWrite
        <5>2. /\ Len(q.view.attempts) \in Nat /\ Len(view.attempts) \in Nat
              /\ Len(row.attempts) \in Nat
          BY <3>2, LenProperties DEF Proc, Row, MayWrite, StoreInv, TypeOK
        <5>3. view.status \in {"queued", "submitted", "mined"}
          BY <1>1 DEF Pending
        <5>4. SentSince(q.view, row)
          BY <4>1, <5>1, <5>2, <5>3, SMTT(60) DEF SentSince
        <5> QED BY <3>3, <3>5, <3>6, <3>8, <5>4 DEF Related
      <4> QED BY <4>2, <4>3
    <3> QED BY <3>7, <3>8
  <2> QED BY <2>1, <2>2, <2>3
<1> QED BY <1>2, <1>3, <1>4, <1>5 DEF RunsOK

\* The variables other than the table and the runs have their types.
OthersOK ==
  /\ nextNonce \in Nat
  /\ paused \in BOOLEAN
  /\ queue \subseteq Ids
  /\ reconciled \in BOOLEAN
  /\ head \in Nat
  /\ used \in Seq([sig : [id : Ids \cup {NoTx}, nonce : Nat, n : Nat], block : Nat])
  /\ reached \subseteq Signature
  /\ usedMax \in Nat
  /\ reorgs \in Nat
  /\ foreign \subseteq Nat

\* What is known of a run that is under way.
LEMMA RunFacts ==
  ASSUME StoreInv, NEW p \in Procs, proc[p].pc # "idle"
  PROVE  /\ proc[p] \in Proc /\ proc[p].view \in Row /\ proc[p].id \in Ids
         /\ RunOK(p, proc[p])
         /\ Related(p, proc[p], tx[proc[p].id])
         /\ proc[p].view.attempts \in Seq(Attempt)
BY DEF StoreInv, RunsOK, RunOK, TypeOK, Proc, Row

\* A run that ends writes nothing more.
LEMMA FinishStep ==
  ASSUME StoreInv, NEW p \in Procs, tx' = tx, Finish(p)
  PROVE  proc' \in [Procs -> Proc] /\ RowsOK' /\ RunsOK'
BY IdleProc, TakeStep DEF Finish

LEMMA SaveAndFinishStep ==
  ASSUME StoreInv, NEW p \in Procs, NEW row,
         proc[p].pc # "idle", SaveTx(p, row, Idle), MayWrite(p, proc[p].view, row)
  PROVE  tx' \in [Ids -> Row] /\ proc' \in [Procs -> Proc] /\ RowsOK' /\ RunsOK'
BY IdleProc, SaveStep

LEMMA GotoStep ==
  ASSUME StoreInv, NEW p \in Procs, tx' = tx, NEW pc \in PC,
         proc[p].pc # "idle", Goto(p, pc),
         pc # "idle" => RunOK(p, [proc[p] EXCEPT !.pc = pc])
  PROVE  proc' \in [Procs -> Proc] /\ RowsOK' /\ RunsOK'
<1> DEFINE q == [proc[p] EXCEPT !.pc = pc]
<1>1. proc[p] \in Proc /\ Related(p, proc[p], tx[proc[p].id])
  BY RunFacts
<1>2. q \in Proc /\ q.id = proc[p].id /\ q.view = proc[p].view /\ q.fresh = proc[p].fresh /\ q.pc = pc
  BY <1>1 DEF Proc
<1>3. Related(p, q, tx[q.id])
  BY <1>1, <1>2 DEF Related
<1>4. proc' = [proc EXCEPT ![p] = q]
  BY DEF Goto
<1> QED BY <1>2, <1>3, <1>4, TakeStep

LEMMA SignerIn == Signer \in Procs /\ \A s \in Sweepers : s \in Procs /\ s # Signer
BY ProcsAssumption DEF Procs

(***************************************************************************)
(* Submission and the signer                                               *)
(***************************************************************************)
LEMMA SubmitStep ==
  ASSUME StoreInv, NEW t \in Payloads, Submit(t)
  PROVE  StoreInv'
<1> DEFINE row == WithStatus(NoRow, "queued")
<1>1. t \in Ids /\ tx[t].status = "none"
  BY DEF Submit, Ids
<1>2. row \in Row /\ RowOK(row)
  <2>1. row \in Row
    BY IdleProc DEF WithStatus, Row, Status
  <2>2. row.status = "queued" /\ row.nonce = NoNonce /\ row.attempts = << >>
    BY DEF WithStatus, NoRow
  <2> QED BY <2>1, <2>2 DEF RowOK
<1>3. tx' = [tx EXCEPT ![t] = row] /\ proc' = proc
  BY DEF Submit
<1>4. tx' \in [Ids -> Row] /\ RowsOK'
  BY <1>1, <1>2, <1>3 DEF StoreInv, TypeOK, RowsOK
<1>5. OthersOK'
  BY <1>1 DEF Submit, StoreInv, TypeOK, OthersOK, chainVars
<1>6. ASSUME NEW p \in Procs, proc[p].pc # "idle"
      PROVE  Related(p, proc[p], tx'[proc[p].id])
  <2>1. RunOK(p, proc[p]) /\ Related(p, proc[p], tx[proc[p].id])
    BY <1>6 DEF StoreInv, RunsOK
  <2>2. CASE proc[p].id # t
    BY <1>1, <1>3, <2>1, <2>2 DEF StoreInv, TypeOK
  <2>3. CASE proc[p].id = t
    BY <1>1, <1>3, <2>1, <2>3 DEF StoreInv, TypeOK, RunOK, Related, SentSince, Pending
  <2> QED BY <2>2, <2>3
<1>7. RunsOK'
  BY <1>3, <1>6 DEF StoreInv, RunsOK
<1> QED BY <1>3, <1>4, <1>5, <1>7 DEF StoreInv, TypeOK, OthersOK

LEMMA SignerTakeStep ==
  ASSUME StoreInv, NEW t \in Ids, SignerTake(t)
  PROVE  StoreInv'
<1> DEFINE row == tx[t]
<1>1. row \in Row /\ RowOK(row) /\ row.status = "queued" /\ row.attempts \in Seq(Attempt)
  BY DEF SignerTake, StoreInv, TypeOK, RowsOK, Row
<1>2. PICK pc \in {"nonce", "sign", "send", "dead-end"} :
        /\ proc' = [proc EXCEPT ![Signer] =
                      [Idle EXCEPT !.pc = pc, !.id = t, !.view = row, !.fresh = TRUE,
                                   !.n = Len(row.attempts), !.how = "first"]]
        /\ pc = "nonce" => row.nonce = NoNonce
        /\ pc = "sign" => row.nonce # NoNonce /\ row.attempts = << >>
        /\ pc = "send" => row.nonce # NoNonce /\ row.attempts # << >>
  BY DEF SignerTake
<1> DEFINE q == [Idle EXCEPT !.pc = pc, !.id = t, !.view = row, !.fresh = TRUE,
                             !.n = Len(row.attempts), !.how = "first"]
<1>3. q \in Proc
  BY <1>1, IdleProc, LenProperties DEF Proc, PC
<1>4. q.pc = pc /\ q.id = t /\ q.view = row /\ q.fresh = TRUE /\ q.n = Len(row.attempts)
  BY DEF Idle
<1>5. pc = "send" => row.nonce \in Nat /\ Len(row.attempts) \in DOMAIN row.attempts
  BY <1>1, <1>2, EmptySeq, LenProperties DEF RowOK
<1>6. RunOK(Signer, q)
  BY <1>1, <1>2, <1>4, <1>5 DEF RunOK, SignerPC, Pending, RowOK
<1>7. Related(Signer, q, tx[q.id])
  BY <1>4 DEF Related
<1>8. tx' = tx /\ OthersOK'
  BY DEF SignerTake, StoreInv, TypeOK, OthersOK, chainVars
<1>9. proc' \in [Procs -> Proc] /\ RowsOK' /\ RunsOK'
  BY <1>2, <1>3, <1>6, <1>7, <1>8, TakeStep, SignerIn
<1> QED BY <1>8, <1>9 DEF StoreInv, TypeOK, OthersOK

LEMMA WithStatusRow ==
  ASSUME NEW row \in Row, NEW s \in Status
  PROVE  LET r == WithStatus(row, s) IN
         /\ r \in Row
         /\ r.status = s /\ r.nonce = row.nonce
         /\ r.attempts = row.attempts /\ r.mined = row.mined
BY DEF WithStatus, Row

\* What the signer's run knows.
LEMMA SignerFacts ==
  ASSUME StoreInv, proc[Signer].pc # "idle"
  PROVE  /\ proc[Signer] \in Proc /\ proc[Signer].view \in Row /\ proc[Signer].id \in Ids
         /\ proc[Signer].view.attempts \in Seq(Attempt)
         /\ RunOK(Signer, proc[Signer]) /\ RowOK(proc[Signer].view)
         /\ proc[Signer].pc = "answered" =>
              /\ proc[Signer].view.nonce \in Nat
              /\ proc[Signer].n \in DOMAIN proc[Signer].view.attempts
         /\ proc[Signer].pc = "nonce" => proc[Signer].view.nonce = NoNonce
         /\ proc[Signer].pc = "sign" => /\ proc[Signer].view.nonce \in Nat
                                        /\ proc[Signer].view.attempts = << >>
BY RunFacts, SignerIn DEF RunOK, SignerPC

\* A message is deleted or stays.
LEMMA DeleteOK ==
  ASSUME StoreInv, NEW p \in Procs
  PROVE  Delete(p) \subseteq Ids
BY DEF Delete, StoreInv, TypeOK

\* The signer's last write of a transaction: its status, and perhaps a mark on
\* the attempt in hand.
LEMMA SignerSaveStep ==
  ASSUME StoreInv, proc[Signer].pc # "idle", NEW row \in Row, RowOK(row),
         SaveTx(Signer, row, Idle), queue' = Delete(Signer),
         UNCHANGED <<nextNonce, paused, reconciled, chainVars>>
  PROVE  StoreInv'
<1>1. MayWrite(Signer, proc[Signer].view, row)
  BY DEF MayWrite
<1>2. tx' \in [Ids -> Row] /\ proc' \in [Procs -> Proc] /\ RowsOK' /\ RunsOK'
  BY <1>1, SaveAndFinishStep, SignerIn
<1>3. OthersOK'
  BY DeleteOK, SignerIn DEF StoreInv, TypeOK, OthersOK, chainVars
<1> QED BY <1>2, <1>3 DEF StoreInv, TypeOK, OthersOK

LEMMA FailDependentStep ==
  ASSUME StoreInv, FailDependent
  PROVE  StoreInv'
<1> DEFINE view == proc[Signer].view
           row == WithStatus(view, "failed")
<1>1. view \in Row /\ RowOK(view) /\ proc[Signer].pc # "idle"
  BY SignerFacts DEF FailDependent
<1>2. row \in Row /\ RowOK(row)
  BY <1>1, WithStatusRow DEF RowOK, Status
<1> QED BY <1>1, <1>2, SignerSaveStep DEF FailDependent

LEMMA SignerSubmittedStep ==
  ASSUME StoreInv, SignerSubmitted
  PROVE  StoreInv'
<1> DEFINE view == proc[Signer].view
           marked == MarkAccepted(view, proc[Signer].n)
           row == WithStatus(marked, "submitted")
<1>1. /\ view \in Row /\ RowOK(view) /\ proc[Signer].pc # "idle" /\ view.nonce \in Nat
      /\ proc[Signer].n \in DOMAIN view.attempts
  BY SignerFacts DEF SignerSubmitted, Answered
<1>2. marked \in Row /\ marked.nonce \in Nat
  BY <1>1, MarkAcceptedRow
<1>3. row \in Row /\ RowOK(row)
  BY <1>2, WithStatusRow DEF RowOK, Status, NoNonce
<1> QED BY <1>1, <1>3, SignerSaveStep DEF SignerSubmitted

LEMMA SignerUnderpricedStep ==
  ASSUME StoreInv, SignerUnderpriced
  PROVE  StoreInv'
<1> DEFINE view == proc[Signer].view
           marked == MarkRefused(view, proc[Signer].n)
           row == WithStatus(marked, "submitted")
<1>1. /\ view \in Row /\ RowOK(view) /\ proc[Signer].pc # "idle" /\ view.nonce \in Nat
      /\ proc[Signer].n \in DOMAIN view.attempts
  BY SignerFacts DEF SignerUnderpriced, Answered
<1>2. marked \in Row /\ marked.nonce \in Nat
  BY <1>1, MarkRefusedRow
<1>3. row \in Row /\ RowOK(row)
  BY <1>2, WithStatusRow DEF RowOK, Status, NoNonce
<1> QED BY <1>1, <1>3, SignerSaveStep DEF SignerUnderpriced

LEMMA SignerTooLowSubmittedStep ==
  ASSUME StoreInv, SignerTooLowSubmitted
  PROVE  StoreInv'
<1> DEFINE view == proc[Signer].view
           row == WithStatus(view, "submitted")
<1>1. view \in Row /\ RowOK(view) /\ proc[Signer].pc # "idle" /\ view.nonce \in Nat
  BY SignerFacts DEF SignerTooLowSubmitted, Answered
<1>2. row \in Row /\ RowOK(row)
  BY <1>1, WithStatusRow DEF RowOK, Status, NoNonce
<1> QED BY <1>1, <1>2, SignerSaveStep DEF SignerTooLowSubmitted

\* Nodes count transactions from 0.
LEMMA PendingReadsNat ==
  ASSUME StoreInv
  PROVE  PendingReads \subseteq Nat
<1>1. Len(used) \in Nat /\ foreign \subseteq Nat /\ reached \subseteq Signature
  BY LenProperties DEF StoreInv, TypeOK
<1>2. Pooled \subseteq Nat
  BY <1>1 DEF Pooled, Signature
<1>3. NonceReads \subseteq Nat
  BY <1>1 DEF NonceReads
<1>4. {k + 1 : k \in Pooled} \subseteq Nat
  BY <1>2
<1> HIDE DEF Pooled, NonceReads
<1> QED BY <1>3, <1>4 DEF PendingReads

LEMMA RaiseNonceStep ==
  ASSUME StoreInv, RaiseNonce
  PROVE  StoreInv'
<1>1. nextNonce' \in Nat
  BY PendingReadsNat DEF RaiseNonce, StoreInv, TypeOK
<1>2. RowsOK' /\ RunsOK'
  BY DEF RaiseNonce, StoreInv, RowsOK, RunsOK
<1> QED BY <1>1, <1>2 DEF RaiseNonce, StoreInv, TypeOK, chainVars

LEMMA AssignNonceStep ==
  ASSUME StoreInv, AssignNonce
  PROVE  StoreInv'
<1> DEFINE view == proc[Signer].view
           row == [view EXCEPT !.nonce = nextNonce]
           next == [Holding(Signer, row, "sign") EXCEPT !.taken = TRUE]
<1>1. /\ proc[Signer] \in Proc /\ view \in Row /\ RowOK(view) /\ proc[Signer].pc # "idle"
      /\ proc[Signer].id \in Ids /\ view.nonce = NoNonce /\ RunOK(Signer, proc[Signer])
  BY SignerFacts DEF AssignNonce
<1>2. nextNonce \in Nat
  BY DEF StoreInv, TypeOK
<1>3. /\ row \in Row /\ row.nonce = nextNonce /\ row.status = view.status
      /\ row.attempts = << >> /\ row.mined = view.mined
  BY <1>1, <1>2 DEF Row, RowOK
<1>4. view.status = "queued"
  BY <1>1 DEF RunOK, SignerPC
<1>5. RowOK(row)
  BY <1>2, <1>3, <1>4 DEF RowOK, NoNonce
<1>6. next \in Proc
  BY <1>1, <1>3 DEF Proc, Holding, PC
<1>7. next.id = proc[Signer].id /\ next.view = row /\ next.pc = "sign"
  BY <1>1 DEF Proc, Holding
<1>8. RunOK(Signer, next)
  BY <1>1, <1>2, <1>3, <1>4, <1>5, <1>7 DEF RunOK, SignerPC, Pending
<1>9. tx' \in [Ids -> Row] /\ proc' \in [Procs -> Proc] /\ RowsOK' /\ RunsOK'
  BY <1>1, <1>3, <1>5, <1>6, <1>7, <1>8, SignerIn, SaveStep DEF AssignNonce, MayWrite
<1>10. OthersOK'
  BY <1>2 DEF AssignNonce, StoreInv, TypeOK, OthersOK, chainVars
<1> QED BY <1>9, <1>10 DEF StoreInv, TypeOK, OthersOK

LEMMA SignAttemptStep ==
  ASSUME StoreInv, SignAttempt
  PROVE  StoreInv'
<1> DEFINE view == proc[Signer].view
           row == [view EXCEPT !.attempts = <<NewAttempt>>]
           next == [Holding(Signer, row, "send") EXCEPT !.n = 1]
<1>1. /\ proc[Signer] \in Proc /\ view \in Row /\ RowOK(view) /\ proc[Signer].pc # "idle"
      /\ proc[Signer].id \in Ids /\ view.nonce \in Nat /\ RunOK(Signer, proc[Signer])
  BY SignerFacts DEF SignAttempt
<1>2. <<NewAttempt>> \in Seq(Attempt) /\ 1 \in DOMAIN <<NewAttempt>>
  BY DEF NewAttempt, Attempt
<1>3. /\ row \in Row /\ row.nonce = view.nonce /\ row.status = view.status
      /\ row.attempts = <<NewAttempt>> /\ row.mined = view.mined
  BY <1>1, <1>2 DEF Row
<1>4. view.status = "queued"
  BY <1>1 DEF RunOK, SignerPC
<1>5. RowOK(row)
  BY <1>1, <1>3, <1>4 DEF RowOK, NoNonce
<1>6. next \in Proc
  BY <1>1, <1>3 DEF Proc, Holding, PC
<1>7. next.id = proc[Signer].id /\ next.view = row /\ next.pc = "send" /\ next.n = 1
  BY <1>1 DEF Proc, Holding
<1>8. RunOK(Signer, next)
  BY <1>1, <1>2, <1>3, <1>4, <1>5, <1>7 DEF RunOK, SignerPC, Pending
<1>9. tx' \in [Ids -> Row] /\ proc' \in [Procs -> Proc] /\ RowsOK' /\ RunsOK'
  BY <1>1, <1>3, <1>5, <1>6, <1>7, <1>8, SignerIn, SaveStep DEF SignAttempt, MayWrite
<1>10. OthersOK'
  BY DEF SignAttempt, StoreInv, TypeOK, OthersOK, chainVars
<1> QED BY <1>9, <1>10 DEF StoreInv, TypeOK, OthersOK

LEMMA SignerDropNonceStep ==
  ASSUME StoreInv, SignerDropNonce
  PROVE  StoreInv'
<1> DEFINE view == proc[Signer].view
           row == [view EXCEPT !.nonce = NoNonce, !.attempts = << >>]
           next == [Holding(Signer, row, "nonce") EXCEPT
                      !.n = 0, !.answer = "none", !.taken = FALSE, !.resets = @ + 1]
<1>1. /\ proc[Signer] \in Proc /\ view \in Row /\ proc[Signer].pc # "idle"
      /\ proc[Signer].id \in Ids /\ RunOK(Signer, proc[Signer])
  BY SignerFacts DEF SignerDropNonce, Answered
<1>2. /\ row \in Row /\ row.nonce = NoNonce /\ row.status = view.status
      /\ row.attempts = << >> /\ row.mined = view.mined
  <2>1. << >> \in Seq(Attempt) /\ NoNonce \in Int
    BY DEF NoNonce
  <2> QED BY <1>1, <2>1 DEF Row
<1>3. view.status = "queued"
  BY <1>1 DEF RunOK, SignerPC
<1>4. RowOK(row)
  BY <1>2, <1>3 DEF RowOK
<1>5. next \in Proc
  <2>1. Holding(Signer, row, "nonce") \in Proc
    BY <1>1, <1>2 DEF Proc, Holding, PC
  <2>2. Holding(Signer, row, "nonce").resets + 1 \in Nat
    BY <2>1 DEF Proc
  <2>3. ASSUME NEW h \in Proc, NEW k \in Nat
        PROVE  [h EXCEPT !.n = 0, !.answer = "none", !.taken = FALSE, !.resets = k] \in Proc
    BY DEF Proc
  <2> QED BY <2>1, <2>2, <2>3
<1>6. next.id = proc[Signer].id /\ next.view = row /\ next.pc = "nonce"
  BY <1>1 DEF Proc, Holding
<1>7. RunOK(Signer, next)
  BY <1>1, <1>2, <1>3, <1>4, <1>6 DEF RunOK, SignerPC, Pending
<1>8. tx' \in [Ids -> Row] /\ proc' \in [Procs -> Proc] /\ RowsOK' /\ RunsOK'
  BY <1>1, <1>2, <1>4, <1>5, <1>6, <1>7, SignerIn, SaveStep DEF SignerDropNonce, MayWrite
<1>9. OthersOK'
  BY DEF SignerDropNonce, StoreInv, TypeOK, OthersOK, chainVars
<1> QED BY <1>8, <1>9 DEF StoreInv, TypeOK, OthersOK

(***************************************************************************)
(* Steps of either kind of run                                             *)
(***************************************************************************)
LEMMA SendSig ==
  ASSUME StoreInv, NEW p \in Procs, proc[p].pc = "send"
  PROVE  Sig(proc[p].id, proc[p].view, proc[p].n) \in Signature
<1>1. /\ proc[p] \in Proc /\ proc[p].id \in Ids
      /\ proc[p].view.nonce \in Nat
  BY RunFacts DEF RunOK
<1> QED BY <1>1 DEF Sig, Signature, Proc

LEMMA SendStep ==
  ASSUME StoreInv, NEW p \in Procs, Send(p)
  PROVE  StoreInv'
<1>1. PICK a \in Answers :
        /\ reached' \in {reached, reached \cup {Sig(proc[p].id, proc[p].view, proc[p].n)}}
        /\ proc' = [proc EXCEPT ![p].pc = "answered", ![p].answer = a]
  BY DEF Send
<1> DEFINE q == [proc[p] EXCEPT !.pc = "answered", !.answer = a]
<1>2. /\ proc[p] \in Proc /\ RunOK(p, proc[p]) /\ proc[p].pc = "send"
      /\ Related(p, proc[p], tx[proc[p].id])
  BY RunFacts DEF Send
<1>3. q \in Proc
  BY <1>2 DEF Proc, PC
<1>4. /\ q.id = proc[p].id /\ q.view = proc[p].view /\ q.fresh = proc[p].fresh
      /\ q.n = proc[p].n /\ q.pc = "answered"
  BY <1>2 DEF Proc
<1>5. RunOK(p, q) /\ Related(p, q, tx[q.id])
  BY <1>2, <1>4 DEF RunOK, Related, SignerPC, SweeperPC
<1>6. proc' = [proc EXCEPT ![p] = q]
  BY <1>1 DEF StoreInv, TypeOK
<1>7. tx' = tx
  BY DEF Send, storeVars
<1>8. proc' \in [Procs -> Proc] /\ RowsOK' /\ RunsOK'
  BY <1>3, <1>5, <1>6, <1>7, TakeStep
<1>9. reached' \subseteq Signature
  BY <1>1, <1>2, SendSig DEF StoreInv, TypeOK
<1>10. OthersOK'
  BY <1>9 DEF Send, StoreInv, TypeOK, OthersOK, storeVars
<1> QED BY <1>7, <1>8, <1>10 DEF StoreInv, TypeOK, OthersOK

LEMMA SendTimedOutStep ==
  ASSUME StoreInv, NEW p \in Procs, SendTimedOut(p)
  PROVE  StoreInv'
<1>1. reached' \subseteq Signature
  BY SendSig DEF SendTimedOut, StoreInv, TypeOK
<1>2. RowsOK' /\ RunsOK'
  BY DEF SendTimedOut, StoreInv, RowsOK, RunsOK, storeVars
<1> QED BY <1>1, <1>2 DEF SendTimedOut, StoreInv, TypeOK, storeVars

\* A refusal writes its mark and a status that is allowed from either kind of run.
LEMMA RefusedRow ==
  ASSUME StoreInv, NEW p \in Procs, NEW st \in {"submitted", "failed"},
         proc[p].pc = "answered"
  PROVE  LET row == WithStatus(MarkRefused(proc[p].view, proc[p].n), st) IN
         /\ MayWrite(p, proc[p].view, row)
         /\ row.nonce = proc[p].view.nonce
<1> DEFINE view == proc[p].view
           marked == MarkRefused(view, proc[p].n)
           row == WithStatus(marked, st)
<1>1. /\ view \in Row /\ RunOK(p, proc[p]) /\ view.nonce \in Nat
      /\ proc[p].n \in DOMAIN view.attempts /\ view.attempts \in Seq(Attempt)
  BY RunFacts DEF RunOK
<1>2. marked \in Row /\ marked.nonce = view.nonce /\ Len(marked.attempts) = Len(view.attempts)
  BY <1>1, MarkRefusedRow
<1>3. row \in Row /\ row.status = st /\ row.nonce = view.nonce /\ row.attempts = marked.attempts
  BY <1>2, WithStatusRow DEF Status
<1>4. RowOK(row)
  BY <1>1, <1>3 DEF RowOK, NoNonce
<1>5. p # Signer => view.status = "submitted"
  BY <1>1 DEF RunOK, SweeperPC
<1>6. SentSince(view, row)
  BY <1>1, <1>2, <1>3, LenProperties DEF SentSince
<1> QED BY <1>3, <1>4, <1>5, <1>6 DEF MayWrite

LEMMA RefuseStep ==
  ASSUME StoreInv, NEW p \in Procs, RefuseMarked(p) \/ RefuseFiller(p)
  PROVE  StoreInv'
<1>1. PICK st \in {"submitted", "failed"} :
        SaveTx(p, WithStatus(MarkRefused(proc[p].view, proc[p].n), st), Idle)
  BY DEF RefuseMarked, RefuseFiller
<1>2. proc[p].pc = "answered"
  BY DEF RefuseMarked, RefuseFiller, Answered
<1>3. tx' \in [Ids -> Row] /\ proc' \in [Procs -> Proc] /\ RowsOK' /\ RunsOK'
  BY <1>1, <1>2, RefusedRow, SaveAndFinishStep
<1>4. OthersOK'
  BY DeleteOK DEF RefuseMarked, RefuseFiller, StoreInv, TypeOK, OthersOK, chainVars
<1> QED BY <1>3, <1>4 DEF StoreInv, TypeOK, OthersOK

LEMMA AbortStep ==
  ASSUME StoreInv, NEW p \in Procs, Abort(p)
  PROVE  StoreInv'
<1>1. proc' \in [Procs -> Proc] /\ RowsOK' /\ RunsOK'
  BY FinishStep DEF Abort
<1>2. OthersOK'
  BY DeleteOK DEF Abort, StoreInv, TypeOK, OthersOK, chainVars
<1> QED BY <1>1, <1>2 DEF Abort, StoreInv, TypeOK, OthersOK

\* The filler's row is new, so no run holds it.
LEMMA FailWithFillerStep ==
  ASSUME StoreInv, NEW p \in Procs, FailWithFiller(p)
  PROVE  StoreInv'
<1> DEFINE t == proc[p].id
           view == proc[p].view
           row == WithStatus(MarkRefused(view, proc[p].n), "failed")
           filler == [NoRow EXCEPT !.status = "queued", !.nonce = row.nonce, !.fills = t]
           saved == [tx EXCEPT ![t] = row]
<1>1. /\ proc[p].pc = "answered" /\ t \in Payloads /\ t \in Ids /\ proc[p].fresh
      /\ tx[t] = view /\ view.nonce \in Nat /\ view.status \in Pending
  BY RunFacts DEF FailWithFiller, SaveWithFiller, Answered, RunOK, Related, Ids
<1>2. MayWrite(p, view, row) /\ row.nonce \in Nat
  BY <1>1, RefusedRow
<1>3. PICK f \in Fillers :
        /\ tx[f].status = "none"
        /\ tx' = [tx EXCEPT ![t] = row, ![f] = filler]
        /\ queue' \in {Delete(p), Delete(p) \cup {f}}
  BY DEF FailWithFiller, SaveWithFiller
<1>4. f \in Ids /\ f # t
  BY <1>1, IdsAssumption DEF Ids
<1>5. filler \in Row /\ RowOK(filler)
  <2>1. filler \in Row
    <3>1. NoRow \in Row
      BY IdleProc
    <3>2. ASSUME NEW r \in Row, NEW m \in Int, NEW u \in Ids
          PROVE  [r EXCEPT !.status = "queued", !.nonce = m, !.fills = u] \in Row
      BY DEF Row, Status
    <3>3. row.nonce \in Int
      BY <1>2
    <3> QED BY <1>1, <3>1, <3>2, <3>3
  <2>2. filler.status = "queued" /\ filler.nonce = row.nonce /\ filler.attempts = << >>
    BY DEF NoRow
  <2> QED BY <1>2, <2>1, <2>2 DEF RowOK, NoNonce
<1>6. tx' \in [Ids -> Row] /\ RowsOK'
  BY <1>1, <1>2, <1>3, <1>4, <1>5 DEF StoreInv, TypeOK, RowsOK, MayWrite
<1>7. proc' = [r \in Procs |->
                 IF r = p THEN Idle
                 ELSE IF proc[r].id = t THEN [proc[r] EXCEPT !.fresh = FALSE]
                 ELSE proc[r]]
  BY DEF FailWithFiller, SaveWithFiller
<1>8. proc' \in [Procs -> Proc]
  <2>1. ASSUME NEW r \in Procs PROVE [proc[r] EXCEPT !.fresh = FALSE] \in Proc
    BY ZenonT(60) DEF StoreInv, TypeOK, Proc
  <2> QED BY <1>7, <2>1, IdleProc DEF StoreInv, TypeOK
<1>9. ASSUME NEW r \in Procs, proc'[r].pc # "idle"
      PROVE  RunOK(r, proc'[r]) /\ Related(r, proc'[r], tx'[proc'[r].id])
  <2> DEFINE q == proc[r]
  <2>1. r # p
    BY <1>7, <1>9, IdleProc
  <2>2. q \in Proc
    BY DEF StoreInv, TypeOK
  <2>3. CASE q.id # t
    <3>1. proc'[r] = q
      BY <1>7, <2>1, <2>3
    <3>2. RunOK(r, q) /\ Related(r, q, tx[q.id]) /\ q.id \in Ids
      BY <1>9, <3>1 DEF StoreInv, RunsOK, RunOK
    <3>3. CASE q.id # f
      BY <1>3, <2>3, <3>1, <3>2, <3>3 DEF StoreInv, TypeOK
    <3>4. CASE q.id = f
      BY <1>3, <1>4, <3>1, <3>2, <3>4 DEF StoreInv, TypeOK, RunOK, Related, SentSince, Pending
    <3> QED BY <3>3, <3>4
  <2>4. CASE q.id = t
    <3>1. proc'[r] = [q EXCEPT !.fresh = FALSE]
      BY <1>7, <2>1, <2>4
    <3>2. /\ proc'[r].pc = q.pc /\ proc'[r].id = t /\ proc'[r].view = q.view
          /\ proc'[r].n = q.n /\ ~proc'[r].fresh
      BY <2>2, <2>4, <3>1 DEF Proc
    <3>3. RunOK(r, q) /\ Related(r, q, view)
      BY <1>1, <1>9, <2>4, <3>2 DEF StoreInv, RunsOK
    <3>4. RunOK(r, proc'[r])
      BY <2>4, <3>2, <3>3 DEF RunOK, SignerPC, SweeperPC
    <3>5. tx'[t] = row
      BY <1>1, <1>3, <1>4 DEF StoreInv, TypeOK
    <3>6. r # Signer
      <4>1. p # Signer => view.status = "submitted"
        BY <1>1, RunFacts DEF RunOK, SweeperPC
      <4> QED BY <2>1, <3>3, <4>1 DEF Related, RunOK, SignerPC
    <3>7. SentSince(q.view, view)
      BY <3>3, <3>6 DEF Related
    <3>8. SentSince(q.view, row)
      <4>1. CASE p = Signer
        <5>1. view.status = "queued"
          BY <1>1, <4>1, RunFacts DEF RunOK, SignerPC
        <5> QED BY <3>7, <5>1 DEF SentSince
      <4>2. CASE p # Signer
        <5>1. view.status = "submitted"
          BY <1>1, <4>2, RunFacts DEF RunOK, SweeperPC
        <5>2. /\ Len(q.view.attempts) \in Nat /\ Len(view.attempts) \in Nat
              /\ Len(row.attempts) \in Nat
          BY <1>1, <1>2, <2>2, RunFacts, LenProperties DEF Proc, Row, MayWrite
        <5> QED BY <1>2, <3>7, <4>2, <5>1, <5>2, SMTT(60) DEF SentSince, MayWrite
      <4> QED BY <4>1, <4>2
    <3> QED BY <3>2, <3>4, <3>5, <3>6, <3>8 DEF Related
  <2> QED BY <2>3, <2>4
<1>10. OthersOK'
  BY <1>3, <1>4, DeleteOK DEF FailWithFiller, SaveWithFiller, StoreInv, TypeOK, OthersOK, chainVars
<1> QED BY <1>6, <1>8, <1>9, <1>10 DEF StoreInv, TypeOK, OthersOK, RunsOK

(***************************************************************************)
(* Sweepers                                                                *)
(***************************************************************************)
\* What a sweeper's run knows.
LEMMA SweeperFacts ==
  ASSUME StoreInv, NEW s \in Sweepers, proc[s].pc # "idle"
  PROVE  LET view == proc[s].view IN
         /\ s \in Procs /\ s # Signer
         /\ proc[s] \in Proc /\ view \in Row /\ proc[s].id \in Ids
         /\ view.attempts \in Seq(Attempt) /\ Len(view.attempts) \in Nat
         /\ RunOK(s, proc[s]) /\ RowOK(view) /\ SweeperPC(proc[s])
         /\ view.status \in {"submitted", "mined"} => view.nonce \in Nat
BY SignerIn, RunFacts, LenProperties DEF RunOK, RowOK

\* The run goes on at another place with its snapshot, its attempt perhaps new.
LEMMA OnwardStep ==
  ASSUME StoreInv, NEW s \in Sweepers, proc[s].pc # "idle", tx' = tx,
         NEW q \in Proc, proc' = [proc EXCEPT ![s] = q],
         q.id = proc[s].id, q.view = proc[s].view, q.fresh = proc[s].fresh,
         SweeperPC(q),
         q.pc \in {"send", "answered", "mark"} => q.n \in DOMAIN q.view.attempts
  PROVE  proc' \in [Procs -> Proc] /\ RowsOK' /\ RunsOK'
<1>1. /\ s \in Procs /\ s # Signer /\ RunOK(s, proc[s]) /\ proc[s].id \in Ids
      /\ RowOK(proc[s].view) /\ Related(s, proc[s], tx[proc[s].id])
  BY SweeperFacts, RunFacts
<1>2. RunOK(s, q)
  BY <1>1 DEF RunOK, SweeperPC, RowOK
<1>3. Related(s, q, tx[q.id])
  BY <1>1 DEF Related
<1> QED BY <1>1, <1>2, <1>3, TakeStep

LEMMA SweepReadStep ==
  ASSUME StoreInv, NEW s \in Sweepers, NEW t \in Ids, SweepRead(s, t)
  PROVE  StoreInv'
<1>1. PICK h \in 1 .. head :
        proc' = [proc EXCEPT ![s] = [Idle EXCEPT !.pc = "view", !.id = t, !.view = tx[t],
                                                 !.fresh = TRUE, !.head = h]]
  BY DEF SweepRead
<1> DEFINE q == [Idle EXCEPT !.pc = "view", !.id = t, !.view = tx[t],
                             !.fresh = TRUE, !.head = h]
<1>2. tx[t] \in Row /\ RowOK(tx[t]) /\ tx[t].status \in Pending /\ h \in Nat
  BY DEF SweepRead, StoreInv, TypeOK, RowsOK
<1>3. q \in Proc
  BY <1>2, IdleProc DEF Proc, PC
<1>4. q.pc = "view" /\ q.id = t /\ q.view = tx[t]
  BY DEF Idle
<1>5. RunOK(s, q) /\ Related(s, q, tx[q.id])
  BY <1>2, <1>4, SignerIn DEF RunOK, SweeperPC, Related, SentSince, Pending
<1>6. tx' = tx
  BY DEF SweepRead, storeVars
<1>7. proc' \in [Procs -> Proc] /\ RowsOK' /\ RunsOK'
  BY <1>1, <1>3, <1>5, <1>6, TakeStep, SignerIn
<1>8. OthersOK'
  BY DEF SweepRead, StoreInv, TypeOK, OthersOK, storeVars, chainVars
<1> QED BY <1>6, <1>7, <1>8 DEF StoreInv, TypeOK, OthersOK

LEMMA SweepEndStep ==
  ASSUME StoreInv, NEW s \in Sweepers, SweepDone(s) \/ SweepTooLow(s)
  PROVE  StoreInv'
<1>1. tx' = tx /\ Finish(s)
  BY DEF SweepDone, SweepTooLow, storeVars
<1>2. proc' \in [Procs -> Proc] /\ RowsOK' /\ RunsOK'
  BY <1>1, FinishStep, SignerIn
<1>3. OthersOK'
  BY DEF SweepDone, SweepTooLow, StoreInv, TypeOK, OthersOK, storeVars, chainVars
<1> QED BY <1>1, <1>2, <1>3 DEF StoreInv, TypeOK, OthersOK

\* The run only moves to another place.
LEMMA SweeperGoto ==
  ASSUME StoreInv, NEW s \in Sweepers, NEW pc \in PC \ {"idle", "send", "answered", "mark"},
         proc[s].pc # "idle", Goto(s, pc), tx' = tx,
         \/ pc \in {"active", "resumed"} /\ proc[s].view.status = "queued"
         \/ pc \in {"bump", "resend", "fail"} /\ proc[s].view.status = "submitted"
  PROVE  proc' \in [Procs -> Proc] /\ RowsOK' /\ RunsOK'
<1> DEFINE q == [proc[s] EXCEPT !.pc = pc]
<1>1. proc[s] \in Proc
  BY SweeperFacts
<1>2. q \in Proc /\ q.id = proc[s].id /\ q.view = proc[s].view /\ q.fresh = proc[s].fresh /\ q.pc = pc
  BY <1>1 DEF Proc
<1>3. SweeperPC(q)
  BY <1>2 DEF SweeperPC
<1>4. proc' = [proc EXCEPT ![s] = q]
  BY DEF Goto
<1> QED BY <1>2, <1>3, <1>4, OnwardStep

LEMMA PauseStep ==
  ASSUME StoreInv, NEW s \in Sweepers, ReadActive(s) \/ Unpause(s)
  PROVE  StoreInv'
<1>1. proc[s].view.status = "queued" /\ proc[s].pc # "idle" /\ tx' = tx
  BY DEF ReadActive, Unpause, Viewing, storeVars
<1>2. Goto(s, "active") \/ Goto(s, "resumed")
  BY DEF ReadActive, Unpause
<1>3. proc' \in [Procs -> Proc] /\ RowsOK' /\ RunsOK'
  <2>1. CASE Goto(s, "active")
    BY <1>1, <2>1, SweeperGoto DEF PC
  <2>2. CASE Goto(s, "resumed")
    BY <1>1, <2>2, SweeperGoto DEF PC
  <2> QED BY <1>2, <2>1, <2>2
<1>4. OthersOK'
  BY DEF ReadActive, Unpause, StoreInv, TypeOK, OthersOK, storeVars, chainVars
<1> QED BY <1>1, <1>3, <1>4 DEF StoreInv, TypeOK, OthersOK

LEMMA WalkEmptyStep ==
  ASSUME StoreInv, NEW s \in Sweepers, WalkEmpty(s)
  PROVE  StoreInv'
<1>1. /\ proc[s].view.status = "submitted" /\ proc[s].pc # "idle" /\ tx' = tx
      /\ Goto(s, "fail")
  BY DEF WalkEmpty, Viewing, storeVars
<1>2. proc' \in [Procs -> Proc] /\ RowsOK' /\ RunsOK'
  BY <1>1, SweeperGoto DEF PC
<1>3. OthersOK'
  BY DEF WalkEmpty, StoreInv, TypeOK, OthersOK, storeVars, chainVars
<1> QED BY <1>1, <1>2, <1>3 DEF StoreInv, TypeOK, OthersOK

\* A row that a sweeper writes over one it read as sent.
LEMMA SweeperMayWrite ==
  ASSUME StoreInv, NEW s \in Sweepers, proc[s].pc # "idle",
         proc[s].view.status \in {"submitted", "mined"},
         NEW row \in Row,
         row.nonce = proc[s].view.nonce, row.status \notin {"none", "queued"},
         row.status = "mined" => row.mined.n \in DOMAIN row.attempts,
         Len(row.attempts) >= Len(proc[s].view.attempts)
  PROVE  MayWrite(s, proc[s].view, row) /\ RowOK(row)
<1>1. /\ proc[s].view.nonce \in Nat /\ Len(proc[s].view.attempts) \in Nat
      /\ Len(row.attempts) \in Nat
  BY SweeperFacts, LenProperties DEF Row
<1>2. RowOK(row)
  BY <1>1 DEF RowOK, NoNonce
<1> QED BY <1>1, <1>2 DEF MayWrite, SentSince

\* A sweeper's last write.
LEMMA SweeperSaveStep ==
  ASSUME StoreInv, NEW s \in Sweepers, proc[s].pc # "idle",
         NEW row, MayWrite(s, proc[s].view, row),
         SaveTx(s, row, Idle), UNCHANGED <<nextNonce, paused, queue, reconciled, chainVars>>
  PROVE  StoreInv'
<1>1. tx' \in [Ids -> Row] /\ proc' \in [Procs -> Proc] /\ RowsOK' /\ RunsOK'
  BY SaveAndFinishStep, SignerIn
<1>2. OthersOK'
  BY DEF StoreInv, TypeOK, OthersOK, chainVars
<1> QED BY <1>1, <1>2 DEF StoreInv, TypeOK, OthersOK

\* A write that changes nothing that is modelled.
LEMMA SameRow ==
  ASSUME StoreInv, NEW p \in Procs, proc[p].pc # "idle"
  PROVE  MayWrite(p, proc[p].view, proc[p].view)
<1>1. proc[p].view \in Row /\ RowOK(proc[p].view) /\ Len(proc[p].view.attempts) \in Nat
      /\ proc[p].view.status \in Pending
  BY RunFacts, LenProperties DEF RunOK
<1> QED BY <1>1 DEF MayWrite, SentSince, Pending

LEMMA RequeueStep ==
  ASSUME StoreInv, NEW s \in Sweepers, Requeue(s)
  PROVE  StoreInv'
<1>1. proc[s].pc # "idle" /\ SaveTx(s, proc[s].view, Idle)
  BY DEF Requeue
<1>2. tx' \in [Ids -> Row] /\ proc' \in [Procs -> Proc] /\ RowsOK' /\ RunsOK'
  BY <1>1, SameRow, SaveAndFinishStep, SignerIn
<1>3. proc[s].id \in Ids
  BY <1>1, SweeperFacts
<1>4. OthersOK'
  BY <1>3 DEF Requeue, StoreInv, TypeOK, OthersOK, chainVars
<1> QED BY <1>2, <1>4 DEF StoreInv, TypeOK, OthersOK

LEMMA SweepReorgedStep ==
  ASSUME StoreInv, NEW s \in Sweepers, SweepReorged(s)
  PROVE  StoreInv'
<1> DEFINE view == proc[s].view
           row == [view EXCEPT !.status = "submitted", !.mined = NoMined]
           next == [Holding(s, row, "send") EXCEPT !.n = view.mined.n, !.how = "rebroadcast"]
<1>1. proc[s].pc # "idle" /\ view.status = "mined" /\ SaveTx(s, row, next)
  BY DEF SweepReorged, Viewing
<1>2. /\ s \in Procs /\ s # Signer /\ proc[s] \in Proc /\ view \in Row /\ proc[s].id \in Ids
      /\ view.nonce \in Nat /\ view.mined.n \in DOMAIN view.attempts
      /\ view.mined.n \in Nat
  BY <1>1, SweeperFacts DEF RowOK, Row
<1>3. row \in Row
  <2>1. NoMined \in [n : Nat, block : Nat]
    BY DEF NoMined
  <2> QED BY <1>2, <2>1 DEF Row, Status
<1>4. row.nonce = view.nonce /\ row.status = "submitted" /\ row.attempts = view.attempts
  BY <1>2 DEF Row
<1>5. MayWrite(s, view, row) /\ RowOK(row)
  <2>1. Len(row.attempts) >= Len(view.attempts)
    BY <1>1, <1>4, SweeperFacts
  <2> QED BY <1>1, <1>3, <1>4, <2>1, SweeperMayWrite
<1>6. next \in Proc
  BY <1>2, <1>3 DEF Proc, Holding, PC
<1>7. /\ next.id = proc[s].id /\ next.view = row /\ next.pc = "send"
      /\ next.n = view.mined.n
  BY <1>2 DEF Proc, Holding
<1>8. RunOK(s, next)
  BY <1>2, <1>4, <1>5, <1>7 DEF RunOK, SweeperPC, Pending
<1>9. tx' \in [Ids -> Row] /\ proc' \in [Procs -> Proc] /\ RowsOK' /\ RunsOK'
  BY <1>1, <1>2, <1>5, <1>6, <1>7, <1>8, SaveStep
<1>10. OthersOK'
  BY DEF SweepReorged, StoreInv, TypeOK, OthersOK, chainVars
<1> QED BY <1>9, <1>10 DEF StoreInv, TypeOK, OthersOK

\* Confirmations and failures write nothing but the status.
LEMMA SettleStep ==
  ASSUME StoreInv, NEW s \in Sweepers,
         SweepConfirmed(s) \/ ConfirmMined(s) \/ FailUsed(s)
  PROVE  StoreInv'
<1> DEFINE view == proc[s].view
<1>1. PICK st \in {"confirmed", "failed"} : SaveTx(s, WithStatus(view, st), Idle)
  BY DEF SweepConfirmed, ConfirmMined, FailUsed
<1> DEFINE row == WithStatus(view, st)
<1>2. /\ proc[s].pc # "idle" /\ view.status \in {"submitted", "mined"}
      /\ UNCHANGED <<nextNonce, paused, queue, reconciled, chainVars>>
  <2>1. proc[s].pc # "idle"
    BY DEF SweepConfirmed, ConfirmMined, FailUsed, Viewing
  <2> QED BY <2>1, SweeperFacts DEF SweepConfirmed, ConfirmMined, FailUsed, Viewing, SweeperPC
<1>3. view \in Row /\ Len(view.attempts) \in Nat
  BY <1>2, SweeperFacts
<1>4. row \in Row /\ row.status = st /\ row.nonce = view.nonce /\ row.attempts = view.attempts
  BY <1>3, WithStatusRow DEF Status
<1>5. MayWrite(s, view, row)
  BY <1>2, <1>3, <1>4, SweeperMayWrite
<1> QED BY <1>1, <1>2, <1>5, SweeperSaveStep

LEMMA StampUsedStep ==
  ASSUME StoreInv, NEW s \in Sweepers, StampUsed(s)
  PROVE  StoreInv'
<1> DEFINE view == proc[s].view
           row == [view EXCEPT !.usedAt = [block |-> proc[s].head, time |-> head]]
<1>1. proc[s].pc # "idle" /\ view.status = "submitted" /\ SaveTx(s, row, Idle)
  BY DEF StampUsed, Viewing
<1>2. view \in Row /\ Len(view.attempts) \in Nat /\ proc[s].head \in Nat /\ head \in Nat
  BY <1>1, SweeperFacts DEF Proc, StoreInv, TypeOK
<1>3. /\ row \in Row /\ row.nonce = view.nonce /\ row.status = view.status
      /\ row.attempts = view.attempts
  BY <1>2 DEF Row
<1>4. row.status = "submitted" /\ Len(row.attempts) >= Len(view.attempts)
  BY <1>1, <1>2, <1>3
<1>5. MayWrite(s, view, row)
  BY <1>1, <1>3, <1>4, SweeperMayWrite
<1> QED BY <1>1, <1>5, SweeperSaveStep DEF StampUsed

LEMMA SweepFoundStep ==
  ASSUME StoreInv, NEW s \in Sweepers, SweepFound(s)
  PROVE  StoreInv'
<1> DEFINE view == proc[s].view
<1>1. PICK i \in DOMAIN view.attempts :
        /\ IsMined(Sig(proc[s].id, view, i))
        /\ proc' = [proc EXCEPT ![s].pc = "mark", ![s].n = i,
                                ![s].block = used[view.nonce + 1].block]
  BY DEF SweepFound
<1>2. proc[s].pc # "idle" /\ view.status = "submitted" /\ tx' = tx
  BY DEF SweepFound, Viewing, storeVars
<1>3. /\ proc[s] \in Proc /\ view \in Row /\ view.attempts \in Seq(Attempt)
      /\ view.nonce \in Nat /\ s \in Procs
  BY <1>2, SweeperFacts
<1>4. i \in Nat /\ used[view.nonce + 1].block \in Nat
  <2>1. used \in Seq([sig : [id : Ids \cup {NoTx}, nonce : Nat, n : Nat], block : Nat])
    BY DEF StoreInv, TypeOK
  <2>2. view.nonce + 1 \in 1 .. Len(used)
    <3>1. Sig(proc[s].id, view, i).nonce = view.nonce
      BY DEF Sig
    <3>2. view.nonce \in 0 .. Len(used) - 1
      BY <1>1, <3>1 DEF IsMined
    <3>3. Len(used) \in Nat
      BY <2>1, LenProperties
    <3> QED BY <1>3, <3>2, <3>3
  <2>3. used[view.nonce + 1] \in [sig : [id : Ids \cup {NoTx}, nonce : Nat, n : Nat], block : Nat]
    BY <2>1, <2>2, ElementOfSeq
  <2> QED BY <1>1, <1>3, <2>3
<1> DEFINE q == [proc[s] EXCEPT !.pc = "mark", !.n = i,
                                !.block = used[view.nonce + 1].block]
<1>5. q \in Proc
  BY <1>3, <1>4 DEF Proc, PC
<1>6. /\ q.id = proc[s].id /\ q.view = view /\ q.fresh = proc[s].fresh
      /\ q.n = i /\ q.pc = "mark"
  BY <1>3 DEF Proc
<1>7. SweeperPC(q)
  BY <1>2, <1>6 DEF SweeperPC
<1>8. proc' = [proc EXCEPT ![s] = q]
  BY <1>1 DEF StoreInv, TypeOK
<1>9. proc' \in [Procs -> Proc] /\ RowsOK' /\ RunsOK'
  BY <1>1, <1>2, <1>5, <1>6, <1>7, <1>8, OnwardStep
<1>10. OthersOK'
  BY DEF SweepFound, StoreInv, TypeOK, OthersOK, storeVars, chainVars
<1> QED BY <1>2, <1>9, <1>10 DEF StoreInv, TypeOK, OthersOK

LEMMA MarkMinedStep ==
  ASSUME StoreInv, NEW s \in Sweepers, MarkMined(s)
  PROVE  StoreInv'
<1> DEFINE p == proc[s]
           marked == MarkAccepted(p.view, p.n)
           row == [marked EXCEPT !.status = "mined", !.usedAt = NoStamp,
                                 !.mined = [n |-> p.n, block |-> p.block]]
           next == IF Deep(p.block, p.head) THEN Holding(s, row, "confirm") ELSE Idle
<1>1. p.pc = "mark" /\ SaveTx(s, row, next)
  BY DEF MarkMined
<1>2. /\ s \in Procs /\ s # Signer /\ p \in Proc /\ p.view \in Row /\ p.id \in Ids
      /\ RunOK(s, p) /\ Len(p.view.attempts) \in Nat
      /\ p.view.status = "submitted" /\ p.n \in DOMAIN p.view.attempts
      /\ p.view.nonce \in Nat
  BY <1>1, SweeperFacts DEF RunOK, SweeperPC
<1>3. /\ marked \in Row /\ marked.nonce = p.view.nonce
      /\ DOMAIN marked.attempts = DOMAIN p.view.attempts
      /\ Len(marked.attempts) = Len(p.view.attempts)
  BY <1>2, MarkAcceptedRow
<1>4. row \in Row
  <2>1. p.n \in Nat /\ p.block \in Nat
    BY <1>2 DEF Proc
  <2>2. [n |-> p.n, block |-> p.block] \in [n : Nat, block : Nat] /\ NoStamp \in [block : Nat, time : Nat]
    BY <2>1 DEF NoStamp
  <2>3. ASSUME NEW r \in Row, NEW m \in [n : Nat, block : Nat], NEW u \in [block : Nat, time : Nat]
        PROVE  [r EXCEPT !.status = "mined", !.usedAt = u, !.mined = m] \in Row
    BY DEF Row, Status
  <2> QED BY <1>3, <2>2, <2>3
<1>5. /\ row.nonce = p.view.nonce /\ row.status = "mined" /\ row.mined.n = p.n
      /\ row.attempts = marked.attempts
  BY <1>3 DEF Row
<1>6. row.mined.n \in DOMAIN row.attempts /\ Len(row.attempts) >= Len(p.view.attempts)
  BY <1>2, <1>3, <1>5
<1>7. MayWrite(s, p.view, row) /\ RowOK(row)
  BY <1>1, <1>2, <1>4, <1>5, <1>6, SweeperMayWrite
<1>8. next \in Proc
  <2>1. Holding(s, row, "confirm") \in Proc
    BY <1>2, <1>4 DEF Proc, Holding, PC
  <2> QED BY <2>1, IdleProc
<1>9. next.pc # "idle" => next.id = p.id /\ next.view = row /\ next.pc = "confirm"
  BY <1>2, IdleProc DEF Proc, Holding
<1>10. next.pc # "idle" => RunOK(s, next)
  BY <1>2, <1>5, <1>7, <1>9 DEF RunOK, SweeperPC, Pending
<1>11. tx' \in [Ids -> Row] /\ proc' \in [Procs -> Proc] /\ RowsOK' /\ RunsOK'
  BY <1>1, <1>2, <1>7, <1>8, <1>9, <1>10, SaveStep
<1>12. OthersOK'
  BY DEF MarkMined, StoreInv, TypeOK, OthersOK, chainVars
<1> QED BY <1>11, <1>12 DEF StoreInv, TypeOK, OthersOK

LEMMA NonceUnusedStep ==
  ASSUME StoreInv, NEW s \in Sweepers, NonceUnused(s)
  PROVE  StoreInv'
<1> DEFINE view == proc[s].view
           row == [view EXCEPT !.usedAt = NoStamp]
<1>1. proc[s].pc # "idle" /\ view.status = "submitted"
  BY DEF NonceUnused, Viewing
<1>2. PICK pc \in {"bump", "resend"} :
        \/ SaveTx(s, row, Holding(s, row, pc))
        \/ Goto(s, pc) /\ UNCHANGED tx
  <2>1. PICK m \in NonceReads :
          LET onward == IF m = view.nonce THEN "bump" ELSE "resend" IN
          \/ SaveTx(s, row, Holding(s, row, onward))
          \/ Goto(s, onward) /\ UNCHANGED tx
    BY DEF NonceUnused
  <2>2. CASE m = view.nonce
    BY <2>1, <2>2
  <2>3. CASE m # view.nonce
    BY <2>1, <2>3
  <2> QED BY <2>2, <2>3
<1>3. /\ s \in Procs /\ s # Signer /\ proc[s] \in Proc /\ view \in Row /\ proc[s].id \in Ids
      /\ view.nonce \in Nat /\ Len(view.attempts) \in Nat
  BY <1>1, SweeperFacts
<1>4. OthersOK'
  BY DEF NonceUnused, StoreInv, TypeOK, OthersOK, chainVars
<1>5. CASE SaveTx(s, row, Holding(s, row, pc))
  <2>1. /\ row \in Row /\ row.nonce = view.nonce /\ row.status = "submitted"
        /\ row.attempts = view.attempts
    BY <1>1, <1>3 DEF Row, NoStamp
  <2>2. Len(row.attempts) >= Len(view.attempts)
    BY <1>3, <2>1
  <2>3. MayWrite(s, view, row) /\ RowOK(row)
    BY <1>1, <2>1, <2>2, SweeperMayWrite
  <2>4. Holding(s, row, pc) \in Proc
    BY <1>3, <2>1 DEF Proc, Holding, PC
  <2>5. /\ Holding(s, row, pc).id = proc[s].id /\ Holding(s, row, pc).view = row
        /\ Holding(s, row, pc).pc = pc
    BY <1>3 DEF Proc, Holding
  <2>6. RunOK(s, Holding(s, row, pc))
    BY <1>3, <2>1, <2>3, <2>5 DEF RunOK, SweeperPC, Pending
  <2>7. tx' \in [Ids -> Row] /\ proc' \in [Procs -> Proc] /\ RowsOK' /\ RunsOK'
    BY <1>1, <1>3, <1>5, <2>3, <2>4, <2>5, <2>6, SaveStep
  <2> QED BY <1>4, <2>7 DEF StoreInv, TypeOK, OthersOK
<1>6. CASE Goto(s, pc) /\ UNCHANGED tx
  <2>1. proc' \in [Procs -> Proc] /\ RowsOK' /\ RunsOK'
    <3>1. CASE pc = "bump"
      BY <1>1, <1>6, <3>1, SweeperGoto DEF PC
    <3>2. CASE pc = "resend"
      BY <1>1, <1>6, <3>2, SweeperGoto DEF PC
    <3> QED BY <3>1, <3>2
  <2> QED BY <1>4, <1>6, <2>1 DEF StoreInv, TypeOK, OthersOK
<1> QED BY <1>2, <1>5, <1>6

LEMMA SaveProgressStep ==
  ASSUME StoreInv, NEW s \in Sweepers, SaveProgress(s)
  PROVE  StoreInv'
<1> DEFINE view == proc[s].view
<1>1. proc[s].pc # "idle" /\ s \in Procs
  BY SignerIn DEF SaveProgress, Viewing
<1>2. MayWrite(s, view, view)
  BY <1>1, SameRow
<1>3. /\ UNCHANGED <<nextNonce, paused, queue, reconciled, chainVars>>
      /\ SaveTx(s, view, Idle) \/ SaveTx(s, view, proc[s])
  BY DEF SaveProgress
<1>4. CASE SaveTx(s, view, Idle)
  BY <1>1, <1>2, <1>3, <1>4, SweeperSaveStep
<1>5. CASE SaveTx(s, view, proc[s])
  <2>1. proc[s] \in Proc /\ RunOK(s, proc[s])
    BY <1>1, RunFacts
  <2>2. tx' \in [Ids -> Row] /\ proc' \in [Procs -> Proc] /\ RowsOK' /\ RunsOK'
    BY <1>1, <1>2, <1>5, <2>1, SaveStep
  <2>3. OthersOK'
    BY <1>3 DEF StoreInv, TypeOK, OthersOK, chainVars
  <2> QED BY <2>2, <2>3 DEF StoreInv, TypeOK, OthersOK
<1> QED BY <1>3, <1>4, <1>5

\* A new signature is the last of one more.
LEMMA ReplaceStep ==
  ASSUME StoreInv, NEW s \in Sweepers, Replace(s)
  PROVE  StoreInv'
<1> DEFINE view == proc[s].view
           i == Len(view.attempts) + 1
           seq == Append(view.attempts, NewAttempt)
           row == [view EXCEPT !.attempts = seq]
           next == [Holding(s, row, "send") EXCEPT !.n = i, !.how = "replace"]
<1>1. proc[s].pc = "bump" /\ SaveTx(s, row, next)
  BY DEF Replace
<1>2. /\ s \in Procs /\ s # Signer /\ proc[s] \in Proc /\ view \in Row /\ proc[s].id \in Ids
      /\ RunOK(s, proc[s]) /\ view.attempts \in Seq(Attempt) /\ Len(view.attempts) \in Nat
      /\ view.status = "submitted" /\ view.nonce \in Nat
  BY <1>1, SweeperFacts DEF SweeperPC
<1>3. NewAttempt \in Attempt
  BY DEF NewAttempt, Attempt
<1>4. seq \in Seq(Attempt) /\ Len(seq) = i /\ i \in DOMAIN seq
  BY <1>2, <1>3, AppendProperties
<1>5. row \in Row /\ row.nonce = view.nonce /\ row.status = "submitted" /\ row.attempts = seq
  BY <1>2, <1>4 DEF Row
<1>6. Len(row.attempts) >= Len(view.attempts)
  BY <1>2, <1>4, <1>5
<1>7. MayWrite(s, view, row) /\ RowOK(row)
  BY <1>1, <1>2, <1>5, <1>6, SweeperMayWrite
<1>8. next \in Proc
  <2>1. Holding(s, row, "send") \in Proc
    BY <1>2, <1>5 DEF Proc, Holding, PC
  <2>2. i \in Nat
    BY <1>2
  <2>3. ASSUME NEW h \in Proc, NEW k \in Nat
        PROVE  [h EXCEPT !.n = k, !.how = "replace"] \in Proc
    BY DEF Proc
  <2> QED BY <2>1, <2>2, <2>3
<1>9. next.id = proc[s].id /\ next.view = row /\ next.pc = "send" /\ next.n = i
  BY <1>2 DEF Proc, Holding
<1>10. RunOK(s, next)
  BY <1>2, <1>4, <1>5, <1>7, <1>9 DEF RunOK, SweeperPC, Pending
<1>11. tx' \in [Ids -> Row] /\ proc' \in [Procs -> Proc] /\ RowsOK' /\ RunsOK'
  BY <1>1, <1>2, <1>7, <1>8, <1>9, <1>10, SaveStep
<1>12. OthersOK'
  BY DEF Replace, StoreInv, TypeOK, OthersOK, chainVars
<1> QED BY <1>11, <1>12 DEF StoreInv, TypeOK, OthersOK

LEMMA RebroadcastStep ==
  ASSUME StoreInv, NEW s \in Sweepers, Rebroadcast(s)
  PROVE  StoreInv'
<1>1. PICK i \in DOMAIN proc[s].view.attempts :
        proc' = [proc EXCEPT ![s].pc = "send", ![s].n = i, ![s].how = "rebroadcast"]
  BY DEF Rebroadcast
<1> DEFINE q == [proc[s] EXCEPT !.pc = "send", !.n = i, !.how = "rebroadcast"]
<1>2. proc[s].pc \in {"bump", "resend"} /\ tx' = tx
  BY DEF Rebroadcast, storeVars
<1>3. /\ proc[s] \in Proc /\ proc[s].view.attempts \in Seq(Attempt)
      /\ proc[s].view.status = "submitted"
  BY <1>2, SweeperFacts DEF SweeperPC
<1>4. i \in Nat
  BY <1>3
<1>5. q \in Proc
  BY <1>3, <1>4 DEF Proc, PC
<1>6. /\ q.id = proc[s].id /\ q.view = proc[s].view /\ q.fresh = proc[s].fresh
      /\ q.n = i /\ q.pc = "send"
  BY <1>3 DEF Proc
<1>7. SweeperPC(q)
  BY <1>3, <1>6 DEF SweeperPC
<1>8. proc' = [proc EXCEPT ![s] = q]
  BY <1>1 DEF StoreInv, TypeOK
<1>9. proc' \in [Procs -> Proc] /\ RowsOK' /\ RunsOK'
  BY <1>1, <1>2, <1>5, <1>6, <1>7, <1>8, OnwardStep
<1>10. OthersOK'
  BY DEF Rebroadcast, StoreInv, TypeOK, OthersOK, storeVars, chainVars
<1> QED BY <1>2, <1>9, <1>10 DEF StoreInv, TypeOK, OthersOK

\* An answer marks the attempt in hand and leaves the rest of the row.
LEMMA AnswerStep ==
  ASSUME StoreInv, NEW s \in Sweepers, proc[s].pc = "answered", NEW row \in Row,
         row.nonce = proc[s].view.nonce, row.status = "submitted",
         Len(row.attempts) = Len(proc[s].view.attempts),
         SaveTx(s, row, Idle), UNCHANGED <<nextNonce, paused, queue, reconciled, chainVars>>
  PROVE  StoreInv'
<1>1. proc[s].view.status = "submitted" /\ Len(proc[s].view.attempts) \in Nat
  BY SweeperFacts DEF SweeperPC
<1>2. MayWrite(s, proc[s].view, row)
  BY <1>1, SweeperMayWrite
<1> QED BY <1>2, SweeperSaveStep

LEMMA ReplaceAnsweredStep ==
  ASSUME StoreInv, NEW s \in Sweepers, ReplaceTaken(s) \/ ReplaceUnderpriced(s)
  PROVE  StoreInv'
<1> DEFINE view == proc[s].view
<1>1. /\ proc[s].pc = "answered"
      /\ UNCHANGED <<nextNonce, paused, queue, reconciled, chainVars>>
  BY DEF ReplaceTaken, ReplaceUnderpriced, Answered
<1>2. view \in Row /\ view.status = "submitted" /\ proc[s].n \in DOMAIN view.attempts
  BY <1>1, SweeperFacts DEF SweeperPC, RunOK
<1>3. PICK row \in {MarkAccepted(view, proc[s].n), MarkRefused(view, proc[s].n)} :
        SaveTx(s, row, Idle)
  BY DEF ReplaceTaken, ReplaceUnderpriced
<1>4. /\ row \in Row /\ row.nonce = view.nonce /\ row.status = "submitted"
      /\ Len(row.attempts) = Len(view.attempts)
  BY <1>2, <1>3, MarkAcceptedRow, MarkRefusedRow
<1> QED BY <1>1, <1>3, <1>4, AnswerStep

LEMMA RebroadcastTakenStep ==
  ASSUME StoreInv, NEW s \in Sweepers, RebroadcastTaken(s)
  PROVE  StoreInv'
<1> DEFINE view == proc[s].view
           n == proc[s].n
           a == [accepted |-> TRUE, refused |-> FALSE]
           seq == [view.attempts EXCEPT ![n] = a]
           row == [view EXCEPT !.attempts[n] = a]
<1>1. /\ proc[s].pc = "answered"
      /\ UNCHANGED <<nextNonce, paused, queue, reconciled, chainVars>>
      /\ SaveTx(s, row, Idle) \/ (Finish(s) /\ UNCHANGED tx)
  BY DEF RebroadcastTaken, Answered
<1>2. /\ view \in Row /\ view.status = "submitted" /\ n \in DOMAIN view.attempts
      /\ view.attempts \in Seq(Attempt) /\ s \in Procs
  BY <1>1, SweeperFacts DEF SweeperPC, RunOK
<1>3. seq \in Seq(Attempt) /\ Len(seq) = Len(view.attempts)
  <2>1. a \in Attempt
    BY DEF Attempt
  <2>2. n \in 1 .. Len(view.attempts)
    BY <1>2, LenProperties
  <2> QED BY <1>2, <2>1, <2>2, ExceptSeq
<1>4. row = [view EXCEPT !.attempts = seq]
  OBVIOUS
<1>5. /\ row \in Row /\ row.nonce = view.nonce /\ row.status = "submitted"
      /\ Len(row.attempts) = Len(view.attempts)
  BY <1>2, <1>3, <1>4 DEF Row
<1>6. CASE SaveTx(s, row, Idle)
  BY <1>1, <1>5, <1>6, AnswerStep
<1>7. CASE Finish(s) /\ UNCHANGED tx
  <2>1. proc' \in [Procs -> Proc] /\ RowsOK' /\ RunsOK'
    BY <1>2, <1>7, FinishStep
  <2>2. OthersOK'
    BY <1>1 DEF StoreInv, TypeOK, OthersOK, chainVars
  <2> QED BY <1>7, <2>1, <2>2 DEF StoreInv, TypeOK, OthersOK
<1> QED BY <1>1, <1>6, <1>7

LEMMA RebroadcastUnderpricedStep ==
  ASSUME StoreInv, NEW s \in Sweepers, RebroadcastUnderpriced(s)
  PROVE  StoreInv'
<1>1. /\ proc[s].pc # "idle" /\ s \in Procs
      /\ UNCHANGED <<nextNonce, paused, queue, reconciled, chainVars>>
      /\ SaveTx(s, proc[s].view, Idle) \/ (Finish(s) /\ UNCHANGED tx)
  BY SignerIn DEF RebroadcastUnderpriced, Answered
<1>2. CASE SaveTx(s, proc[s].view, Idle)
  BY <1>1, <1>2, SameRow, SweeperSaveStep
<1>3. CASE Finish(s) /\ UNCHANGED tx
  <2>1. proc' \in [Procs -> Proc] /\ RowsOK' /\ RunsOK'
    BY <1>1, <1>3, FinishStep
  <2>2. OthersOK'
    BY <1>1 DEF StoreInv, TypeOK, OthersOK, chainVars
  <2> QED BY <1>3, <2>1, <2>2 DEF StoreInv, TypeOK, OthersOK
<1> QED BY <1>1, <1>2, <1>3

LEMMA SweepNoFundsStep ==
  ASSUME StoreInv, NEW s \in Sweepers, SweepNoFunds(s)
  PROVE  StoreInv'
<1> DEFINE q == [proc[s] EXCEPT !.answer = "underpriced"]
<1>1. /\ proc[s].pc = "answered" /\ tx' = tx /\ s \in Procs
      /\ (proc' = [proc EXCEPT ![s].answer = "underpriced"]) \/ Finish(s)
  BY SignerIn DEF SweepNoFunds, Answered
<1>2. OthersOK'
  BY DEF SweepNoFunds, PauseForFunds, StoreInv, TypeOK, OthersOK, chainVars
<1>3. CASE Finish(s)
  <2>1. proc' \in [Procs -> Proc] /\ RowsOK' /\ RunsOK'
    BY <1>1, <1>3, FinishStep
  <2> QED BY <1>1, <1>2, <2>1 DEF StoreInv, TypeOK, OthersOK
<1>4. CASE proc' = [proc EXCEPT ![s].answer = "underpriced"]
  <2>1. proc[s] \in Proc /\ SweeperPC(proc[s]) /\ proc[s].n \in DOMAIN proc[s].view.attempts
    BY <1>1, SweeperFacts DEF RunOK
  <2>2. q \in Proc
    BY <2>1 DEF Proc, Answers
  <2>3. /\ q.id = proc[s].id /\ q.view = proc[s].view /\ q.fresh = proc[s].fresh
        /\ q.n = proc[s].n /\ q.pc = proc[s].pc
    BY <2>1 DEF Proc
  <2>4. SweeperPC(q)
    BY <2>1, <2>3 DEF SweeperPC
  <2>5. proc' = [proc EXCEPT ![s] = q]
    BY <1>4 DEF StoreInv, TypeOK
  <2>6. proc' \in [Procs -> Proc] /\ RowsOK' /\ RunsOK'
    BY <1>1, <2>1, <2>2, <2>3, <2>4, <2>5, OnwardStep
  <2> QED BY <1>1, <1>2, <2>6 DEF StoreInv, TypeOK, OthersOK
<1> QED BY <1>1, <1>3, <1>4

(***************************************************************************)
(* The chain                                                               *)
(***************************************************************************)
ChainStepTypes ==
  /\ head' \in Nat
  /\ used' \in Seq([sig : [id : Ids \cup {NoTx}, nonce : Nat, n : Nat], block : Nat])
  /\ usedMax' \in Nat
  /\ reorgs' \in Nat
  /\ foreign' \subseteq Nat

LEMMA ChainStep ==
  ASSUME StoreInv, ChainNext
  PROVE  StoreInv'
<1> DEFINE Used == [sig : [id : Ids \cup {NoTx}, nonce : Nat, n : Nat], block : Nat]
<1>1. /\ head \in Nat /\ used \in Seq(Used) /\ usedMax \in Nat /\ Len(used) \in Nat
      /\ reorgs \in Nat /\ foreign \subseteq Nat /\ reached \subseteq Signature
  BY LenProperties DEF StoreInv, TypeOK
<1>2. /\ UNCHANGED <<tx, proc, nextNonce, paused, queue, reconciled, reached>>
  BY DEF ChainNext, EmptyBlock, MineNonce, ForeignSend, Reorg, storeVars
<1>3. ChainStepTypes
  <2>1. CASE EmptyBlock
    BY <1>1, <2>1 DEF EmptyBlock, ChainStepTypes
  <2>2. CASE MineNonce
    <3>1. PICK sig \in reached \cup {Foreign(n) : n \in foreign} :
            used' = Append(used, [sig |-> sig, block |-> head + 1])
      BY <2>2 DEF MineNonce
    <3>2. sig \in [id : Ids \cup {NoTx}, nonce : Nat, n : Nat]
      BY <1>1 DEF Signature, Foreign
    <3>3. [sig |-> sig, block |-> head + 1] \in Used
      BY <1>1, <3>2
    <3>4. used' \in Seq(Used) /\ Len(used') = Len(used) + 1
      BY <1>1, <3>1, <3>3, AppendProperties
    <3>5. usedMax' \in Nat /\ head' \in Nat /\ reorgs' \in Nat /\ foreign' = foreign
      BY <1>1, <2>2, <3>4 DEF MineNonce
    <3> QED BY <1>1, <3>1, <3>4, <3>5 DEF ChainStepTypes
  <2>3. CASE Reorg
    <3>1. PICK m \in 0 .. Len(used) - 1 : used' = SubSeq(used, 1, m)
      BY <2>3 DEF Reorg
    <3>2. used' \in Seq(Used)
      <4>1. ASSUME NEW i \in 1 .. m PROVE used[i] \in Used
        <5>1. i \in 1 .. Len(used)
          BY <1>1, <3>1
        <5> QED BY <1>1, <5>1, ElementOfSeq
      <4>2. 1 \in Int /\ m \in Int
        BY <1>1, <3>1
      <4> QED BY <3>1, <4>1, <4>2, SubSeqProperties
    <3>3. head' \in Nat /\ usedMax' \in Nat /\ foreign' \subseteq Nat
      BY <1>1, <2>3 DEF Reorg
    <3>4. reorgs' \in Nat
      BY <1>1, <2>3 DEF Reorg
    <3> HIDE DEF Used
    <3>5. used' \in Seq([sig : [id : Ids \cup {NoTx}, nonce : Nat, n : Nat], block : Nat])
      BY <3>2 DEF Used
    <3> QED BY <3>3, <3>4, <3>5 DEF ChainStepTypes
  <2>4. CASE ForeignSend
    <3>1. PICK n \in PendingReads : foreign' = foreign \cup {n}
      BY <2>4 DEF ForeignSend
    <3>2. n \in Nat
      BY PendingReadsNat
    <3> QED BY <1>1, <2>4, <3>1, <3>2 DEF ForeignSend, ChainStepTypes
  <2> QED BY <2>1, <2>2, <2>3, <2>4 DEF ChainNext
<1>4. RowsOK' /\ RunsOK'
  BY <1>2 DEF StoreInv, RowsOK, RunsOK
<1> QED BY <1>2, <1>3, <1>4 DEF StoreInv, TypeOK, ChainStepTypes

(***************************************************************************)
(* StoreInv is inductive                                                   *)
(***************************************************************************)
LEMMA StoreInvInit == Init => StoreInv
<1> SUFFICES ASSUME Init PROVE StoreInv
  OBVIOUS
<1>1. TypeOK
  BY IdleProc, EmptySeq DEF Init, TypeOK
<1>2. RowsOK
  BY IdleProc DEF Init, RowsOK
<1>3. RunsOK
  BY IdleProc DEF Init, RunsOK
<1> QED BY <1>1, <1>2, <1>3 DEF StoreInv

\* Steps that only end a signer run.
LEMMA SignerEndStep ==
  ASSUME StoreInv, SignerNoFunds \/ \E t \in Ids : SignerSkip(t)
  PROVE  StoreInv'
<1>1. CASE SignerNoFunds
  <2>1. proc' \in [Procs -> Proc] /\ RowsOK' /\ RunsOK'
    BY <1>1, FinishStep, SignerIn DEF SignerNoFunds
  <2>2. OthersOK'
    BY <1>1, DeleteOK, SignerIn DEF SignerNoFunds, PauseForFunds, StoreInv, TypeOK, OthersOK, chainVars
  <2> QED BY <1>1, <2>1, <2>2 DEF SignerNoFunds, PauseForFunds, StoreInv, TypeOK, OthersOK
<1>2. CASE \E t \in Ids : SignerSkip(t)
  <2>1. UNCHANGED <<tx, proc>> /\ OthersOK'
    BY <1>2 DEF SignerSkip, StoreInv, TypeOK, OthersOK, chainVars
  <2>2. RowsOK' /\ RunsOK'
    BY <2>1 DEF StoreInv, RowsOK, RunsOK
  <2> QED BY <2>1, <2>2 DEF StoreInv, TypeOK, OthersOK
<1> QED BY <1>1, <1>2

LEMMA StoreInvNext ==
  ASSUME StoreInv, [Next]_vars
  PROVE  StoreInv'
<1>1. CASE \E t \in Payloads : Submit(t)
  BY <1>1, SubmitStep
<1>2. CASE SignerNext
  BY <1>2, SignerEndStep, SignerTakeStep, FailDependentStep, RaiseNonceStep,
     AssignNonceStep, SignAttemptStep, SignerSubmittedStep, SignerUnderpricedStep,
     SignerTooLowSubmittedStep, SignerDropNonceStep
  DEF SignerNext
<1>3. ASSUME NEW s \in Sweepers, SweeperNext(s)
      PROVE  StoreInv'
  BY <1>3, SweepReadStep, SweepEndStep, PauseStep, RequeueStep, SweepReorgedStep,
     SettleStep, SweepFoundStep, MarkMinedStep, StampUsedStep, WalkEmptyStep,
     NonceUnusedStep, SaveProgressStep, ReplaceStep, RebroadcastStep,
     RebroadcastTakenStep, RebroadcastUnderpricedStep, ReplaceAnsweredStep,
     SweepNoFundsStep
  DEF SweeperNext
<1>4. ASSUME NEW p \in Procs, EitherNext(p)
      PROVE  StoreInv'
  BY <1>4, SendStep, SendTimedOutStep, RefuseStep, FailWithFillerStep, AbortStep
  DEF EitherNext
<1>5. CASE ChainNext
  BY <1>5, ChainStep
<1>6. CASE UNCHANGED vars
  BY <1>6 DEF vars, StoreInv, TypeOK, RowsOK, RunsOK
<1> QED BY <1>1, <1>2, <1>3, <1>4, <1>5, <1>6 DEF Next

LEMMA StoreInvAlways == Spec => []StoreInv
BY StoreInvInit, StoreInvNext, PTL DEF Spec

\* Every variable keeps its type.
THEOREM TypeCorrect == Spec => []TypeOK
BY StoreInvAlways, PTL DEF StoreInv

(***************************************************************************)
(* A settled transaction is never changed again                            *)
(***************************************************************************)
\* Only a run whose version is the stored one writes, and it read the
\* transaction while it was not settled.
LEMMA SaveTxUnsettled ==
  ASSUME StoreInv, NEW p \in Procs, NEW row, NEW next, proc[p].pc # "idle",
         SaveTx(p, row, next)
  PROVE  \A t \in Ids : tx[t].status \in Settled => tx'[t] = tx[t]
<1>1. tx[proc[p].id].status \in Pending /\ tx' = [tx EXCEPT ![proc[p].id] = row]
  BY RunFacts DEF SaveTx, RunOK, Related
<1> QED BY <1>1 DEF Pending, Settled, StoreInv, TypeOK

SettledKept == \A t \in Ids : tx[t].status \in Settled => tx'[t] = tx[t]

LEMMA SettledNext ==
  ASSUME StoreInv, [Next]_vars
  PROVE  SettledKept
<1>1. CASE tx' = tx
  BY <1>1 DEF SettledKept
<1>2. CASE \E p \in Procs : \E row, next : proc[p].pc # "idle" /\ SaveTx(p, row, next)
  BY <1>2, SaveTxUnsettled DEF SettledKept
<1>3. CASE \E t \in Payloads : Submit(t)
  BY <1>3 DEF Submit, SettledKept, Settled, StoreInv, TypeOK
<1>4. CASE \E p \in Procs : FailWithFiller(p)
  <2>1. PICK p \in Procs : FailWithFiller(p)
    BY <1>4
  <2>2. tx[proc[p].id].status \in Pending /\ proc[p].id \in Ids
    BY <2>1, RunFacts DEF FailWithFiller, SaveWithFiller, Answered, RunOK, Related
  <2> DEFINE row == WithStatus(MarkRefused(proc[p].view, proc[p].n), "failed")
             filler == [NoRow EXCEPT !.status = "queued", !.nonce = row.nonce,
                                     !.fills = proc[p].id]
  <2>3. PICK f \in Fillers :
          /\ tx[f].status = "none"
          /\ tx' = [tx EXCEPT ![proc[p].id] = row, ![f] = filler]
    BY <2>1 DEF FailWithFiller, SaveWithFiller
  <2> HIDE DEF row, filler
  <2> QED BY <2>2, <2>3 DEF SettledKept, Ids, Pending, Settled, StoreInv, TypeOK
<1>5. CASE SignerNext
  <2>1. \/ tx' = tx
        \/ \E row, next : proc[Signer].pc # "idle" /\ SaveTx(Signer, row, next)
    BY <1>5 DEF SignerNext, SignerSkip, SignerTake, FailDependent, RaiseNonce,
         AssignNonce, SignAttempt, SignerSubmitted, SignerUnderpriced, SignerNoFunds,
         SignerTooLowSubmitted, SignerDropNonce, Answered
  <2> QED BY <1>1, <1>2, <2>1, SignerIn
<1>6. ASSUME NEW s \in Sweepers, SweeperNext(s)
      PROVE  SettledKept
  <2>1. \/ tx' = tx
        \/ \E row, next : proc[s].pc # "idle" /\ SaveTx(s, row, next)
    BY <1>6 DEF SweeperNext, SweepRead, SweepDone, ReadActive, Unpause, Requeue,
         SweepReorged, SweepConfirmed, SweepFound, MarkMined, ConfirmMined, StampUsed,
         WalkEmpty, FailUsed, NonceUnused, SaveProgress, Replace, Rebroadcast,
         RebroadcastTaken, RebroadcastUnderpriced, ReplaceTaken, ReplaceUnderpriced,
         SweepNoFunds, SweepTooLow, Answered, Viewing, storeVars
  <2> QED BY <1>1, <1>2, <2>1, SignerIn
<1>7. ASSUME NEW p \in Procs, EitherNext(p)
      PROVE  SettledKept
  <2>1. \/ tx' = tx
        \/ \E row, next : proc[p].pc # "idle" /\ SaveTx(p, row, next)
        \/ FailWithFiller(p)
    BY <1>7 DEF EitherNext, Send, SendTimedOut, RefuseMarked, RefuseFiller, Abort,
         Answered, storeVars
  <2> QED BY <1>1, <1>2, <1>4, <2>1
<1>8. CASE ChainNext \/ UNCHANGED vars
  BY <1>1, <1>8 DEF ChainNext, EmptyBlock, MineNonce, ForeignSend, Reorg, storeVars, vars
<1> QED BY <1>3, <1>5, <1>6, <1>7, <1>8 DEF Next

\* No interleaving of the signer, overlapping sweeps and conflicts changes a
\* transaction after it was reported as confirmed or failed.
THEOREM SettledIsFinal == Spec => SettledForGood
<1>1. StoreInv /\ [Next]_vars => [SettledKept]_vars
  BY SettledNext
<1>2. Spec => [][SettledKept]_vars
  BY <1>1, StoreInvAlways, PTL DEF Spec
<1> QED BY <1>2 DEF SettledForGood, SettledKept

(***************************************************************************)
(* What the nodes took                                                     *)
(***************************************************************************)
\* Every signature of `old` is still one of `new`.
KeepsSignatures(old, new) ==
  new.nonce = old.nonce /\ DOMAIN old.attempts \subseteq DOMAIN new.attempts

Unsent(t) == \A sig \in reached : sig.id # t

LEMMA NoNonceUnsent ==
  ASSUME StoreInv, ReachedIsListed, NEW t \in Ids, tx[t].nonce = NoNonce
  PROVE  Unsent(t)
BY DEF Unsent, ReachedIsListed, NoNonce, StoreInv, TypeOK, Signature

\* A step that sends nothing and keeps the signatures of every row that has sent.
LEMMA QuietStep ==
  ASSUME ChainInv, reached' = reached, used' = used,
         \A t \in Ids : KeepsSignatures(tx[t], tx'[t]) \/ Unsent(t),
         MayGiveUp(proc'[Signer]) =>
           \/ MayGiveUp(proc[Signer]) /\ proc'[Signer].id = proc[Signer].id
           \/ Unsent(proc'[Signer].id)
  PROVE  UnsentIfGivenUp' /\ ReachedIsListed' /\ UsedInOrder'
<1>1. UnsentIfGivenUp'
  BY DEF ChainInv, UnsentIfGivenUp, Unsent
<1>2. ReachedIsListed'
  BY DEF ChainInv, ReachedIsListed, Unsent, KeepsSignatures, StoreInv, TypeOK, Signature
<1>3. UsedInOrder'
  BY DEF ChainInv, UsedInOrder
<1> QED BY <1>1, <1>2, <1>3

LEMMA SaveKeeps ==
  ASSUME StoreInv, NEW p \in Procs, NEW row, NEW next, proc[p].pc # "idle",
         SaveTx(p, row, next), KeepsSignatures(proc[p].view, row)
  PROVE  \A t \in Ids : KeepsSignatures(tx[t], tx'[t])
<1>1. tx[proc[p].id] = proc[p].view /\ tx' = [tx EXCEPT ![proc[p].id] = row]
  BY RunFacts DEF SaveTx, Related
<1> QED BY <1>1 DEF KeepsSignatures, StoreInv, TypeOK

\* Another run's write leaves the signer's run as it is, but for its freshness.
LEMMA SaveLeavesSigner ==
  ASSUME StoreInv, NEW s \in Sweepers, NEW row, NEW next, SaveTx(s, row, next)
  PROVE  MayGiveUp(proc'[Signer]) => MayGiveUp(proc[Signer]) /\ proc'[Signer].id = proc[Signer].id
<1>1. Signer \in Procs /\ Signer # s /\ proc[Signer] \in Proc
  BY SignerIn DEF StoreInv, TypeOK
<1>2. proc'[Signer] \in {proc[Signer], [proc[Signer] EXCEPT !.fresh = FALSE]}
  BY <1>1 DEF SaveTx
<1> QED BY <1>1, <1>2 DEF MayGiveUp, Proc

\* What a sweeper writes keeps every signature.
SweeperWrites(s) ==
  \E row, next : proc[s].pc # "idle" /\ SaveTx(s, row, next)
                 /\ KeepsSignatures(proc[s].view, row)

LEMMA KeepsViewed ==
  ASSUME NEW row \in Row
  PROVE  /\ KeepsSignatures(row, row)
         /\ \A st \in Status : KeepsSignatures(row, WithStatus(row, st))
         /\ \A u \in [block : Nat, time : Nat] :
              KeepsSignatures(row, [row EXCEPT !.usedAt = u])
         /\ KeepsSignatures(row, [row EXCEPT !.status = "submitted", !.mined = NoMined])
BY DEF KeepsSignatures, WithStatus, Row

LEMMA KeepsMarked ==
  ASSUME NEW row \in Row, NEW i \in DOMAIN row.attempts, NEW st \in Status
  PROVE  /\ KeepsSignatures(row, MarkAccepted(row, i))
         /\ KeepsSignatures(row, MarkRefused(row, i))
         /\ KeepsSignatures(row, WithStatus(MarkAccepted(row, i), st))
         /\ KeepsSignatures(row, WithStatus(MarkRefused(row, i), st))
BY MarkAcceptedRow, MarkRefusedRow, WithStatusRow DEF KeepsSignatures

LEMMA SweeperKeeps ==
  ASSUME StoreInv, NEW s \in Sweepers, SweeperNext(s)
  PROVE  tx' = tx \/ SweeperWrites(s)
<1> DEFINE view == proc[s].view
           n == proc[s].n
<1>1. CASE \/ \E t \in Ids : SweepRead(s, t)
           \/ SweepDone(s) \/ ReadActive(s) \/ Unpause(s) \/ SweepFound(s) \/ WalkEmpty(s)
           \/ Rebroadcast(s) \/ SweepNoFunds(s) \/ SweepTooLow(s)
  BY <1>1 DEF SweepRead, SweepDone, ReadActive, Unpause, SweepFound, WalkEmpty,
     Rebroadcast, SweepNoFunds, SweepTooLow, storeVars
<1>2. CASE Requeue(s) \/ SaveProgress(s) \/ RebroadcastUnderpriced(s)
  BY <1>2, SweeperFacts, KeepsViewed
  DEF Requeue, SaveProgress, RebroadcastUnderpriced, Viewing, Answered, SweeperWrites
<1>3. CASE SweepConfirmed(s) \/ ConfirmMined(s) \/ FailUsed(s)
  BY <1>3, SweeperFacts, KeepsViewed
  DEF SweepConfirmed, ConfirmMined, FailUsed, Viewing, SweeperWrites, Status
<1>4. CASE SweepReorged(s)
  BY <1>4, SweeperFacts, KeepsViewed DEF SweepReorged, Viewing, SweeperWrites
<1>5. CASE StampUsed(s) \/ NonceUnused(s)
  <2> DEFINE at == [block |-> proc[s].head, time |-> head]
  <2>1. view \in Row /\ proc[s].pc # "idle" /\ at \in [block : Nat, time : Nat]
        /\ NoStamp \in [block : Nat, time : Nat]
    BY <1>5, SweeperFacts DEF StampUsed, NonceUnused, Viewing, Proc, NoStamp, StoreInv, TypeOK
  <2>2. KeepsSignatures(view, [view EXCEPT !.usedAt = at])
    BY <2>1, KeepsViewed
  <2>3. KeepsSignatures(view, [view EXCEPT !.usedAt = NoStamp])
    BY <2>1, KeepsViewed
  <2> QED BY <1>5, <2>1, <2>2, <2>3 DEF StampUsed, NonceUnused, SweeperWrites
<1>6. CASE Replace(s)
  <2> DEFINE seq == Append(view.attempts, NewAttempt)
             row == [view EXCEPT !.attempts = seq]
  <2>1. proc[s].pc # "idle" /\ \E next : SaveTx(s, row, next)
    BY <1>6 DEF Replace
  <2>2. view \in Row /\ view.attempts \in Seq(Attempt) /\ NewAttempt \in Attempt
    BY <2>1, SweeperFacts DEF NewAttempt, Attempt
  <2>3. DOMAIN view.attempts \subseteq DOMAIN seq
    BY <2>2, AppendProperties, LenProperties
  <2>4. row.attempts = seq /\ row.nonce = view.nonce
    BY <2>2 DEF Row
  <2> QED BY <2>1, <2>3, <2>4 DEF SweeperWrites, KeepsSignatures
<1>7. CASE ReplaceTaken(s) \/ ReplaceUnderpriced(s)
  <2>1. view \in Row /\ n \in DOMAIN view.attempts /\ proc[s].pc # "idle"
    BY <1>7, SweeperFacts DEF ReplaceTaken, ReplaceUnderpriced, Answered, RunOK
  <2> QED BY <1>7, <2>1, KeepsMarked DEF ReplaceTaken, ReplaceUnderpriced, SweeperWrites, Status
<1>8. CASE RebroadcastTaken(s)
  <2> DEFINE a == [accepted |-> TRUE, refused |-> FALSE]
             row == [view EXCEPT !.attempts[n] = a]
  <2>1. view \in Row /\ proc[s].pc # "idle"
    BY <1>8, SweeperFacts DEF RebroadcastTaken, Answered
  <2>2. row = [view EXCEPT !.attempts = [view.attempts EXCEPT ![n] = a]]
    OBVIOUS
  <2>3. KeepsSignatures(view, row)
    BY <2>1, <2>2 DEF KeepsSignatures, Row
  <2> QED BY <1>8, <2>1, <2>3 DEF RebroadcastTaken, SweeperWrites
<1>9. CASE MarkMined(s)
  <2> DEFINE marked == MarkAccepted(view, n)
             row == [marked EXCEPT !.status = "mined", !.usedAt = NoStamp,
                                   !.mined = [n |-> n, block |-> proc[s].block]]
  <2>1. view \in Row /\ n \in DOMAIN view.attempts /\ proc[s].pc # "idle"
    BY <1>9, SweeperFacts DEF MarkMined, RunOK
  <2>2. marked \in Row /\ KeepsSignatures(view, marked)
    BY <2>1, MarkAcceptedRow DEF KeepsSignatures
  <2>3. row.nonce = marked.nonce /\ row.attempts = marked.attempts
    BY <2>2 DEF Row
  <2>4. KeepsSignatures(view, row)
    BY <2>2, <2>3 DEF KeepsSignatures
  <2> QED BY <1>9, <2>1, <2>4 DEF MarkMined, SweeperWrites
<1> QED BY <1>1, <1>2, <1>3, <1>4, <1>5, <1>6, <1>7, <1>8, <1>9 DEF SweeperNext

LEMMA SweeperChain ==
  ASSUME ChainInv, NEW s \in Sweepers, SweeperNext(s)
  PROVE  UnsentIfGivenUp' /\ ReachedIsListed' /\ UsedInOrder'
<1>1. reached' = reached /\ used' = used
  BY DEF SweeperNext, SweepRead, SweepDone, ReadActive, Unpause, Requeue, SweepReorged,
     SweepConfirmed, SweepFound, MarkMined, ConfirmMined, StampUsed, WalkEmpty, FailUsed,
     NonceUnused, SaveProgress, Replace, Rebroadcast, RebroadcastTaken,
     RebroadcastUnderpriced, ReplaceTaken, ReplaceUnderpriced, SweepNoFunds, SweepTooLow,
     chainVars
<1>2. \/ proc'[Signer] = proc[Signer]
      \/ \E row, next : SaveTx(s, row, next)
  BY SignerIn
  DEF SweeperNext, SweepRead, SweepDone, ReadActive, Unpause, Requeue, SweepReorged,
     SweepConfirmed, SweepFound, MarkMined, ConfirmMined, StampUsed, WalkEmpty, FailUsed,
     NonceUnused, SaveProgress, Replace, Rebroadcast, RebroadcastTaken,
     RebroadcastUnderpriced, ReplaceTaken, ReplaceUnderpriced, SweepNoFunds, SweepTooLow,
     Goto, Finish, ChainInv, StoreInv, TypeOK
<1>3. MayGiveUp(proc'[Signer]) => MayGiveUp(proc[Signer]) /\ proc'[Signer].id = proc[Signer].id
  BY <1>2, SaveLeavesSigner DEF ChainInv
<1>4. \A t \in Ids : KeepsSignatures(tx[t], tx'[t])
  BY SweeperKeeps, SaveKeeps, SignerIn DEF ChainInv, SweeperWrites, KeepsSignatures
<1> QED BY <1>1, <1>3, <1>4, QuietStep

LEMMA SubmitChain ==
  ASSUME ChainInv, NEW t \in Payloads, Submit(t)
  PROVE  UnsentIfGivenUp' /\ ReachedIsListed' /\ UsedInOrder'
<1>1. /\ reached' = reached /\ used' = used /\ proc' = proc
      /\ tx' = [tx EXCEPT ![t] = WithStatus(NoRow, "queued")]
  BY DEF Submit, chainVars
<1>2. t \in Ids /\ Unsent(t)
  BY NoNonceUnsent DEF Submit, ChainInv, StoreInv, RowsOK, RowOK, Ids
<1>3. \A u \in Ids : KeepsSignatures(tx[u], tx'[u]) \/ Unsent(u)
  BY <1>1, <1>2 DEF KeepsSignatures, ChainInv, StoreInv, TypeOK
<1> QED BY <1>1, <1>3, QuietStep

\* A failed transaction keeps its signatures, and its filler's row is new.
LEMMA FailWithFillerChain ==
  ASSUME ChainInv, NEW p \in Procs, FailWithFiller(p)
  PROVE  UnsentIfGivenUp' /\ ReachedIsListed' /\ UsedInOrder'
<1> DEFINE t == proc[p].id
           row == WithStatus(MarkRefused(proc[p].view, proc[p].n), "failed")
           filler == [NoRow EXCEPT !.status = "queued", !.nonce = row.nonce, !.fills = t]
<1>1. reached' = reached /\ used' = used /\ StoreInv
  BY DEF FailWithFiller, SaveWithFiller, ChainInv, chainVars
<1>2. /\ tx[t] = proc[p].view /\ t \in Ids /\ proc[p].n \in DOMAIN proc[p].view.attempts
      /\ proc[p].view \in Row
  BY <1>1, RunFacts DEF FailWithFiller, SaveWithFiller, Answered, RunOK, Related
<1>3. KeepsSignatures(tx[t], row)
  BY <1>2, KeepsMarked DEF Status
<1>4. PICK f \in Fillers :
        /\ tx[f].status = "none"
        /\ tx' = [tx EXCEPT ![t] = row, ![f] = filler]
  BY DEF FailWithFiller, SaveWithFiller
<1>5. f \in Ids /\ Unsent(f)
  BY <1>1, <1>4, NoNonceUnsent DEF ChainInv, StoreInv, RowsOK, RowOK, Ids
<1>6. \A u \in Ids : KeepsSignatures(tx[u], tx'[u]) \/ Unsent(u)
  <2> HIDE DEF row, filler, t
  <2> QED BY <1>1, <1>2, <1>3, <1>4, <1>5 DEF KeepsSignatures, StoreInv, TypeOK
<1>7. MayGiveUp(proc'[Signer]) => MayGiveUp(proc[Signer]) /\ proc'[Signer].id = proc[Signer].id
  <2>1. Signer \in Procs /\ proc[Signer] \in Proc
    BY <1>1, SignerIn DEF StoreInv, TypeOK
  <2>2. proc'[Signer] \in {Idle, proc[Signer], [proc[Signer] EXCEPT !.fresh = FALSE]}
    BY <2>1 DEF FailWithFiller, SaveWithFiller
  <2> QED BY <2>1, <2>2, IdleProc DEF MayGiveUp, Proc
<1> QED BY <1>1, <1>6, <1>7, QuietStep

\* A nonce is taken by a transaction that has sent nothing, and given up by one.
LEMMA SignerChain ==
  ASSUME ChainInv, SignerNext
  PROVE  UnsentIfGivenUp' /\ ReachedIsListed' /\ UsedInOrder'
<1> DEFINE view == proc[Signer].view
           n == proc[Signer].n
           id == proc[Signer].id
<1>1. reached' = reached /\ used' = used /\ StoreInv /\ Signer \in Procs
  BY SignerIn
  DEF SignerNext, SignerSkip, SignerTake, FailDependent, RaiseNonce, AssignNonce,
     SignAttempt, SignerSubmitted, SignerUnderpriced, SignerNoFunds,
     SignerTooLowSubmitted, SignerDropNonce, chainVars, ChainInv
<1>2. CASE \/ \E t \in Ids : SignerSkip(t) \/ SignerTake(t)
           \/ RaiseNonce \/ SignerNoFunds
  <2>1. tx' = tx
    BY <1>2 DEF SignerSkip, SignerTake, RaiseNonce, SignerNoFunds
  <2>2. ~MayGiveUp(proc'[Signer]) \/ proc'[Signer] = proc[Signer]
    <3>1. CASE \E t \in Ids : SignerTake(t)
      BY <1>1, <3>1 DEF SignerTake, MayGiveUp, Idle, StoreInv, TypeOK
    <3>2. CASE RaiseNonce \/ \E t \in Ids : SignerSkip(t)
      BY <3>2 DEF RaiseNonce, SignerSkip
    <3>3. CASE SignerNoFunds
      BY <1>1, <3>3, IdleProc DEF SignerNoFunds, Finish, MayGiveUp, StoreInv, TypeOK
    <3> QED BY <1>2, <3>1, <3>2, <3>3
  <2> QED BY <1>1, <2>1, <2>2, QuietStep DEF KeepsSignatures
<1>3. CASE FailDependent \/ SignerSubmitted \/ SignerUnderpriced \/ SignerTooLowSubmitted
  <2>1. \E row : /\ proc[Signer].pc # "idle" /\ SaveTx(Signer, row, Idle)
                 /\ KeepsSignatures(view, row)
    <3>1. CASE FailDependent
      BY <1>1, <3>1, SignerFacts, KeepsViewed DEF FailDependent, Status
    <3>2. CASE SignerTooLowSubmitted
      BY <1>1, <3>2, SignerFacts, KeepsViewed DEF SignerTooLowSubmitted, Answered, Status
    <3>3. CASE SignerSubmitted \/ SignerUnderpriced
      <4>1. proc[Signer].pc # "idle" /\ view \in Row /\ n \in DOMAIN view.attempts
        BY <1>1, <3>3, SignerFacts DEF SignerSubmitted, SignerUnderpriced, Answered
      <4> QED BY <3>3, <4>1, KeepsMarked DEF SignerSubmitted, SignerUnderpriced, Status
    <3> QED BY <1>3, <3>1, <3>2, <3>3
  <2>2. \A t \in Ids : KeepsSignatures(tx[t], tx'[t])
    BY <1>1, <2>1, SaveKeeps
  <2>3. ~MayGiveUp(proc'[Signer])
    BY <1>1, <2>1, IdleProc DEF SaveTx, MayGiveUp
  <2> QED BY <1>1, <2>2, <2>3, QuietStep
<1>4. CASE AssignNonce
  <2> DEFINE row == [view EXCEPT !.nonce = nextNonce]
             next == [Holding(Signer, row, "sign") EXCEPT !.taken = TRUE]
  <2>1. /\ SaveTx(Signer, row, next) /\ id \in Ids /\ tx[id] = view
        /\ view.nonce = NoNonce /\ proc[Signer] \in Proc
    BY <1>1, <1>4, SignerFacts, RunFacts DEF AssignNonce, Related
  <2>2. Unsent(id)
    BY <1>1, <2>1, NoNonceUnsent DEF ChainInv
  <2>3. \A t \in Ids : KeepsSignatures(tx[t], tx'[t]) \/ Unsent(t)
    BY <1>1, <2>1, <2>2 DEF SaveTx, KeepsSignatures, StoreInv, TypeOK
  <2>4. proc'[Signer].id = id
    BY <1>1, <2>1 DEF SaveTx, Holding, Proc
  <2> QED BY <1>1, <2>2, <2>3, <2>4, QuietStep
<1>5. CASE SignAttempt
  <2> DEFINE row == [view EXCEPT !.attempts = <<NewAttempt>>]
             next == [Holding(Signer, row, "send") EXCEPT !.n = 1]
  <2>1. /\ proc[Signer].pc = "sign" /\ SaveTx(Signer, row, next)
        /\ view \in Row /\ view.attempts = << >> /\ proc[Signer] \in Proc
    BY <1>1, <1>5, SignerFacts DEF SignAttempt
  <2>2. KeepsSignatures(view, row)
    BY <2>1 DEF KeepsSignatures, Row
  <2>3. \A t \in Ids : KeepsSignatures(tx[t], tx'[t])
    BY <1>1, <2>1, <2>2, SaveKeeps
  <2>4. proc'[Signer].id = id /\ proc'[Signer].taken = proc[Signer].taken
    BY <1>1, <2>1 DEF SaveTx, Holding, Proc
  <2> QED BY <1>1, <2>1, <2>3, <2>4, QuietStep DEF MayGiveUp
<1>6. CASE SignerDropNonce
  <2> DEFINE row == [view EXCEPT !.nonce = NoNonce, !.attempts = << >>]
             next == [Holding(Signer, row, "nonce") EXCEPT
                        !.n = 0, !.answer = "none", !.taken = FALSE, !.resets = @ + 1]
  <2>1. /\ SaveTx(Signer, row, next) /\ id \in Ids /\ proc[Signer] \in Proc
        /\ MayGiveUp(proc[Signer])
    BY <1>1, <1>6, SignerFacts DEF SignerDropNonce, Answered, MayGiveUp
  <2>2. Unsent(id)
    BY <2>1 DEF ChainInv, UnsentIfGivenUp, Unsent
  <2>3. \A t \in Ids : KeepsSignatures(tx[t], tx'[t]) \/ Unsent(t)
    BY <1>1, <2>1, <2>2 DEF SaveTx, KeepsSignatures, StoreInv, TypeOK
  <2>4. ~MayGiveUp(proc'[Signer])
    BY <1>1, <2>1 DEF SaveTx, Holding, Proc, MayGiveUp
  <2> QED BY <1>1, <2>3, <2>4, QuietStep
<1> QED BY <1>2, <1>3, <1>4, <1>5, <1>6 DEF SignerNext

\* What is sent is a signature of the row that is stored.
LEMMA SendListed ==
  ASSUME StoreInv, NEW p \in Procs, proc[p].pc = "send"
  PROVE  LET sig == Sig(proc[p].id, proc[p].view, proc[p].n) IN
         /\ sig \in Signature
         /\ sig.id = proc[p].id
         /\ sig.nonce = tx[sig.id].nonce
         /\ sig.n \in DOMAIN tx[sig.id].attempts
         /\ p # Signer => tx[sig.id].status # "queued"
<1> DEFINE view == proc[p].view
           row == tx[proc[p].id]
<1>1. /\ RunOK(p, proc[p]) /\ Related(p, proc[p], row) /\ proc[p] \in Proc
      /\ row \in Row /\ view \in Row
  BY RunFacts DEF StoreInv, TypeOK
<1>2. Sig(proc[p].id, view, proc[p].n) \in Signature
  BY SendSig
<1>3. proc[p].n \in DOMAIN view.attempts
  BY <1>1 DEF RunOK
<1>4. CASE p = Signer
  BY <1>1, <1>2, <1>3, <1>4 DEF Related, Sig
<1>5. CASE p # Signer
  <2>1. view.status = "submitted" /\ SentSince(view, row)
    BY <1>1, <1>5 DEF RunOK, SweeperPC, Related
  <2>2. row.nonce = view.nonce /\ Len(view.attempts) <= Len(row.attempts) /\ row.status # "queued"
    BY <2>1 DEF SentSince
  <2>3. view.attempts \in Seq(Attempt) /\ row.attempts \in Seq(Attempt)
    BY <1>1 DEF Row
  <2>4. proc[p].n \in DOMAIN row.attempts
    BY <1>3, <2>2, <2>3, LenProperties, SMTT(60)
  <2> QED BY <1>2, <2>2, <2>4 DEF Sig
<1> QED BY <1>4, <1>5

LEMMA SendChain ==
  ASSUME ChainInv, NEW p \in Procs, Send(p)
  PROVE  UnsentIfGivenUp' /\ ReachedIsListed' /\ UsedInOrder'
<1> DEFINE sig == Sig(proc[p].id, proc[p].view, proc[p].n)
<1>1. proc[p].pc = "send" /\ StoreInv /\ tx' = tx /\ used' = used
  BY DEF Send, ChainInv, storeVars
<1>2. /\ sig \in Signature /\ sig.id = proc[p].id /\ sig.nonce = tx[sig.id].nonce
      /\ sig.n \in DOMAIN tx[sig.id].attempts
      /\ p # Signer => tx[proc[p].id].status # "queued"
  BY <1>1, SendListed
<1>3. PICK a \in Answers :
        /\ reached' \in {reached, reached \cup {sig}}
        /\ a \notin {"taken", "unknown"} => reached' = reached
        /\ proc' = [proc EXCEPT ![p].pc = "answered", ![p].answer = a]
  BY DEF Send
<1>4. ReachedIsListed'
  BY <1>1, <1>2, <1>3 DEF ChainInv, ReachedIsListed
<1>5. UsedInOrder'
  BY <1>1, <1>3 DEF ChainInv, UsedInOrder
<1>6. UnsentIfGivenUp'
  <2>1. CASE p = Signer
    <3>1. proc[p] \in Proc /\ Signer \in Procs
      BY <1>1, SignerIn DEF StoreInv, TypeOK
    <3>2. /\ proc'[Signer].id = proc[p].id /\ proc'[Signer].taken = proc[p].taken
          /\ proc'[Signer].pc = "answered" /\ proc'[Signer].answer = a
      BY <1>1, <1>3, <2>1, <3>1 DEF StoreInv, TypeOK, Proc
    <3>3. MayGiveUp(proc'[Signer]) => reached' = reached /\ MayGiveUp(proc[Signer])
      BY <1>1, <1>3, <2>1, <3>2 DEF MayGiveUp
    <3> QED BY <2>1, <3>2, <3>3 DEF ChainInv, UnsentIfGivenUp
  <2>2. CASE p # Signer
    <3>1. proc'[Signer] = proc[Signer]
      BY <1>1, <1>3, <2>2, SignerIn DEF StoreInv, TypeOK
    <3>2. proc[Signer].pc # "idle" => tx[proc[Signer].id].status = "queued"
      BY <1>1, SignerIn, RunFacts DEF Related, RunOK, SignerPC
    <3> QED BY <1>2, <1>3, <2>2, <3>1, <3>2 DEF ChainInv, UnsentIfGivenUp, MayGiveUp
  <2> QED BY <2>1, <2>2
<1> QED BY <1>4, <1>5, <1>6

LEMMA EitherChain ==
  ASSUME ChainInv, NEW p \in Procs, RefuseMarked(p) \/ RefuseFiller(p) \/ Abort(p)
  PROVE  UnsentIfGivenUp' /\ ReachedIsListed' /\ UsedInOrder'
<1>1. reached' = reached /\ used' = used /\ StoreInv /\ Signer \in Procs
  BY SignerIn DEF RefuseMarked, RefuseFiller, Abort, ChainInv, chainVars
<1>2. CASE Abort(p)
  <2>1. tx' = tx /\ (~MayGiveUp(proc'[Signer]) \/ proc'[Signer] = proc[Signer])
    BY <1>1, <1>2, IdleProc DEF Abort, Finish, MayGiveUp, StoreInv, TypeOK
  <2> QED BY <1>1, <2>1, QuietStep DEF KeepsSignatures
<1>3. CASE RefuseMarked(p) \/ RefuseFiller(p)
  <2> DEFINE view == proc[p].view
  <2>1. view \in Row /\ proc[p].n \in DOMAIN view.attempts /\ proc[p].pc # "idle"
    BY <1>1, <1>3, RunFacts DEF RefuseMarked, RefuseFiller, Answered, RunOK
  <2>2. PICK st \in {"submitted", "failed"} :
          SaveTx(p, WithStatus(MarkRefused(view, proc[p].n), st), Idle)
    BY <1>3 DEF RefuseMarked, RefuseFiller
  <2>3. \A t \in Ids : KeepsSignatures(tx[t], tx'[t])
    BY <1>1, <2>1, <2>2, KeepsMarked, SaveKeeps DEF Status
  <2>4. MayGiveUp(proc'[Signer]) => MayGiveUp(proc[Signer]) /\ proc'[Signer].id = proc[Signer].id
    <3>1. CASE p = Signer
      BY <1>1, <2>2, <3>1, IdleProc DEF SaveTx, MayGiveUp
    <3>2. CASE p # Signer
      BY <1>1, <2>2, <3>2, SaveLeavesSigner DEF Procs
    <3> QED BY <3>1, <3>2
  <2> QED BY <1>1, <2>3, <2>4, QuietStep
<1> QED BY <1>2, <1>3

\* Blocks extend the nonces by the next one, reorgs cut them back.
LEMMA BlocksChain ==
  ASSUME ChainInv, ChainNext
  PROVE  UnsentIfGivenUp' /\ ReachedIsListed' /\ UsedInOrder'
<1> DEFINE Used == [sig : [id : Ids \cup {NoTx}, nonce : Nat, n : Nat], block : Nat]
<1>1. /\ used \in Seq(Used) /\ Len(used) \in Nat /\ head \in Nat /\ reached \subseteq Signature
      /\ foreign \subseteq Nat
  BY LenProperties DEF ChainInv, StoreInv, TypeOK
<1>2. UNCHANGED <<tx, proc, reached>>
  BY DEF ChainNext, EmptyBlock, MineNonce, ForeignSend, Reorg, storeVars
<1>3. UnsentIfGivenUp' /\ ReachedIsListed'
  BY <1>2 DEF ChainInv, UnsentIfGivenUp, ReachedIsListed
<1>4. UsedInOrder'
  <2>1. CASE EmptyBlock
    BY <1>2, <2>1 DEF EmptyBlock, ChainInv, UsedInOrder
  <2>2. CASE MineNonce
    <3>1. PICK sig \in reached \cup {Foreign(n) : n \in foreign} :
            /\ sig.nonce = Len(used)
            /\ used' = Append(used, [sig |-> sig, block |-> head + 1])
      BY <2>2 DEF MineNonce
    <3>2. sig \in [id : Ids \cup {NoTx}, nonce : Nat, n : Nat] /\ (sig.id # NoTx => sig \in reached)
      BY <1>1, <3>1 DEF Foreign, Signature
    <3>3. [sig |-> sig, block |-> head + 1] \in Used
      BY <1>1, <3>2
    <3>4. /\ Len(used') = Len(used) + 1
          /\ \A i \in 1 .. Len(used) : used'[i] = used[i]
          /\ used'[Len(used) + 1] = [sig |-> sig, block |-> head + 1]
          /\ DOMAIN used' = 1 .. Len(used) + 1
      BY <1>1, <3>1, <3>3, AppendProperties, LenProperties
    <3>5. DOMAIN used = 1 .. Len(used)
      BY <1>1, LenProperties
    <3>6. ASSUME NEW i \in DOMAIN used'
          PROVE  /\ used'[i].sig.nonce = i - 1
                 /\ used'[i].sig.id # NoTx => used'[i].sig \in reached
      <4>1. CASE i = Len(used) + 1
        BY <1>1, <3>1, <3>2, <3>4, <4>1
      <4>2. CASE i \in 1 .. Len(used)
        BY <3>4, <3>5, <4>2 DEF ChainInv, UsedInOrder
      <4> QED BY <1>1, <3>4, <4>1, <4>2
    <3> QED BY <1>2, <3>6 DEF UsedInOrder
  <2>3. CASE Reorg
    <3>1. PICK m \in 0 .. Len(used) - 1 : used' = SubSeq(used, 1, m)
      BY <2>3 DEF Reorg
    <3>2. ASSUME NEW i \in DOMAIN used'
          PROVE  i \in DOMAIN used /\ used'[i] = used[i]
      <4>1. ASSUME NEW k \in 1 .. m PROVE used[k] \in Used
        <5>1. k \in 1 .. Len(used)
          BY <1>1, <3>1
        <5> QED BY <1>1, <5>1, ElementOfSeq
      <4>2. DOMAIN used' = 1 .. m /\ \A k \in 1 .. m : used'[k] = used[k]
        BY <1>1, <3>1, <4>1, SubSeqProperties, LenProperties
      <4>3. m < Len(used)
        BY <1>1, <3>1
      <4>4. DOMAIN used = 1 .. Len(used)
        BY <1>1, LenProperties
      <4>5. i \in 1 .. m
        BY <4>2
      <4>6. i \in 1 .. Len(used)
        BY <1>1, <3>1, <4>3, <4>5
      <4> QED BY <4>2, <4>4, <4>5, <4>6
    <3> QED BY <1>2, <3>2 DEF ChainInv, UsedInOrder
  <2>4. CASE ForeignSend
    BY <1>2, <2>4 DEF ForeignSend, ChainInv, UsedInOrder
  <2> QED BY <2>1, <2>2, <2>3, <2>4 DEF ChainNext
<1> QED BY <1>3, <1>4

(***************************************************************************)
(* ChainInv is inductive when a send that times out was not taken          *)
(***************************************************************************)
LEMMA ChainInvInit == Init => ChainInv
BY StoreInvInit, IdleProc, SignerIn
DEF Init, ChainInv, UnsentIfGivenUp, MayGiveUp, ReachedIsListed, UsedInOrder

LEMMA ChainInvNext ==
  ASSUME ~TriesTimeOut, ChainInv, [Next]_vars
  PROVE  ChainInv'
<1>1. StoreInv'
  BY StoreInvNext DEF ChainInv
<1>2. UnsentIfGivenUp' /\ ReachedIsListed' /\ UsedInOrder'
  <2>1. CASE \E t \in Payloads : Submit(t)
    BY <2>1, SubmitChain
  <2>2. CASE SignerNext
    BY <2>2, SignerChain
  <2>3. CASE \E s \in Sweepers : SweeperNext(s)
    BY <2>3, SweeperChain
  <2>4. CASE \E p \in Procs : EitherNext(p)
    BY <2>4, SendChain, FailWithFillerChain, EitherChain DEF EitherNext, SendTimedOut
  <2>5. CASE ChainNext
    BY <2>5, BlocksChain
  <2>6. CASE UNCHANGED vars
    BY <2>6 DEF vars, ChainInv, UnsentIfGivenUp, ReachedIsListed, UsedInOrder
  <2> QED BY <2>1, <2>2, <2>3, <2>4, <2>5, <2>6 DEF Next
<1> QED BY <1>1, <1>2 DEF ChainInv

LEMMA ChainInvAlways ==
  ASSUME ~TriesTimeOut
  PROVE  Spec => []ChainInv
<1>1. ChainInv /\ [Next]_vars => ChainInv'
  BY ChainInvNext
<1> QED BY <1>1, ChainInvInit, PTL DEF Spec

\* Every signature that can be mined is on the row it was made for, so a later
\* receipt walk finds it.
THEOREM EverySignatureListed ==
  ASSUME ~TriesTimeOut
  PROVE  Spec => []ReachedIsListed
BY ChainInvAlways, PTL DEF ChainInv

LEMMA OneNonceEach == ChainInv => AtMostOnce
<1> SUFFICES ASSUME ChainInv, NEW i \in DOMAIN used, NEW j \in DOMAIN used,
                    used[i].sig.id = used[j].sig.id, used[i].sig.id # NoTx
             PROVE  i = j
  BY DEF AtMostOnce
<1>1. used[i].sig \in reached /\ used[j].sig \in reached
  BY DEF ChainInv, UsedInOrder
<1>2. used[i].sig.nonce = used[j].sig.nonce
  BY <1>1 DEF ChainInv, ReachedIsListed
<1>3. i \in Nat /\ j \in Nat
  BY LenProperties, SMTT(60) DEF ChainInv, StoreInv, TypeOK
<1> QED BY <1>2, <1>3 DEF ChainInv, UsedInOrder

\* No payload is executed twice, however often it is resent, replaced, given a
\* fresh nonce or reorged.
THEOREM ExecutedAtMostOnce ==
  ASSUME ~TriesTimeOut
  PROVE  Spec => []AtMostOnce
BY ChainInvAlways, OneNonceEach, PTL

(***************************************************************************)
(* The kinds of steps                                                      *)
(***************************************************************************)
SameHolder(old, new) == new.nonce = old.nonce /\ new.fills = old.fills

Writes(p, row) == proc[p].pc # "idle" /\ \E next : SaveTx(p, row, next)

\* A write after which the transaction is still under way.
PendingWrite(p) ==
  \E row : /\ Writes(p, row)
           /\ SameHolder(proc[p].view, row)
           /\ row.status \in Pending
           /\ row.status = "queued" => proc[p].view.status = "queued"
           /\ row.status = "mined" =>
                \/ proc[p].view.status = "mined" /\ row.mined = proc[p].view.mined
                \/ proc[p].pc = "mark" /\ row.mined = [n |-> proc[p].n, block |-> proc[p].block]

\* What the writes of a run keep of the row it holds.
LEMMA StatusKeeps ==
  ASSUME NEW row \in Row, NEW st \in Status
  PROVE  /\ SameHolder(row, WithStatus(row, st)) /\ WithStatus(row, st).status = st
         /\ WithStatus(row, st).mined = row.mined
BY DEF SameHolder, WithStatus, Row

LEMMA MarksKeep ==
  ASSUME NEW row \in Row, NEW i, NEW st \in Status
  PROVE  /\ SameHolder(row, MarkAccepted(row, i)) /\ MarkAccepted(row, i).status = row.status
         /\ SameHolder(row, MarkRefused(row, i)) /\ MarkRefused(row, i).status = row.status
         /\ MarkAccepted(row, i).mined = row.mined /\ MarkRefused(row, i).mined = row.mined
         /\ SameHolder(row, WithStatus(MarkAccepted(row, i), st))
         /\ WithStatus(MarkAccepted(row, i), st).status = st
         /\ SameHolder(row, WithStatus(MarkRefused(row, i), st))
         /\ WithStatus(MarkRefused(row, i), st).status = st
BY DEF SameHolder, MarkAccepted, MarkRefused, WithStatus, Row

LEMMA FieldsKeep ==
  ASSUME NEW row \in Row, NEW u, NEW s
  PROVE  /\ LET new == [row EXCEPT !.usedAt = u] IN
            SameHolder(row, new) /\ new.status = row.status /\ new.mined = row.mined
         /\ LET new == [row EXCEPT !.attempts = s] IN
            SameHolder(row, new) /\ new.status = row.status /\ new.mined = row.mined
         /\ LET new == [row EXCEPT !.status = "submitted", !.mined = u] IN
            SameHolder(row, new) /\ new.status = "submitted"
BY DEF SameHolder, Row

LEMMA PendingWriteIf ==
  ASSUME NEW p \in Procs, NEW row, Writes(p, row), SameHolder(proc[p].view, row),
         row.status \in Pending, row.status \in {proc[p].view.status, "mined"},
         \/ row.status # "mined"
         \/ row.status = proc[p].view.status /\ row.mined = proc[p].view.mined
         \/ proc[p].pc = "mark" /\ row.mined = [n |-> proc[p].n, block |-> proc[p].block]
  PROVE  PendingWrite(p)
BY DEF PendingWrite

LEMMA SweeperKind ==
  ASSUME StoreInv, NEW s \in Sweepers, SweeperNext(s)
  PROVE  /\ nextNonce' = nextNonce
         /\ \/ tx' = tx \/ PendingWrite(s)
            \/ SweepConfirmed(s) \/ ConfirmMined(s) \/ FailUsed(s)
<1> DEFINE view == proc[s].view
           n == proc[s].n
<1>0. nextNonce' = nextNonce
  BY DEF SweeperNext, SweepRead, SweepDone, ReadActive, Unpause, Requeue,
         SweepReorged, SweepConfirmed, SweepFound, MarkMined, ConfirmMined, StampUsed,
         WalkEmpty, FailUsed, NonceUnused, SaveProgress, Replace, Rebroadcast,
         RebroadcastTaken, RebroadcastUnderpriced, ReplaceTaken, ReplaceUnderpriced,
         SweepNoFunds, SweepTooLow, storeVars
<1>1. CASE \/ \E t \in Ids : SweepRead(s, t)
           \/ SweepDone(s) \/ ReadActive(s) \/ Unpause(s) \/ SweepFound(s) \/ WalkEmpty(s)
           \/ Rebroadcast(s) \/ SweepNoFunds(s) \/ SweepTooLow(s)
  BY <1>0, <1>1 DEF SweepRead, SweepDone, ReadActive, Unpause, SweepFound, WalkEmpty,
     Rebroadcast, SweepNoFunds, SweepTooLow, storeVars
<1>2. CASE Requeue(s) \/ SaveProgress(s) \/ RebroadcastUnderpriced(s)
  <2>1. tx' = tx \/ Writes(s, view)
    <3>1. CASE Requeue(s)
      BY <3>1 DEF Requeue, Writes
    <3>2. CASE SaveProgress(s)
      BY <3>2 DEF SaveProgress, Viewing, Writes
    <3>3. CASE RebroadcastUnderpriced(s)
      BY <3>3 DEF RebroadcastUnderpriced, Answered, Writes
    <3> QED BY <1>2, <3>1, <3>2, <3>3
  <2>2. CASE Writes(s, view)
    <3>1. view.status \in Pending
      BY <2>2, SweeperFacts DEF Writes, RunOK
    <3> QED BY <1>0, <2>2, <3>1, SignerIn, PendingWriteIf DEF SameHolder
  <2> QED BY <1>0, <2>1, <2>2
<1>3. CASE SweepConfirmed(s) \/ ConfirmMined(s) \/ FailUsed(s)
  BY <1>0, <1>3
<1>4. CASE SweepReorged(s)
  <2>1. view \in Row /\ proc[s].pc # "idle"
    BY <1>4, SweeperFacts DEF SweepReorged, Viewing
  <2> QED BY <1>0, <1>4, <2>1, FieldsKeep DEF SweepReorged, PendingWrite, Writes, Pending
<1>5. CASE StampUsed(s) \/ NonceUnused(s)
  <2>1. view \in Row /\ proc[s].pc # "idle" /\ view.status \in Pending
    BY <1>5, SweeperFacts DEF StampUsed, NonceUnused, Viewing, Pending
  <2>2. tx' = tx \/ \E u : Writes(s, [view EXCEPT !.usedAt = u])
    BY <1>5, <2>1 DEF StampUsed, NonceUnused, Writes
  <2>3. ASSUME NEW u, Writes(s, [view EXCEPT !.usedAt = u]) PROVE PendingWrite(s)
    <3> DEFINE row == [view EXCEPT !.usedAt = u]
    <3>1. SameHolder(view, row) /\ row.status = view.status /\ row.mined = view.mined
      BY <2>1, FieldsKeep
    <3> HIDE DEF row
    <3>2. Writes(s, row)
      BY <2>3 DEF row
    <3> QED BY <2>1, <3>1, <3>2, SignerIn, PendingWriteIf
  <2> QED BY <1>0, <2>2, <2>3
<1>6. CASE Replace(s)
  <2> DEFINE seq == Append(view.attempts, NewAttempt)
  <2>1. view \in Row /\ proc[s].pc # "idle" /\ view.status \in Pending
    BY <1>6, SweeperFacts DEF Replace, RunOK
  <2> DEFINE row == [view EXCEPT !.attempts = seq]
  <2>2. Writes(s, row)
    BY <1>6, <2>1 DEF Replace, Writes
  <2>3. SameHolder(view, row) /\ row.status = view.status /\ row.mined = view.mined
    BY <2>1, FieldsKeep
  <2> HIDE DEF row
  <2> QED BY <1>0, <2>1, <2>2, <2>3, SignerIn, PendingWriteIf
<1>7. CASE ReplaceTaken(s) \/ ReplaceUnderpriced(s)
  <2>1. view \in Row /\ proc[s].pc # "idle" /\ view.status \in Pending
    BY <1>7, SweeperFacts DEF ReplaceTaken, ReplaceUnderpriced, Answered, RunOK
  <2>2. Writes(s, MarkAccepted(view, n)) \/ Writes(s, MarkRefused(view, n))
    BY <1>7, <2>1 DEF ReplaceTaken, ReplaceUnderpriced, Writes
  <2>3. /\ SameHolder(view, MarkAccepted(view, n)) /\ MarkAccepted(view, n).status = view.status
        /\ SameHolder(view, MarkRefused(view, n)) /\ MarkRefused(view, n).status = view.status
        /\ MarkAccepted(view, n).mined = view.mined /\ MarkRefused(view, n).mined = view.mined
    BY <2>1, MarksKeep DEF Status
  <2> QED BY <1>0, <2>1, <2>2, <2>3, SignerIn, PendingWriteIf
<1>8. CASE RebroadcastTaken(s)
  <2> DEFINE a == [accepted |-> TRUE, refused |-> FALSE]
  <2>1. view \in Row /\ proc[s].pc # "idle" /\ view.status \in Pending
    BY <1>8, SweeperFacts DEF RebroadcastTaken, Answered, RunOK
  <2> DEFINE row == [view EXCEPT !.attempts[n] = a]
  <2>2. tx' = tx \/ Writes(s, row)
    BY <1>8, <2>1 DEF RebroadcastTaken, Writes
  <2>3. SameHolder(view, row) /\ row.status = view.status /\ row.mined = view.mined
    BY <2>1 DEF SameHolder, Row
  <2> HIDE DEF row
  <2> QED BY <1>0, <2>1, <2>2, <2>3, SignerIn, PendingWriteIf
<1>9. CASE MarkMined(s)
  <2> DEFINE m == [n |-> n, block |-> proc[s].block]
  <2>1. view \in Row /\ proc[s].pc = "mark"
    BY <1>9, SweeperFacts DEF MarkMined
  <2> DEFINE row == [MarkAccepted(view, n) EXCEPT !.status = "mined", !.usedAt = NoStamp, !.mined = m]
  <2>2. Writes(s, row)
    BY <1>9, <2>1 DEF MarkMined, Writes
  <2>3. SameHolder(view, row) /\ row.status = "mined" /\ row.mined = m
    BY <2>1 DEF SameHolder, MarkAccepted, Row
  <2> HIDE DEF row
  <2> QED BY <1>0, <2>1, <2>2, <2>3, SignerIn, PendingWriteIf DEF Pending
<1> QED BY <1>1, <1>2, <1>3, <1>4, <1>5, <1>6, <1>7, <1>8, <1>9 DEF SweeperNext

LEMMA SignerKind ==
  ASSUME StoreInv, SignerNext
  PROVE  \/ tx' = tx /\ (nextNonce' = nextNonce \/ RaiseNonce)
         \/ nextNonce' = nextNonce /\ PendingWrite(Signer)
         \/ FailDependent \/ AssignNonce \/ SignerDropNonce
<1> DEFINE view == proc[Signer].view
           n == proc[Signer].n
<1>1. CASE (\E t \in Ids : SignerSkip(t) \/ SignerTake(t)) \/ SignerNoFunds
  BY <1>1 DEF SignerSkip, SignerTake, SignerNoFunds
<1>2. CASE RaiseNonce
  BY <1>2 DEF RaiseNonce
<1>3. CASE SignAttempt
  <2> DEFINE seq == <<NewAttempt>>
             row == [view EXCEPT !.attempts = seq]
  <2>1. view \in Row /\ proc[Signer].pc # "idle" /\ view.status \in Pending
    BY <1>3, SignerFacts DEF SignAttempt, RunOK
  <2>2. Writes(Signer, row) /\ nextNonce' = nextNonce
    BY <1>3, <2>1 DEF SignAttempt, Writes
  <2>3. SameHolder(view, row) /\ row.status = view.status /\ row.mined = view.mined
    BY <2>1, FieldsKeep
  <2> HIDE DEF row
  <2> QED BY <2>1, <2>2, <2>3, SignerIn, PendingWriteIf
<1>4. CASE SignerSubmitted \/ SignerUnderpriced \/ SignerTooLowSubmitted
  <2>1. view \in Row /\ proc[Signer].pc # "idle" /\ nextNonce' = nextNonce
    BY <1>4, SignerFacts DEF SignerSubmitted, SignerUnderpriced, SignerTooLowSubmitted, Answered
  <2>2. \/ Writes(Signer, WithStatus(MarkAccepted(view, n), "submitted"))
        \/ Writes(Signer, WithStatus(MarkRefused(view, n), "submitted"))
        \/ Writes(Signer, WithStatus(view, "submitted"))
    BY <1>4, <2>1 DEF SignerSubmitted, SignerUnderpriced, SignerTooLowSubmitted, Writes
  <2> QED BY <2>1, <2>2, MarksKeep, StatusKeeps DEF PendingWrite, Pending, Status
<1> QED BY <1>1, <1>2, <1>3, <1>4 DEF SignerNext

LEMMA EitherKind ==
  ASSUME StoreInv, NEW p \in Procs, EitherNext(p)
  PROVE  /\ nextNonce' = nextNonce
         /\ tx' = tx \/ PendingWrite(p) \/ RefuseFiller(p) \/ FailWithFiller(p)
<1>1. CASE Send(p) \/ SendTimedOut(p) \/ Abort(p)
  BY <1>1 DEF Send, SendTimedOut, Abort, storeVars
<1>2. CASE RefuseMarked(p)
  <2>1. proc[p].view \in Row /\ proc[p].pc # "idle" /\ nextNonce' = nextNonce
    BY <1>2, RunFacts DEF RefuseMarked, Answered
  <2>2. Writes(p, WithStatus(MarkRefused(proc[p].view, proc[p].n), "submitted"))
    BY <1>2, <2>1 DEF RefuseMarked, Writes
  <2> QED BY <2>1, <2>2, MarksKeep DEF PendingWrite, Pending, Status
<1>3. CASE RefuseFiller(p) \/ FailWithFiller(p)
  BY <1>3 DEF RefuseFiller, FailWithFiller, SaveWithFiller
<1> QED BY <1>1, <1>2, <1>3 DEF EitherNext

\* A run that writes holds the row that is stored.
LEMMA WrittenRow ==
  ASSUME StoreInv, NEW p \in Procs, NEW row, Writes(p, row)
  PROVE  /\ proc[p].id \in Ids /\ tx[proc[p].id] = proc[p].view
         /\ proc[p].view \in Row /\ proc[p].view.status \in Pending
         /\ tx' = [tx EXCEPT ![proc[p].id] = row]
BY RunFacts DEF Writes, SaveTx, Related, RunOK

(***************************************************************************)
(* Who holds a nonce                                                       *)
(***************************************************************************)
HoldersInv ==
  /\ NonceHolders
  /\ \A t \in Ids : tx[t].nonce < nextNonce
  /\ \A t \in Payloads : tx[t].fills = NoTx

LEMMA HoldersKept ==
  ASSUME StoreInv, HoldersInv, nextNonce' >= nextNonce, nextNonce' \in Nat, SettledKept,
         \A t \in Ids : SameHolder(tx[t], tx'[t])
  PROVE  HoldersInv'
<1>1. \A t \in Ids : /\ tx'[t].nonce = tx[t].nonce /\ tx'[t].fills = tx[t].fills
                     /\ tx[t].status = "failed" => tx'[t].status = "failed"
  BY DEF SameHolder, SettledKept, Settled
<1>2. ASSUME NEW t \in Ids, NEW u \in Ids, t # u, tx'[t].nonce = tx'[u].nonce,
             tx'[t].nonce # NoNonce
      PROVE  \/ tx'[t].fills = u /\ tx'[u].status = "failed"
             \/ tx'[u].fills = t /\ tx'[t].status = "failed"
  <2>1. tx[t].nonce = tx[u].nonce /\ tx[t].nonce # NoNonce
    BY <1>1, <1>2
  <2>2. \/ tx[t].fills = u /\ tx[u].status = "failed"
        \/ tx[u].fills = t /\ tx[t].status = "failed"
    BY <1>2, <2>1 DEF HoldersInv, NonceHolders
  <2> QED BY <1>1, <2>2
<1>3. ASSUME NEW t \in Ids PROVE tx'[t].nonce < nextNonce'
  <2>1. tx[t].nonce \in Int /\ nextNonce \in Nat /\ tx[t].nonce < nextNonce
    BY <1>3 DEF HoldersInv, StoreInv, TypeOK, Row
  <2>2. tx'[t].nonce = tx[t].nonce
    BY <1>1
  <2> QED BY <2>1, <2>2
<1>4. \A t \in Payloads : tx'[t].fills = NoTx
  BY <1>1 DEF HoldersInv, Ids
<1> QED BY <1>2, <1>3, <1>4 DEF HoldersInv, NonceHolders

\* A write of a run over the row that it holds, with the nonce that it has.
LEMMA HoldersSame ==
  ASSUME StoreInv, HoldersInv, [Next]_vars, nextNonce' = nextNonce,
         NEW p \in Procs, NEW row, Writes(p, row), SameHolder(proc[p].view, row)
  PROVE  HoldersInv'
<1>1. \A t \in Ids : SameHolder(tx[t], tx'[t])
  BY WrittenRow DEF SameHolder, StoreInv, TypeOK
<1> QED BY <1>1, HoldersKept, SettledNext DEF StoreInv, TypeOK

LEMMA HoldersNext ==
  ASSUME StoreInv, HoldersInv, [Next]_vars
  PROVE  HoldersInv'
<1>0. /\ nextNonce \in Nat /\ tx \in [Ids -> Row] /\ SettledKept /\ Signer \in Procs
      /\ \A t \in Ids : tx[t].nonce \in Int
  BY SettledNext, SignerIn DEF StoreInv, TypeOK, Row
<1>1. CASE tx' = tx /\ nextNonce' = nextNonce
  BY <1>0, <1>1, HoldersKept DEF SameHolder
<1>2. CASE RaiseNonce
  <2>1. nextNonce' \in Nat /\ nextNonce' >= nextNonce /\ tx' = tx
    BY <1>0, <1>2, PendingReadsNat DEF RaiseNonce
  <2> QED BY <1>0, <2>1, HoldersKept DEF SameHolder
<1>3. CASE nextNonce' = nextNonce /\ \E p \in Procs : PendingWrite(p)
  BY <1>3, HoldersSame DEF PendingWrite
<1>4. CASE \E p \in Procs : FailDependent \/ RefuseFiller(p)
  <2>1. PICK p \in Procs : (FailDependent /\ p = Signer) \/ RefuseFiller(p)
    BY <1>0, <1>4
  <2>2. proc[p].pc # "idle" /\ proc[p].view \in Row /\ nextNonce' = nextNonce
    BY <2>1, RunFacts DEF FailDependent, RefuseFiller, Answered
  <2>3. \/ Writes(p, WithStatus(proc[p].view, "failed"))
        \/ Writes(p, WithStatus(MarkRefused(proc[p].view, proc[p].n), "failed"))
    BY <2>1, <2>2 DEF FailDependent, RefuseFiller, Writes
  <2>4. /\ SameHolder(proc[p].view, WithStatus(proc[p].view, "failed"))
        /\ SameHolder(proc[p].view, WithStatus(MarkRefused(proc[p].view, proc[p].n), "failed"))
    BY <2>2, StatusKeeps, MarksKeep DEF Status
  <2> QED BY <2>2, <2>3, <2>4, HoldersSame
<1>5. CASE \E s \in Sweepers : nextNonce' = nextNonce /\ (SweepConfirmed(s) \/ ConfirmMined(s) \/ FailUsed(s))
  <2>1. PICK s \in Sweepers : nextNonce' = nextNonce /\ (SweepConfirmed(s) \/ ConfirmMined(s) \/ FailUsed(s))
    BY <1>5
  <2>2. proc[s].pc # "idle" /\ s \in Procs /\ proc[s].view \in Row
    BY <2>1, SweeperFacts DEF SweepConfirmed, ConfirmMined, FailUsed, Viewing
  <2>3. \E st \in Status : Writes(s, WithStatus(proc[s].view, st))
    BY <2>1, <2>2 DEF SweepConfirmed, ConfirmMined, FailUsed, Writes, Status
  <2> QED BY <2>1, <2>2, <2>3, StatusKeeps, HoldersSame
<1>6. CASE AssignNonce
  <2> DEFINE t == proc[Signer].id
             row == [proc[Signer].view EXCEPT !.nonce = nextNonce]
  <2>1. /\ Writes(Signer, row) /\ nextNonce' = nextNonce + 1 /\ proc[Signer].view.nonce = NoNonce
    BY <1>6, SignerFacts DEF AssignNonce, Writes
  <2>2. /\ tx' = [tx EXCEPT ![t] = row] /\ t \in Ids /\ tx[t] = proc[Signer].view
        /\ tx[t].status \in Pending
    BY <1>0, <2>1, WrittenRow
  <2>3. row.nonce = nextNonce /\ row.fills = tx[t].fills /\ row.status = tx[t].status
    BY <1>0, <2>2 DEF Row
  <2> HIDE DEF row, t
  <2>4. /\ tx'[t].nonce = nextNonce /\ tx'[t].fills = tx[t].fills /\ tx'[t].status = tx[t].status
        /\ \A u \in Ids : u # t => tx'[u] = tx[u]
    BY <1>0, <2>2, <2>3
  <2>5. ASSUME NEW a \in Ids, NEW b \in Ids, a # b, tx'[a].nonce = tx'[b].nonce,
               tx'[a].nonce # NoNonce
        PROVE  \/ tx'[a].fills = b /\ tx'[b].status = "failed"
               \/ tx'[b].fills = a /\ tx'[a].status = "failed"
    <3>1. a # t /\ b # t
      BY <1>0, <2>4, <2>5 DEF HoldersInv
    <3> QED BY <2>4, <2>5, <3>1 DEF HoldersInv, NonceHolders
  <2>6. \A u \in Ids : tx'[u].nonce < nextNonce'
    BY <1>0, <2>1, <2>4 DEF HoldersInv
  <2>7. \A u \in Payloads : tx'[u].fills = NoTx
    BY <2>4 DEF HoldersInv, Ids
  <2> QED BY <2>5, <2>6, <2>7 DEF HoldersInv, NonceHolders
<1>7. CASE SignerDropNonce
  <2> DEFINE t == proc[Signer].id
             row == [proc[Signer].view EXCEPT !.nonce = NoNonce, !.attempts = << >>]
  <2>1. Writes(Signer, row) /\ nextNonce' = nextNonce
    BY <1>7 DEF SignerDropNonce, Writes, Answered
  <2>2. /\ tx' = [tx EXCEPT ![t] = row] /\ t \in Ids /\ tx[t] = proc[Signer].view
        /\ tx[t].status \in Pending
    BY <1>0, <2>1, WrittenRow
  <2>3. row.nonce = NoNonce /\ row.fills = tx[t].fills /\ row.status = tx[t].status
    BY <1>0, <2>2 DEF Row
  <2> HIDE DEF row, t
  <2>4. /\ tx'[t].nonce = NoNonce /\ tx'[t].fills = tx[t].fills /\ tx'[t].status = tx[t].status
        /\ \A u \in Ids : u # t => tx'[u] = tx[u]
    BY <1>0, <2>2, <2>3
  <2>5. NonceHolders'
    BY <2>4 DEF HoldersInv, NonceHolders
  <2>6. \A u \in Ids : tx'[u].nonce < nextNonce'
    BY <1>0, <2>1, <2>4 DEF HoldersInv, NoNonce
  <2>7. \A u \in Payloads : tx'[u].fills = NoTx
    BY <2>4 DEF HoldersInv, Ids
  <2> QED BY <2>5, <2>6, <2>7 DEF HoldersInv
<1>8. CASE \E p \in Procs : FailWithFiller(p)
  <2>1. PICK p \in Procs : FailWithFiller(p)
    BY <1>8
  <2> DEFINE t == proc[p].id
             row == WithStatus(MarkRefused(proc[p].view, proc[p].n), "failed")
             filler == [NoRow EXCEPT !.status = "queued", !.nonce = row.nonce, !.fills = t]
  <2>2. /\ tx[t] = proc[p].view /\ t \in Payloads /\ proc[p].view \in Row
        /\ tx[t].status \in Pending /\ nextNonce' = nextNonce
    BY <2>1, RunFacts DEF FailWithFiller, SaveWithFiller, Answered, RunOK, Related
  <2>3. PICK f \in Fillers : tx[f].status = "none" /\ tx' = [tx EXCEPT ![t] = row, ![f] = filler]
    BY <2>1 DEF FailWithFiller, SaveWithFiller
  <2>4. row.nonce = tx[t].nonce /\ row.fills = tx[t].fills /\ row.status = "failed"
    BY <2>2, MarksKeep DEF SameHolder, Status
  <2>5. filler.nonce = tx[t].nonce /\ filler.fills = t
    BY <2>4 DEF NoRow
  <2>6. t \in Ids /\ f \in Ids /\ t # f /\ tx[f].nonce = NoNonce
    BY <2>2, <2>3, IdsAssumption DEF Ids, StoreInv, RowsOK, RowOK
  <2> HIDE DEF row, t, filler
  <2>7. /\ tx'[t].nonce = tx[t].nonce /\ tx'[t].fills = tx[t].fills /\ tx'[t].status = "failed"
        /\ tx'[f].nonce = tx[t].nonce /\ tx'[f].fills = t
        /\ \A u \in Ids : u # t /\ u # f => tx'[u] = tx[u]
    BY <1>0, <2>3, <2>4, <2>5, <2>6
  <2>8. ASSUME NEW u \in Ids, u # t, tx[u].nonce = tx[t].nonce, tx[t].nonce # NoNonce
        PROVE  FALSE
    <3>1. \/ tx[u].fills = t /\ tx[t].status = "failed"
          \/ tx[t].fills = u /\ tx[u].status = "failed"
      BY <2>6, <2>8 DEF HoldersInv, NonceHolders
    <3>2. tx[t].fills = NoTx /\ NoTx \notin Ids
      BY <2>2, IdsAssumption DEF HoldersInv
    <3> QED BY <2>2, <2>8, <3>1, <3>2 DEF Pending
  <2>9. NonceHolders'
    <3>1. ASSUME NEW a \in Ids, NEW b \in Ids, a # b, tx'[a].nonce = tx'[b].nonce,
                 tx'[a].nonce # NoNonce
          PROVE  \/ tx'[a].fills = b /\ tx'[b].status = "failed"
                 \/ tx'[b].fills = a /\ tx'[a].status = "failed"
      <4>1. CASE a \notin {t, f} /\ b \notin {t, f}
        BY <2>7, <3>1, <4>1 DEF HoldersInv, NonceHolders
      <4>2. CASE a \in {t, f} /\ b \in {t, f}
        BY <2>7, <3>1, <4>2
      <4>3. CASE a \in {t, f} /\ b \notin {t, f}
        BY <2>7, <2>8, <3>1, <4>3
      <4>4. CASE a \notin {t, f} /\ b \in {t, f}
        BY <2>7, <2>8, <3>1, <4>4
      <4> QED BY <4>1, <4>2, <4>3, <4>4
    <3> QED BY <3>1 DEF NonceHolders
  <2>10. \A u \in Ids : tx'[u].nonce < nextNonce'
    BY <2>2, <2>6, <2>7 DEF HoldersInv
  <2>11. \A u \in Payloads : tx'[u].fills = NoTx
    BY <2>3, <2>6, <2>7, IdsAssumption, ZenonT(60) DEF HoldersInv, Ids
  <2> QED BY <2>9, <2>10, <2>11 DEF HoldersInv
<1>9. CASE \E t \in Payloads : Submit(t)
  <2>1. PICK t \in Payloads : Submit(t)
    BY <1>9
  <2>2. /\ t \in Ids /\ tx[t].nonce = NoNonce /\ nextNonce' = nextNonce
        /\ tx' = [tx EXCEPT ![t] = WithStatus(NoRow, "queued")]
    BY <2>1 DEF Submit, Ids, StoreInv, RowsOK, RowOK
  <2>3. WithStatus(NoRow, "queued").nonce = NoNonce /\ WithStatus(NoRow, "queued").fills = NoTx
    BY DEF WithStatus, NoRow
  <2>4. \A u \in Ids : SameHolder(tx[u], tx'[u])
    BY <1>0, <2>1, <2>2, <2>3 DEF SameHolder, HoldersInv
  <2> QED BY <1>0, <2>2, <2>4, HoldersKept
<1>10. CASE ChainNext \/ UNCHANGED vars
  BY <1>1, <1>10 DEF ChainNext, EmptyBlock, MineNonce, ForeignSend, Reorg, storeVars, vars
<1>11. CASE SignerNext
  BY <1>0, <1>1, <1>2, <1>3, <1>4, <1>6, <1>7, <1>11, SignerKind
<1>12. ASSUME NEW s \in Sweepers, SweeperNext(s) PROVE HoldersInv'
  BY <1>1, <1>3, <1>5, <1>12, SweeperKind, SignerIn
<1>13. ASSUME NEW p \in Procs, EitherNext(p) PROVE HoldersInv'
  BY <1>1, <1>3, <1>4, <1>8, <1>13, EitherKind
<1> QED BY <1>9, <1>10, <1>11, <1>12, <1>13 DEF Next

\* Two transactions never hold one nonce, but for a failed one and the filler it
\* left its nonce to: the counter and the row change in one store transaction.
THEOREM OneHolderEach == Spec => []NonceHolders
<1>1. Init => HoldersInv
  BY DEF Init, HoldersInv, NonceHolders, NoRow, NoNonce, Ids
<1>2. StoreInv /\ HoldersInv /\ [Next]_vars => HoldersInv'
  BY HoldersNext
<1>3. HoldersInv => NonceHolders
  BY DEF HoldersInv
<1> QED BY <1>1, <1>2, <1>3, StoreInvAlways, PTL DEF Spec

(***************************************************************************)
(* The counter is above every nonce the relayer ever sent at               *)
(***************************************************************************)
NoncesBelow == HoldersInv /\ \A sig \in reached : sig.nonce < nextNonce

LEMMA NoncesBelowNext ==
  ASSUME StoreInv, NoncesBelow, [Next]_vars
  PROVE  NoncesBelow'
<1>1. /\ HoldersInv' /\ nextNonce \in Nat /\ nextNonce' \in Nat /\ PendingReads \subseteq Nat
      /\ \A sig \in reached : sig.nonce \in Nat
  BY HoldersNext, StoreInvNext, PendingReadsNat DEF NoncesBelow, StoreInv, TypeOK, Signature
<1>2. CASE reached' = reached /\ nextNonce' >= nextNonce
  BY <1>1, <1>2 DEF NoncesBelow
<1>3. ASSUME NEW p \in Procs, nextNonce' = nextNonce, proc[p].pc = "send",
             reached' \subseteq reached \cup {Sig(proc[p].id, proc[p].view, proc[p].n)}
      PROVE  NoncesBelow'
  <2>1. proc[p].id \in Ids /\ proc[p].view.nonce = tx[proc[p].id].nonce
    BY <1>3, RunFacts, SignerIn DEF RunOK, Related, SweeperPC, SentSince, Procs
  <2>2. Sig(proc[p].id, proc[p].view, proc[p].n).nonce < nextNonce
    BY <2>1 DEF NoncesBelow, HoldersInv, Sig
  <2> QED BY <1>1, <1>3, <2>2 DEF NoncesBelow
<1>4. ASSUME NEW s \in Sweepers, SweeperNext(s)
      PROVE  UNCHANGED <<reached, nextNonce>>
  BY <1>4 DEF SweeperNext, SweepRead, SweepDone, ReadActive, Unpause, Requeue, SweepReorged,
     SweepConfirmed, SweepFound, MarkMined, ConfirmMined, StampUsed, WalkEmpty, FailUsed,
     NonceUnused, SaveProgress, Replace, Rebroadcast, RebroadcastTaken,
     RebroadcastUnderpriced, ReplaceTaken, ReplaceUnderpriced, SweepNoFunds, SweepTooLow,
     chainVars, storeVars
<1>5. ASSUME NEW p \in Procs, EitherNext(p)
      PROVE  NoncesBelow'
  <2>1. CASE Send(p) \/ SendTimedOut(p)
    BY <1>3, <2>1 DEF Send, SendTimedOut, storeVars
  <2>2. CASE RefuseMarked(p) \/ RefuseFiller(p) \/ FailWithFiller(p) \/ Abort(p)
    BY <1>1, <1>2, <2>2 DEF RefuseMarked, RefuseFiller, FailWithFiller, Abort, chainVars
  <2> QED BY <1>5, <2>1, <2>2 DEF EitherNext
<1>6. CASE SignerNext
  <2>1. CASE RaiseNonce
    <3>1. reached' = reached
      BY <2>1 DEF RaiseNonce, chainVars
    <3>2. \E n \in PendingReads : nextNonce' = IF n > nextNonce THEN n ELSE nextNonce
      BY <2>1 DEF RaiseNonce
    <3>3. nextNonce' >= nextNonce
      BY <1>1, <3>2
    <3> QED BY <1>2, <3>1, <3>3
  <2>2. CASE AssignNonce
    <3>1. reached' = reached
      BY <2>2 DEF AssignNonce, chainVars
    <3>2. nextNonce' = nextNonce + 1
      BY <2>2 DEF AssignNonce
    <3>3. nextNonce' >= nextNonce
      BY <1>1, <3>2
    <3> QED BY <1>2, <3>1, <3>3
  <2>3. CASE SignerNext /\ ~RaiseNonce /\ ~AssignNonce
    <3>1. reached' = reached /\ nextNonce' = nextNonce
      BY <2>3 DEF SignerNext, SignerSkip, SignerTake, FailDependent, SignAttempt,
         SignerSubmitted, SignerUnderpriced, SignerNoFunds, SignerTooLowSubmitted,
         SignerDropNonce, chainVars
    <3> QED BY <1>1, <1>2, <3>1
  <2> QED BY <1>6, <2>1, <2>2, <2>3
<1>7. CASE (\E t \in Payloads : Submit(t)) \/ ChainNext \/ UNCHANGED vars
  BY <1>1, <1>2, <1>7 DEF Submit, ChainNext, EmptyBlock, MineNonce, ForeignSend, Reorg, storeVars,
     chainVars, vars
<1> QED BY <1>1, <1>2, <1>4, <1>5, <1>6, <1>7 DEF Next

(***************************************************************************)
(* What the runs know of the chain and of the dependencies                 *)
(***************************************************************************)
OnChain(sig, block, chain) ==
  /\ sig.nonce \in 0 .. Len(chain) - 1
  /\ chain[sig.nonce + 1].sig = sig
  /\ chain[sig.nonce + 1].block = block

\* A row's mined signature is on `chain`, at a depth that the head `h` confirms.
DeepOnChain(t, row, h, chain) ==
  /\ OnChain(Sig(t, row, row.mined.n), row.mined.block, chain)
  /\ Deep(row.mined.block, h)

Ready(t) == HasDependency(t) => DependencyState(DependsOn[t]) = "ready"

BlocksInOrder ==
  /\ \A i \in DOMAIN used : used[i].block \in 1 .. head
  /\ \A i, j \in DOMAIN used : i <= j => used[i].block <= used[j].block
  /\ Len(used) <= usedMax

\* A run's reads stay true of a chain that other runs and reorgs change.
Knows(q) ==
  /\ q.head <= head
  /\ q.pc = "mark" =>
       /\ q.block > 0
       /\ Deep(q.block, q.head) => OnChain(Sig(q.id, q.view, q.n), q.block, used)
  /\ q.pc = "confirm" => DeepOnChain(q.id, q.view, q.head, used)
  /\ q.pc = "dead-end" => q.view.nonce = NoNonce
  /\ q.pc = "fail" \/ (q.pc = "answered" /\ q.answer = "too-low") => q.view.nonce < usedMax
  /\ q.pc = "nonce" => Ready(q.id)

RunsKnow == \A p \in Procs : Knows(proc[p])

RowsKnown ==
  \A t \in Ids :
    /\ tx[t].status = "mined" => tx[t].mined.block > 0
    /\ tx[t].status = "confirmed" => DeepOnChain(t, tx[t], head, used)
    /\ tx[t].nonce # NoNonce => Ready(t)

KnownInv == BlocksInOrder /\ RunsKnow /\ RowsKnown /\ NoNonceGap /\ NoncesBelow

(***************************************************************************)
(* What a step keeps of the chain                                          *)
(***************************************************************************)
ChainKept ==
  /\ head <= head' /\ usedMax <= usedMax' /\ foreign \subseteq foreign'
  /\ \A m \in DOMAIN used :
       Deep(used[m].block, head) => m \in DOMAIN used' /\ used'[m] = used[m]

LEMMA DeepLater ==
  ASSUME NEW b \in Int, NEW h \in Int, NEW c \in Int, NEW k \in Int,
         b <= c, k <= h, Deep(c, k)
  PROVE  Deep(b, h)
<1>1. Confirmations \in Int
  BY BoundsAssumption
<1> QED BY <1>1 DEF Deep

LEMMA BlocksNext ==
  ASSUME StoreInv, BlocksInOrder, [Next]_vars
  PROVE  ChainKept /\ BlocksInOrder'
<1> DEFINE Used == [sig : [id : Ids \cup {NoTx}, nonce : Nat, n : Nat], block : Nat]
<1>1. /\ used \in Seq(Used) /\ Len(used) \in Nat /\ head \in Nat /\ usedMax \in Nat
      /\ reached \subseteq Signature /\ foreign \subseteq Nat /\ DOMAIN used = 1 .. Len(used)
  BY LenProperties DEF StoreInv, TypeOK
<1>2. CASE UNCHANGED <<head, used, usedMax>> /\ foreign \subseteq foreign'
  BY <1>1, <1>2 DEF ChainKept, BlocksInOrder
<1>3. CASE EmptyBlock
  <2>1. head' = head + 1 /\ used' = used /\ usedMax' = usedMax /\ foreign' = foreign
    BY <1>3 DEF EmptyBlock
  <2>2. \A i \in DOMAIN used : used[i].block \in 1 .. head'
    BY <1>1, <2>1, SMTT(60) DEF BlocksInOrder
  <2> QED BY <1>1, <2>1, <2>2 DEF ChainKept, BlocksInOrder
<1>4. CASE MineNonce
  <2>1. PICK sig \in reached \cup {Foreign(n) : n \in foreign} :
          used' = Append(used, [sig |-> sig, block |-> head + 1])
    BY <1>4 DEF MineNonce
  <2> DEFINE new == [sig |-> sig, block |-> head + 1]
  <2>2. new \in Used
    BY <1>1 DEF Foreign, Signature
  <2>3. new.block = head + 1 /\ used' = Append(used, new)
    BY <2>1
  <2> HIDE DEF new
  <2>4. /\ Len(used') = Len(used) + 1 /\ DOMAIN used' = 1 .. Len(used) + 1
        /\ \A i \in 1 .. Len(used) : used'[i] = used[i]
        /\ used'[Len(used) + 1] = new
    BY <1>1, <2>2, <2>3, AppendProperties, LenProperties
  <2>5. /\ head' = head + 1 /\ usedMax' = IF Len(used') > usedMax THEN Len(used') ELSE usedMax
        /\ foreign' = foreign
    BY <1>4 DEF MineNonce
  <2>6. ChainKept
    BY <1>1, <2>4, <2>5 DEF ChainKept
  <2>7. \A i \in DOMAIN used' : used'[i].block \in 1 .. head'
    BY <1>1, <2>3, <2>4, <2>5, SMTT(60) DEF BlocksInOrder
  <2>8. ASSUME NEW i \in DOMAIN used', NEW j \in DOMAIN used', i <= j
        PROVE  used'[i].block <= used'[j].block
    <3>1. CASE j = Len(used) + 1
      <4>1. used'[i].block \in 1 .. head + 1
        BY <2>5, <2>7
      <4> QED BY <1>1, <2>3, <2>4, <3>1, <4>1
    <3>2. CASE j # Len(used) + 1
      <4>1. i \in 1 .. Len(used) /\ j \in 1 .. Len(used)
        BY <1>1, <2>4, <2>8, <3>2, SMTT(60)
      <4> QED BY <1>1, <2>4, <2>8, <4>1 DEF BlocksInOrder
    <3> QED BY <3>1, <3>2
  <2>9. Len(used') <= usedMax'
    BY <1>1, <2>4, <2>5
  <2> QED BY <2>6, <2>7, <2>8, <2>9 DEF BlocksInOrder
<1>5. CASE Reorg
  <2>1. PICK m \in 0 .. Len(used) - 1 :
          ~Deep(used[m + 1].block, head) /\ used' = SubSeq(used, 1, m)
    BY <1>5 DEF Reorg
  <2>2. UNCHANGED <<head, usedMax, foreign>>
    BY <1>5 DEF Reorg
  <2>3. ASSUME NEW k \in 1 .. m PROVE k \in DOMAIN used /\ used[k] \in Used
    <3>1. k \in 1 .. Len(used)
      BY <1>1, <2>1
    <3> QED BY <1>1, <3>1, ElementOfSeq
  <2>4. /\ DOMAIN used' = 1 .. m /\ Len(used') = m
        /\ \A k \in 1 .. m : used'[k] = used[k] /\ k \in DOMAIN used
    <3>1. used \in Seq(Used) /\ 1 \in Nat /\ m \in Nat /\ used' = SubSeq(used, 1, m)
      BY <1>1, <2>1
    <3>2. used' \in Seq(Used) /\ Len(used') = m /\ \A k \in 1 .. m : used'[k] = used[k]
      BY <1>1, <2>3, <3>1, SubSeqProperties
    <3> QED BY <2>3, <3>2, LenProperties
  <2>5. ASSUME NEW k \in DOMAIN used, Deep(used[k].block, head)
        PROVE  k \in 1 .. m
    <3>1. m + 1 \in DOMAIN used /\ k \in Nat /\ m \in Nat
      BY <1>1, <2>1
    <3>2. used[k].block \in Int /\ used[m + 1].block \in Int
      BY <3>1 DEF BlocksInOrder
    <3>3. m + 1 <= k => used[m + 1].block <= used[k].block
      BY <3>1 DEF BlocksInOrder
    <3>4. ~(used[m + 1].block <= used[k].block)
      BY <1>1, <2>1, <2>5, <3>2, DeepLater, SMTT(60)
    <3>5. ~(m + 1 <= k)
      BY <3>3, <3>4
    <3> QED BY <1>1, <3>1, <3>5
  <2>6. ChainKept
    BY <1>1, <2>2, <2>4, <2>5 DEF ChainKept
  <2>7. m <= usedMax
    BY <1>1, <2>1 DEF BlocksInOrder
  <2> QED BY <2>2, <2>4, <2>6, <2>7 DEF BlocksInOrder
<1>6. ASSUME NEW s \in Sweepers, SweeperNext(s)
      PROVE  UNCHANGED <<head, used, usedMax, foreign>>
  BY <1>6 DEF SweeperNext, SweepRead, SweepDone, ReadActive, Unpause, Requeue, SweepReorged,
     SweepConfirmed, SweepFound, MarkMined, ConfirmMined, StampUsed, WalkEmpty, FailUsed,
     NonceUnused, SaveProgress, Replace, Rebroadcast, RebroadcastTaken,
     RebroadcastUnderpriced, ReplaceTaken, ReplaceUnderpriced, SweepNoFunds, SweepTooLow,
     chainVars
<1>7. ASSUME NEW p \in Procs, EitherNext(p)
      PROVE  UNCHANGED <<head, used, usedMax, foreign>>
  BY <1>7 DEF EitherNext, Send, SendTimedOut, RefuseMarked, RefuseFiller, FailWithFiller, SaveWithFiller,
     Abort, chainVars
<1>8. CASE SignerNext
  BY <1>2, <1>8 DEF SignerNext, SignerSkip, SignerTake, FailDependent, RaiseNonce,
     AssignNonce, SignAttempt, SignerSubmitted, SignerUnderpriced, SignerNoFunds,
     SignerTooLowSubmitted, SignerDropNonce, chainVars
<1>9. CASE (\E t \in Payloads : Submit(t)) \/ UNCHANGED vars
  BY <1>2, <1>9 DEF Submit, chainVars, vars
<1>10. CASE ForeignSend
  BY <1>2, <1>10 DEF ForeignSend
<1> QED BY <1>2, <1>3, <1>4, <1>5, <1>6, <1>7, <1>8, <1>9, <1>10 DEF Next, ChainNext


\* What is deep enough stays where it is, and what it says of itself stays true.
LEMMA DeepKept ==
  ASSUME StoreInv, StoreInv', BlocksInOrder, ChainKept, NEW sig, NEW b, NEW h \in Nat,
         h <= head, OnChain(sig, b, used), Deep(b, h)
  PROVE  OnChain(sig, b, used') /\ Deep(b, head) /\ Deep(b, head')
<1>1. /\ DOMAIN used = 1 .. Len(used) /\ DOMAIN used' = 1 .. Len(used')
      /\ Len(used) \in Nat /\ Len(used') \in Nat /\ head \in Nat /\ head' \in Nat
  BY LenProperties DEF StoreInv, TypeOK
<1>2. sig.nonce + 1 \in DOMAIN used /\ b \in Nat
  BY <1>1 DEF OnChain, BlocksInOrder
<1>3. Deep(b, head) /\ Deep(b, head')
  <2>1. head <= head' /\ h <= head'
    BY <1>1 DEF ChainKept
  <2> QED BY <1>1, <1>2, <2>1, DeepLater
<1>4. sig.nonce + 1 \in DOMAIN used' /\ used'[sig.nonce + 1] = used[sig.nonce + 1]
  BY <1>2, <1>3 DEF OnChain, ChainKept
<1>5. sig.nonce \in 0 .. Len(used') - 1
  BY <1>1, <1>2, <1>4 DEF OnChain
<1> QED BY <1>3, <1>4, <1>5 DEF OnChain

\* A dependency that is ready stays so.
LEMMA ReadyKept ==
  ASSUME SettledKept, NEW t, Ready(t)
  PROVE  Ready(t)'
<1>1. HasDependency(t) => DependsOn[t] \in Payloads
  BY IdsAssumption DEF HasDependency
<1> QED BY <1>1 DEF Ready, HasDependency, DependencyState, SettledKept, Settled, Ids

(***************************************************************************)
(* What a run knows stays true                                             *)
(***************************************************************************)
\* The run is as it was, but for its freshness.
OtherRun(p) == proc'[p] = proc[p] \/ proc'[p] = [proc[p] EXCEPT !.fresh = FALSE]

\* A run that claims nothing but that its head was read.
Plain(q) ==
  /\ q.head <= head
  /\ q.pc \notin {"mark", "confirm", "dead-end", "fail", "nonce"}
  /\ ~(q.pc = "answered" /\ q.answer = "too-low")

Kept == StoreInv /\ StoreInv' /\ KnownInv /\ ChainKept /\ SettledKept

LEMMA KnowsKept ==
  ASSUME Kept, NEW p \in Procs, OtherRun(p)
  PROVE  Knows(proc[p])'
<1> DEFINE q == proc[p]
           r == proc'[p]
<1>1. /\ q \in Proc /\ q.head \in Nat /\ q.view \in Row /\ Knows(q)
      /\ head \in Nat /\ head' \in Nat /\ usedMax \in Nat /\ usedMax' \in Nat
      /\ q.view.nonce \in Int
  BY DEF Kept, StoreInv, TypeOK, Proc, Row, KnownInv, RunsKnow
<1>2. /\ r.pc = q.pc /\ r.id = q.id /\ r.view = q.view /\ r.n = q.n /\ r.head = q.head
      /\ r.block = q.block /\ r.answer = q.answer
  BY <1>1 DEF OtherRun, Proc
<1>3. q.head <= head /\ q.head <= head' /\ usedMax <= usedMax'
  BY <1>1 DEF Knows, ChainKept, Kept
<1>4. ASSUME q.pc = "mark", Deep(q.block, q.head)
      PROVE  OnChain(Sig(q.id, q.view, q.n), q.block, used')
  BY <1>1, <1>3, <1>4, DeepKept DEF Knows, Kept, KnownInv
<1>5. ASSUME q.pc = "confirm"
      PROVE  DeepOnChain(q.id, q.view, q.head, used')
  BY <1>1, <1>3, <1>5, DeepKept DEF Knows, Kept, KnownInv, DeepOnChain
<1>6. ASSUME q.pc = "fail" \/ (q.pc = "answered" /\ q.answer = "too-low")
      PROVE  q.view.nonce < usedMax'
  <2>1. q.view.nonce < usedMax
    BY <1>1, <1>6 DEF Knows
  <2> QED BY <1>1, <1>3, <2>1
<1>7. ASSUME q.pc = "nonce" PROVE Ready(q.id)'
  <2>1. Ready(q.id)
    BY <1>1, <1>7 DEF Knows
  <2>2. HasDependency(q.id) => DependsOn[q.id] \in Ids
    BY IdsAssumption DEF HasDependency, Ids
  <2>3. HasDependency(r.id) => tx'[DependsOn[r.id]] = tx[DependsOn[r.id]]
    BY <1>2, <2>1, <2>2 DEF Ready, DependencyState, Kept, SettledKept, Settled
  <2> QED BY <1>2, <2>1, <2>3 DEF Ready, DependencyState, HasDependency
<1> QED BY <1>1, <1>2, <1>3, <1>4, <1>5, <1>6, <1>7 DEF Knows, Ready, HasDependency, DependencyState

LEMMA RunStep ==
  ASSUME Kept, NEW p \in Procs, \A q \in Procs \ {p} : OtherRun(q), Knows(proc[p])'
  PROVE  RunsKnow'
BY KnowsKept DEF RunsKnow

LEMMA PlainStep ==
  ASSUME Kept, NEW p \in Procs, \A q \in Procs \ {p} : OtherRun(q), Plain(proc[p])'
  PROVE  RunsKnow'
BY RunStep DEF Plain, Knows

LEMMA SaveOthers ==
  ASSUME NEW p \in Procs, NEW row, NEW next, SaveTx(p, row, next)
  PROVE  proc'[p] = next /\ \A q \in Procs \ {p} : OtherRun(q)
BY DEF SaveTx, OtherRun

\* The run's next state, and that no other run is touched.
Turns(p, next) == proc'[p] = next /\ \A q \in Procs \ {p} : OtherRun(q)

LEMMA IdlePlain ==
  ASSUME Kept, NEW p \in Procs, Turns(p, Idle)
  PROVE  RunsKnow'
<1>1. head' \in Nat /\ Idle.head = 0 /\ Idle.pc = "idle"
  BY DEF Kept, StoreInv, TypeOK, Idle
<1> QED BY <1>1, PlainStep DEF Turns, Plain

\* The runs stay as they are.
LEMMA NoRunStep ==
  ASSUME Kept, proc' = proc
  PROVE  RunsKnow'
BY KnowsKept DEF OtherRun, RunsKnow

(***************************************************************************)
(* The runs of sweepers                                                    *)
(***************************************************************************)
\* A run goes on with what it had, at another place.
LEMMA OnwardPlain ==
  ASSUME Kept, NEW p \in Procs, NEW next, Turns(p, next), next.head = proc[p].head,
         next.pc \notin {"mark", "confirm", "dead-end", "fail", "nonce"},
         ~(next.pc = "answered" /\ next.answer = "too-low")
  PROVE  RunsKnow'
<1>1. proc[p].head \in Nat /\ proc[p].head <= head /\ head \in Nat /\ head' \in Nat /\ head <= head'
  BY DEF Kept, StoreInv, TypeOK, Proc, KnownInv, RunsKnow, Knows, ChainKept
<1>2. next.head <= head'
  BY <1>1
<1> QED BY <1>2, PlainStep DEF Turns, Plain

LEMMA SweeperRuns ==
  ASSUME Kept, NEW s \in Sweepers, SweeperNext(s)
  PROVE  RunsKnow'
<1> DEFINE q == proc[s]
           view == proc[s].view
<1>0. /\ s \in Procs /\ q \in Proc /\ proc \in [Procs -> Proc] /\ view \in Row /\ Knows(q)
      /\ StoreInv
  BY SignerIn DEF Kept, StoreInv, TypeOK, Proc, KnownInv, RunsKnow
<1>1. CASE \E t \in Ids : SweepRead(s, t)
  <2>1. PICK t \in Ids, h \in 1 .. head :
          proc' = [proc EXCEPT ![s] = [Idle EXCEPT !.pc = "view", !.id = t, !.view = tx[t],
                                                   !.fresh = TRUE, !.head = h]]
    BY <1>1 DEF SweepRead
  <2>2. Turns(s, [Idle EXCEPT !.pc = "view", !.id = t, !.view = tx[t], !.fresh = TRUE, !.head = h])
    BY <1>0, <2>1 DEF Turns, OtherRun
  <2>3. head \in Nat /\ head' \in Nat /\ head <= head'
    BY DEF Kept, StoreInv, TypeOK, ChainKept
  <2>4. proc'[s].head <= head' /\ proc'[s].pc = "view"
    BY <2>2, <2>3 DEF Turns, Idle
  <2> QED BY <1>0, <2>2, <2>4, PlainStep DEF Turns, Plain
<1>2. CASE \E row : SaveTx(s, row, Idle)
  BY <1>0, <1>2, SaveOthers, IdlePlain DEF Turns
<1>3. CASE Finish(s)
  <2>1. Turns(s, Idle)
    BY <1>0, <1>3 DEF Finish, Turns, OtherRun
  <2> QED BY <1>0, <2>1, IdlePlain
<1>4. CASE ReadActive(s) \/ Unpause(s)
  <2>1. PICK pc \in {"active", "resumed"} : proc' = [proc EXCEPT ![s].pc = pc]
    BY <1>4 DEF ReadActive, Unpause, Goto
  <2>2. Turns(s, [q EXCEPT !.pc = pc])
    BY <1>0, <2>1 DEF Turns, OtherRun
  <2>3. [q EXCEPT !.pc = pc].pc = pc /\ [q EXCEPT !.pc = pc].head = q.head
    BY <1>0 DEF Proc
  <2> QED BY <1>0, <2>2, <2>3, OnwardPlain
<1>5. CASE SweepReorged(s)
  <2> DEFINE row == [view EXCEPT !.status = "submitted", !.mined = NoMined]
             next == [Holding(s, row, "send") EXCEPT !.n = view.mined.n, !.how = "rebroadcast"]
  <2>1. Turns(s, next)
    BY <1>0, <1>5, SaveOthers DEF SweepReorged, Turns
  <2>2. next.pc = "send" /\ next.head = q.head
    BY <1>0 DEF Holding, Proc
  <2> HIDE DEF next
  <2> QED BY <1>0, <2>1, <2>2, OnwardPlain
<1>6. CASE SweepFound(s)
  <2>1. PICK i \in DOMAIN view.attempts :
          /\ IsMined(Sig(q.id, view, i))
          /\ proc' = [proc EXCEPT ![s].pc = "mark", ![s].n = i,
                                  ![s].block = used[view.nonce + 1].block]
    BY <1>6 DEF SweepFound
  <2> DEFINE b == used[view.nonce + 1].block
             next == [q EXCEPT !.pc = "mark", !.n = i, !.block = b]
  <2>2. Turns(s, next)
    BY <1>0, <2>1 DEF Turns, OtherRun
  <2>3. /\ next.pc = "mark" /\ next.n = i /\ next.block = b /\ next.head = q.head
        /\ next.view = view /\ next.id = q.id
    BY <1>0 DEF Proc
  <2>4. OnChain(Sig(q.id, view, i), b, used) /\ Sig(q.id, view, i).nonce = view.nonce
    BY <2>1 DEF IsMined, OnChain, Sig
  <2>5. Len(used) \in Nat /\ DOMAIN used = 1 .. Len(used)
    BY LenProperties DEF Kept, StoreInv, TypeOK
  <2>6. view.nonce \in 0 .. Len(used) - 1
    BY <2>4 DEF OnChain
  <2>7. b \in 1 .. head /\ head \in Nat /\ head' \in Nat
    <3>1. view.nonce + 1 \in DOMAIN used
      BY <2>5, <2>6
    <3>2. head \in Nat /\ head' \in Nat
      BY DEF Kept, StoreInv, TypeOK
    <3> QED BY <3>1, <3>2 DEF Kept, KnownInv, BlocksInOrder
  <2>8. used' = used /\ head' = head
    BY <1>6 DEF SweepFound, chainVars
  <2>9. q.head <= head
    BY <1>0 DEF Knows
  <2> HIDE DEF next, b
  <2>10. Knows(proc[s])'
    BY <2>2, <2>3, <2>4, <2>7, <2>8, <2>9 DEF Turns, Knows
  <2> QED BY <1>0, <2>2, <2>10, RunStep DEF Turns
<1>7. CASE MarkMined(s)
  <2> DEFINE m == [n |-> q.n, block |-> q.block]
             row == [MarkAccepted(view, q.n) EXCEPT !.status = "mined", !.usedAt = NoStamp,
                                                    !.mined = m]
             next == Holding(s, row, "confirm")
  <2>1. Turns(s, IF Deep(q.block, q.head) THEN next ELSE Idle) /\ q.pc = "mark"
    BY <1>0, <1>7, SaveOthers DEF MarkMined, Turns
  <2>2. row.nonce = view.nonce /\ row.mined = m
    BY <1>0 DEF MarkAccepted, Row
  <2> HIDE DEF row
  <2>3. /\ next.pc = "confirm" /\ next.head = q.head /\ next.view = row /\ next.id = q.id
    BY <1>0 DEF Holding, Proc
  <2>4. Sig(q.id, row, q.n) = Sig(q.id, view, q.n)
    BY <2>2 DEF Sig
  <2>5. used' = used /\ head' = head
    BY <1>7 DEF MarkMined, chainVars
  <2>6. Deep(q.block, q.head) => DeepOnChain(q.id, row, q.head, used)
    BY <1>0, <2>1, <2>2, <2>4 DEF Knows, DeepOnChain
  <2> HIDE DEF next
  <2>7. CASE Deep(q.block, q.head)
    <3>1. q.head <= head
      BY <1>0 DEF Knows
    <3>2. Turns(s, next)
      BY <2>1, <2>7
    <3>3. Knows(proc[s])'
      BY <2>3, <2>5, <2>6, <2>7, <3>1, <3>2 DEF Turns, Knows
    <3> QED BY <1>0, <3>2, <3>3, RunStep DEF Turns
  <2>8. CASE ~Deep(q.block, q.head)
    BY <1>0, <2>1, <2>8, IdlePlain
  <2> QED BY <2>7, <2>8
<1>8. CASE WalkEmpty(s)
  <2> DEFINE next == [q EXCEPT !.pc = "fail"]
  <2>1. Turns(s, next)
    BY <1>0, <1>8 DEF WalkEmpty, Goto, Turns, OtherRun
  <2>2. next.pc = "fail" /\ next.head = q.head /\ next.view = view
    BY <1>0 DEF Proc
  <2>3. /\ Len(used) \in Nat /\ Len(used) <= usedMax /\ usedMax \in Nat /\ view.nonce \in Int
        /\ usedMax' = usedMax /\ head' = head /\ q.head <= head
    BY <1>0, <1>8, LenProperties
    DEF WalkEmpty, chainVars, Kept, KnownInv, BlocksInOrder, StoreInv, TypeOK, Row, Knows
  <2>4. \E k \in NonceReads : k > view.nonce
    BY <1>8 DEF WalkEmpty
  <2>5. view.nonce < usedMax
    BY <2>3, <2>4 DEF NonceReads
  <2> HIDE DEF next
  <2>6. Knows(proc[s])'
    BY <2>1, <2>2, <2>3, <2>5 DEF Turns, Knows
  <2> QED BY <1>0, <2>1, <2>6, RunStep DEF Turns
<1>9. CASE NonceUnused(s)
  <2> DEFINE row == [view EXCEPT !.usedAt = NoStamp]
  <2>1. PICK pc \in {"bump", "resend"} : Goto(s, pc) \/ SaveTx(s, row, Holding(s, row, pc))
    BY <1>9 DEF NonceUnused
  <2>2. Turns(s, [q EXCEPT !.pc = pc]) \/ Turns(s, Holding(s, row, pc))
    BY <1>0, <2>1, SaveOthers DEF Turns, OtherRun, Goto
  <2>3. /\ [q EXCEPT !.pc = pc].pc = pc /\ [q EXCEPT !.pc = pc].head = q.head
        /\ Holding(s, row, pc).pc = pc /\ Holding(s, row, pc).head = q.head
    BY <1>0 DEF Holding, Proc
  <2> QED BY <1>0, <2>2, <2>3, OnwardPlain
<1>10. CASE q.pc = "bump" /\ SaveTx(s, view, q)
  <2>1. Turns(s, q)
    BY <1>0, <1>10, SaveOthers DEF Turns
  <2> QED BY <1>0, <1>10, <2>1, OnwardPlain
<1>11. CASE Replace(s)
  <2> DEFINE i == Len(view.attempts) + 1
             row == [view EXCEPT !.attempts = Append(@, NewAttempt)]
             next == [Holding(s, row, "send") EXCEPT !.n = i, !.how = "replace"]
  <2>1. Turns(s, next)
    BY <1>0, <1>11, SaveOthers DEF Replace, Turns
  <2>2. next.pc = "send" /\ next.head = q.head
    BY <1>0 DEF Holding, Proc
  <2> HIDE DEF next
  <2> QED BY <1>0, <2>1, <2>2, OnwardPlain
<1>12. CASE Rebroadcast(s)
  <2>1. PICK i \in DOMAIN view.attempts :
          proc' = [proc EXCEPT ![s].pc = "send", ![s].n = i, ![s].how = "rebroadcast"]
    BY <1>12 DEF Rebroadcast
  <2> DEFINE next == [q EXCEPT !.pc = "send", !.n = i, !.how = "rebroadcast"]
  <2>2. Turns(s, next)
    BY <1>0, <2>1 DEF Turns, OtherRun
  <2>3. next.pc = "send" /\ next.head = q.head
    BY <1>0 DEF Proc
  <2> HIDE DEF next
  <2> QED BY <1>0, <2>2, <2>3, OnwardPlain
<1>13. CASE proc' = [proc EXCEPT ![s].answer = "underpriced"] /\ q.pc = "answered"
  <2> DEFINE next == [q EXCEPT !.answer = "underpriced"]
  <2>1. Turns(s, next)
    BY <1>0, <1>13 DEF Turns, OtherRun
  <2>2. next.pc = "answered" /\ next.answer = "underpriced" /\ next.head = q.head
    BY <1>0, <1>13 DEF Proc
  <2> HIDE DEF next
  <2> QED BY <1>0, <2>1, <2>2, OnwardPlain
<1>14. CASE SweepNoFunds(s) \/ SaveProgress(s)
  BY <1>2, <1>3, <1>10, <1>13, <1>14 DEF SweepNoFunds, SaveProgress, Answered
<1>15. CASE \/ SweepDone(s) \/ Requeue(s) \/ SweepConfirmed(s) \/ ConfirmMined(s) \/ StampUsed(s)
            \/ FailUsed(s) \/ RebroadcastTaken(s) \/ RebroadcastUnderpriced(s)
            \/ ReplaceTaken(s) \/ ReplaceUnderpriced(s) \/ SweepTooLow(s)
  BY <1>2, <1>3, <1>15 DEF SweepDone, Requeue, SweepConfirmed, ConfirmMined, StampUsed,
     FailUsed, RebroadcastTaken, RebroadcastUnderpriced, ReplaceTaken, ReplaceUnderpriced,
     SweepTooLow
<1> QED BY <1>1, <1>4, <1>5, <1>6, <1>7, <1>8, <1>9, <1>11, <1>12, <1>14, <1>15 DEF SweeperNext

(***************************************************************************)
(* The signer's runs, sends, and runs that end                             *)
(***************************************************************************)
LEMMA SignerRuns ==
  ASSUME Kept, SignerNext
  PROVE  RunsKnow'
<1> DEFINE q == proc[Signer]
           view == proc[Signer].view
<1>0. /\ Signer \in Procs /\ q \in Proc /\ proc \in [Procs -> Proc] /\ view \in Row /\ Knows(q)
      /\ StoreInv
  BY SignerIn DEF Kept, StoreInv, TypeOK, Proc, KnownInv, RunsKnow
<1>1. CASE RaiseNonce \/ \E t \in Ids : SignerSkip(t)
  BY <1>1, NoRunStep DEF RaiseNonce, SignerSkip
<1>2. CASE \E row : SaveTx(Signer, row, Idle)
  BY <1>0, <1>2, SaveOthers, IdlePlain DEF Turns
<1>3. CASE SignerNoFunds
  <2>1. Turns(Signer, Idle)
    BY <1>0, <1>3 DEF SignerNoFunds, Finish, Turns, OtherRun
  <2> QED BY <1>0, <2>1, IdlePlain
<1>4. CASE FailDependent \/ SignerSubmitted \/ SignerUnderpriced \/ SignerTooLowSubmitted
  BY <1>2, <1>4 DEF FailDependent, SignerSubmitted, SignerUnderpriced, SignerTooLowSubmitted
<1>5. CASE \E t \in Ids : SignerTake(t)
  <2>1. PICK t \in Ids : SignerTake(t)
    BY <1>5
  <2> DEFINE row == tx[t]
             onward == IF row.nonce = NoNonce THEN "nonce"
                       ELSE IF row.attempts = << >> THEN "sign" ELSE "send"
  <2>2. PICK pc \in {onward, "dead-end"} :
          /\ pc = "dead-end" => HasDependency(t) /\ row.nonce = NoNonce
          /\ HasDependency(t) /\ row.nonce = NoNonce
               /\ DependencyState(DependsOn[t]) = "unsuccessful" => pc = "dead-end"
          /\ proc' = [proc EXCEPT ![Signer] =
                        [Idle EXCEPT !.pc = pc, !.id = t, !.view = row, !.fresh = TRUE,
                                     !.n = Len(row.attempts), !.how = "first"]]
    BY <2>1 DEF SignerTake
  <2> DEFINE next == [Idle EXCEPT !.pc = pc, !.id = t, !.view = row, !.fresh = TRUE,
                                  !.n = Len(row.attempts), !.how = "first"]
  <2>3. Turns(Signer, next)
    BY <1>0, <2>2 DEF Turns, OtherRun
  <2>4. next.pc = pc /\ next.id = t /\ next.view = row /\ next.head = 0
    BY DEF Idle
  <2>5. tx' = tx /\ head' \in Nat /\ ~Waiting(t)
    BY <2>1 DEF SignerTake, Kept, StoreInv, TypeOK
  <2>6. ASSUME pc = "nonce" PROVE Ready(t)
    BY <2>2, <2>5, <2>6 DEF Ready, Waiting, DependencyState
  <2>7. Ready(t)' <=> Ready(t)
    BY <2>5 DEF Ready, HasDependency, DependencyState
  <2> HIDE DEF next
  <2>8. Knows(proc[Signer])'
    <3>1. /\ proc'[Signer].pc = pc /\ proc'[Signer].id = t /\ proc'[Signer].view = row
          /\ proc'[Signer].head = 0
      BY <2>3, <2>4 DEF Turns
    <3>2. pc \in {"nonce", "sign", "send", "dead-end"} /\ 0 <= head'
      BY <2>2, <2>5
    <3>3. pc = "dead-end" => row.nonce = NoNonce
      BY <2>2
    <3>4. pc = "nonce" => (HasDependency(t) => DependencyState(DependsOn[t])' = "ready")
      BY <2>5, <2>6 DEF Ready, DependencyState
    <3> HIDE DEF row
    <3> QED BY <3>1, <3>2, <3>3, <3>4 DEF Knows, Ready, HasDependency, DependencyState
  <2> QED BY <1>0, <2>3, <2>8, RunStep DEF Turns
<1>6. CASE AssignNonce
  <2> DEFINE row == [view EXCEPT !.nonce = nextNonce]
             next == [Holding(Signer, row, "sign") EXCEPT !.taken = TRUE]
  <2>1. Turns(Signer, next)
    BY <1>0, <1>6, SaveOthers DEF AssignNonce, Turns
  <2>2. next.pc = "sign" /\ next.head = q.head
    BY <1>0 DEF Holding, Proc
  <2> HIDE DEF next
  <2> QED BY <1>0, <2>1, <2>2, OnwardPlain
<1>7. CASE SignAttempt
  <2> DEFINE row == [view EXCEPT !.attempts = <<NewAttempt>>]
             next == [Holding(Signer, row, "send") EXCEPT !.n = 1]
  <2>1. Turns(Signer, next)
    BY <1>0, <1>7, SaveOthers DEF SignAttempt, Turns
  <2>2. next.pc = "send" /\ next.head = q.head
    BY <1>0 DEF Holding, Proc
  <2> HIDE DEF next
  <2> QED BY <1>0, <2>1, <2>2, OnwardPlain
<1>8. CASE SignerDropNonce
  <2> DEFINE row == [view EXCEPT !.nonce = NoNonce, !.attempts = << >>]
             next == [Holding(Signer, row, "nonce") EXCEPT
                        !.n = 0, !.answer = "none", !.taken = FALSE, !.resets = @ + 1]
  <2>1. Turns(Signer, next) /\ q.pc = "answered" /\ q.fresh
    BY <1>0, <1>8, SaveOthers DEF SignerDropNonce, Turns, SaveTx, Answered
  <2>2. next.pc = "nonce" /\ next.head = q.head /\ next.id = q.id
    BY <1>0 DEF Holding, Proc
  <2>3. q.id \in Ids /\ tx[q.id].nonce # NoNonce
    BY <1>0, <2>1, RunFacts DEF RunOK, Related, NoNonce
  <2>4. Ready(q.id)
    BY <2>3 DEF Kept, KnownInv, RowsKnown
  <2>5. q.head <= head /\ head' = head
    BY <1>0, <1>8 DEF Knows, SignerDropNonce, chainVars
  <2>6. Ready(q.id) => tx'[DependsOn[q.id]] = tx[DependsOn[q.id]] \/ ~HasDependency(q.id)
    <3>1. HasDependency(q.id) => DependsOn[q.id] \in Ids
      BY IdsAssumption DEF HasDependency, Ids
    <3> QED BY <3>1 DEF Ready, DependencyState, Kept, SettledKept, Settled
  <2> HIDE DEF next
  <2>7. Knows(proc[Signer])'
    BY <2>1, <2>2, <2>4, <2>5, <2>6 DEF Turns, Knows, Ready, HasDependency, DependencyState
  <2> QED BY <1>0, <2>1, <2>7, RunStep DEF Turns
<1> QED BY <1>1, <1>3, <1>4, <1>5, <1>6, <1>7, <1>8 DEF SignerNext

LEMMA EitherRuns ==
  ASSUME Kept, NEW p \in Procs, EitherNext(p)
  PROVE  RunsKnow'
<1> DEFINE q == proc[p]
           view == proc[p].view
<1>0. /\ q \in Proc /\ proc \in [Procs -> Proc] /\ view \in Row /\ Knows(q) /\ StoreInv
  BY DEF Kept, StoreInv, TypeOK, Proc, KnownInv, RunsKnow
<1>1. CASE Send(p)
  <2>1. PICK a \in Answers :
          /\ a = "too-low" => view.nonce < Len(used)
          /\ proc' = [proc EXCEPT ![p].pc = "answered", ![p].answer = a]
    BY <1>1 DEF Send, Sig
  <2> DEFINE next == [q EXCEPT !.pc = "answered", !.answer = a]
  <2>2. Turns(p, next)
    BY <1>0, <2>1 DEF Turns, OtherRun
  <2>3. next.pc = "answered" /\ next.answer = a /\ next.head = q.head /\ next.view = view
    BY <1>0 DEF Proc
  <2>4. /\ Len(used) \in Nat /\ Len(used) <= usedMax /\ usedMax \in Nat /\ view.nonce \in Int
        /\ usedMax' = usedMax /\ head' = head /\ q.head <= head
    BY <1>0, <1>1, LenProperties
    DEF Send, Kept, KnownInv, BlocksInOrder, StoreInv, TypeOK, Row, Knows
  <2>5. a = "too-low" => view.nonce < usedMax'
    BY <2>1, <2>4
  <2> HIDE DEF next
  <2>6. Knows(proc[p])'
    BY <2>2, <2>3, <2>4, <2>5 DEF Turns, Knows
  <2> QED BY <2>2, <2>6, RunStep DEF Turns
<1>2. CASE SendTimedOut(p)
  BY <1>2, NoRunStep DEF SendTimedOut
<1>3. CASE RefuseMarked(p) \/ RefuseFiller(p)
  BY <1>3, SaveOthers, IdlePlain DEF RefuseMarked, RefuseFiller, Turns
<1>4. CASE FailWithFiller(p)
  <2>1. Turns(p, Idle)
    BY <1>0, <1>4 DEF FailWithFiller, SaveWithFiller, Turns, OtherRun
  <2> QED BY <2>1, IdlePlain
<1>5. CASE Abort(p)
  <2>1. Turns(p, Idle)
    BY <1>0, <1>5 DEF Abort, Finish, Turns, OtherRun
  <2> QED BY <2>1, IdlePlain
<1> QED BY <1>1, <1>2, <1>3, <1>4, <1>5 DEF EitherNext

LEMMA RunsNext ==
  ASSUME Kept, [Next]_vars
  PROVE  RunsKnow'
<1>1. CASE (\E t \in Payloads : Submit(t)) \/ ChainNext \/ UNCHANGED vars
  BY <1>1, NoRunStep DEF Submit, ChainNext, EmptyBlock, MineNonce, ForeignSend, Reorg, vars
<1> QED BY <1>1, SignerRuns, SweeperRuns, EitherRuns DEF Next

(***************************************************************************)
(* What the rows say of the chain, and the gaps between nonces             *)
(***************************************************************************)
RowsInv == RowsKnown /\ NoNonceGap

\* A nonce below the counter needs nobody any more, or this row takes it.
Covers(t, row, n) ==
  \/ n < usedMax
  \/ row.nonce = n /\ (row.status \in Pending \/ (t \in Fillers /\ row.status = "failed"))

\* A write over the row of a run that leaves no nonce behind.
KnownWrite(p, row) ==
  /\ Writes(p, row)
  /\ row.status = "mined" => row.mined.block > 0
  /\ row.status = "confirmed" => DeepOnChain(proc[p].id, row, proc[p].head, used)
  /\ row.nonce # NoNonce => Ready(proc[p].id)
  /\ \/ nextNonce' = nextNonce
     \/ nextNonce' = nextNonce + 1 /\ Covers(proc[p].id, row, nextNonce)
  /\ proc[p].view.nonce = NoNonce \/ Covers(proc[p].id, row, proc[p].view.nonce)

LEMMA WriteRows ==
  ASSUME Kept, NEW p \in Procs, NEW row, KnownWrite(p, row)
  PROVE  RowsInv'
<1> DEFINE t == proc[p].id
<1>1. /\ t \in Ids /\ tx[t] = proc[p].view /\ proc[p].view.status \in Pending
      /\ tx' = [tx EXCEPT ![t] = row] /\ tx \in [Ids -> Row]
  BY WrittenRow DEF KnownWrite, Kept, StoreInv, TypeOK
<1>2. tx'[t] = row /\ \A u \in Ids \ {t} : tx'[u] = tx[u]
  BY <1>1
<1>3. /\ usedMax \in Nat /\ usedMax' \in Nat /\ usedMax <= usedMax' /\ nextNonce \in Nat
      /\ head \in Nat /\ head' \in Nat /\ foreign \subseteq foreign'
  BY DEF Kept, ChainKept, StoreInv, TypeOK
<1>4. ASSUME NEW u \in Ids PROVE tx'[u].status = "mined" => tx'[u].mined.block > 0
  BY <1>2 DEF KnownWrite, Kept, KnownInv, RowsKnown
<1>5. ASSUME NEW u \in Ids, tx'[u].status = "confirmed"
      PROVE  DeepOnChain(u, tx'[u], head', used')
  <2>1. CASE u = t
    <3>1. proc[p].head \in Nat /\ proc[p].head <= head
      BY DEF Kept, KnownInv, RunsKnow, Knows, StoreInv, TypeOK, Proc
    <3>2. DeepOnChain(t, row, proc[p].head, used)
      BY <1>2, <1>5, <2>1 DEF KnownWrite
    <3> QED BY <1>2, <2>1, <3>1, <3>2, DeepKept DEF DeepOnChain, Kept, KnownInv
  <2>2. CASE u # t
    <3>1. DeepOnChain(u, tx[u], head, used)
      BY <1>2, <1>5, <2>2 DEF Kept, KnownInv, RowsKnown
    <3> QED BY <1>2, <1>3, <2>2, <3>1, DeepKept DEF DeepOnChain, Kept, KnownInv
  <2> QED BY <2>1, <2>2
<1>6. ASSUME NEW u \in Ids, tx'[u].nonce # NoNonce PROVE Ready(u)'
  <2>1. Ready(u)
    BY <1>2, <1>6 DEF KnownWrite, Kept, KnownInv, RowsKnown
  <2> QED BY <2>1, ReadyKept DEF Kept
<1>7. ASSUME NEW n \in 0 .. nextNonce' - 1
      PROVE  \/ n < usedMax' \/ n \in foreign'
             \/ \E u \in Ids : tx'[u].nonce = n /\ tx'[u].status \in Pending
             \/ \E f \in Fillers : tx'[f].nonce = n /\ tx'[f].status = "failed"
  <2>0. n \in Nat
    BY <1>3
  <2>1. CASE Covers(t, row, n)
    BY <1>1, <1>2, <1>3, <2>0, <2>1 DEF Covers
  <2>2. CASE ~Covers(t, row, n)
    <3>1. n \in 0 .. nextNonce - 1
      BY <1>3, <1>7, <2>2 DEF KnownWrite
    <3>2. \/ n < usedMax \/ n \in foreign
          \/ \E u \in Ids : tx[u].nonce = n /\ tx[u].status \in Pending
          \/ \E f \in Fillers : tx[f].nonce = n /\ tx[f].status = "failed"
      BY <3>1 DEF Kept, KnownInv, NoNonceGap
    <3>3. tx[t].nonce # n
      BY <1>1, <2>0, <2>2 DEF KnownWrite, NoNonce
    <3> QED BY <1>2, <1>3, <2>0, <3>2, <3>3 DEF Ids
  <2> QED BY <2>1, <2>2
<1> QED BY <1>4, <1>5, <1>6, <1>7 DEF RowsInv, RowsKnown, DeepOnChain, NoNonceGap

LEMMA BelowEither ==
  ASSUME NEW a \in Nat, NEW b \in Nat, NEW n \in 0 .. b - 1
  PROVE  n \in 0 .. a - 1 \/ n \in a .. b - 1
OBVIOUS

\* A step that leaves the table as it is, and raises the counter over nonces that
\* were used or that another sender has sent at.
LEMMA NoWriteRows ==
  ASSUME Kept, tx' = tx, \A n \in nextNonce .. nextNonce' - 1 : n < usedMax' \/ n \in foreign'
  PROVE  RowsInv'
<1>1. /\ usedMax \in Nat /\ usedMax' \in Nat /\ usedMax <= usedMax' /\ nextNonce \in Nat
      /\ nextNonce' \in Nat /\ head \in Nat /\ head' \in Nat /\ head <= head
      /\ foreign \subseteq foreign'
  BY DEF Kept, ChainKept, StoreInv, TypeOK
<1>2. ASSUME NEW u \in Ids, tx'[u].status = "confirmed"
      PROVE  DeepOnChain(u, tx'[u], head', used')
  <2>1. DeepOnChain(u, tx[u], head, used)
    BY <1>2 DEF Kept, KnownInv, RowsKnown
  <2> QED BY <1>1, <2>1, DeepKept DEF DeepOnChain, Kept, KnownInv
<1>3. ASSUME NEW u \in Ids, tx'[u].nonce # NoNonce PROVE Ready(u)'
  <2>1. Ready(u)
    BY <1>3 DEF Kept, KnownInv, RowsKnown
  <2> QED BY <2>1, ReadyKept DEF Kept
<1>4. \A u \in Ids : tx'[u].status = "mined" => tx'[u].mined.block > 0
  BY DEF Kept, KnownInv, RowsKnown
<1>5. ASSUME NEW n \in 0 .. nextNonce' - 1
      PROVE  \/ n < usedMax' \/ n \in foreign'
             \/ \E u \in Ids : tx'[u].nonce = n /\ tx'[u].status \in Pending
             \/ \E f \in Fillers : tx'[f].nonce = n /\ tx'[f].status = "failed"
  <2>1. CASE n \in 0 .. nextNonce - 1
    <3>1. \/ n < usedMax \/ n \in foreign
          \/ \E u \in Ids : tx[u].nonce = n /\ tx[u].status \in Pending
          \/ \E f \in Fillers : tx[f].nonce = n /\ tx[f].status = "failed"
      BY <2>1 DEF Kept, KnownInv, NoNonceGap
    <3> QED BY <1>1, <2>1, <3>1
  <2>2. CASE n \in nextNonce .. nextNonce' - 1
    BY <2>2
  <2>3. n \in 0 .. nextNonce - 1 \/ n \in nextNonce .. nextNonce' - 1
    BY <1>1, BelowEither
  <2> QED BY <2>1, <2>2, <2>3
<1> QED BY <1>2, <1>3, <1>4, <1>5 DEF RowsInv, RowsKnown, DeepOnChain, NoNonceGap

\* A write over a row that keeps its nonce, and the transaction is still under way.
LEMMA PendingRows ==
  ASSUME Kept, NEW p \in Procs, PendingWrite(p), nextNonce' = nextNonce
  PROVE  RowsInv'
<1>1. PICK row : /\ Writes(p, row) /\ SameHolder(proc[p].view, row) /\ row.status \in Pending
                 /\ row.status = "mined" =>
                      \/ proc[p].view.status = "mined" /\ row.mined = proc[p].view.mined
                      \/ proc[p].pc = "mark" /\ row.mined = [n |-> proc[p].n, block |-> proc[p].block]
  BY DEF PendingWrite
<1>2. proc[p].id \in Ids /\ tx[proc[p].id] = proc[p].view /\ Knows(proc[p])
  BY <1>1, WrittenRow DEF Kept, KnownInv, RunsKnow
<1>3. row.status = "mined" => row.mined.block > 0
  BY <1>1, <1>2 DEF Knows, Kept, KnownInv, RowsKnown
<1>4. row.nonce # NoNonce => Ready(proc[p].id)
  BY <1>1, <1>2 DEF SameHolder, Kept, KnownInv, RowsKnown
<1>5. Covers(proc[p].id, row, proc[p].view.nonce)
  <2>1. row.nonce = proc[p].view.nonce /\ row.status \in Pending
    BY <1>1 DEF SameHolder
  <2> QED BY <2>1 DEF Covers
<1>6. row.status # "confirmed"
  BY <1>1 DEF Pending
<1>7. KnownWrite(p, row)
  BY <1>1, <1>3, <1>4, <1>5, <1>6 DEF KnownWrite
<1> QED BY <1>7, WriteRows

\* A write that settles the transaction at the nonce it has.
LEMMA SettledRows ==
  ASSUME Kept, NEW p \in Procs, NEW row, Writes(p, row), SameHolder(proc[p].view, row),
         nextNonce' = nextNonce, row.status \in Settled,
         row.status = "confirmed" => DeepOnChain(proc[p].id, row, proc[p].head, used),
         \/ proc[p].view.nonce = NoNonce \/ proc[p].view.nonce < usedMax
         \/ proc[p].id \in Fillers /\ row.status = "failed"
  PROVE  RowsInv'
<1>1. proc[p].id \in Ids /\ tx[proc[p].id] = proc[p].view
  BY WrittenRow DEF Kept
<1>2. row.nonce # NoNonce => Ready(proc[p].id)
  BY <1>1 DEF SameHolder, Kept, KnownInv, RowsKnown
<1>3. row.status # "mined"
  BY DEF Settled
<1>4. proc[p].view.nonce = NoNonce \/ Covers(proc[p].id, row, proc[p].view.nonce)
  BY DEF Covers, SameHolder
<1>5. KnownWrite(p, row)
  BY <1>2, <1>3, <1>4 DEF KnownWrite
<1> QED BY <1>5, WriteRows

LEMMA SweeperRows ==
  ASSUME Kept, NEW s \in Sweepers, SweeperNext(s)
  PROVE  RowsInv'
<1> DEFINE q == proc[s]
           view == proc[s].view
           row(st) == WithStatus(view, st)
<1>0. /\ s \in Procs /\ StoreInv /\ Knows(q) /\ nextNonce \in Nat /\ nextNonce' = nextNonce
      /\ usedMax \in Nat /\ view.nonce \in Int /\ Len(used) \in Nat /\ Len(used) <= usedMax
  BY SignerIn, SweeperKind, LenProperties
  DEF Kept, StoreInv, TypeOK, KnownInv, RunsKnow, BlocksInOrder, Proc, Row
<1>1. CASE tx' = tx
  BY <1>0, <1>1, NoWriteRows
<1>2. CASE PendingWrite(s)
  BY <1>0, <1>2, PendingRows
<1>3. ASSUME NEW st \in Settled, Writes(s, row(st)),
             st = "confirmed" => DeepOnChain(q.id, view, q.head, used),
             st = "failed" => view.nonce < usedMax
      PROVE  RowsInv'
  <2>1. view \in Row
    BY <1>0, <1>3, WrittenRow
  <2>2. SameHolder(view, row(st)) /\ row(st).status = st /\ row(st).mined = view.mined
    BY <2>1, StatusKeeps DEF Settled, Status
  <2>3. DeepOnChain(q.id, view, q.head, used) => DeepOnChain(q.id, row(st), q.head, used)
    BY <2>2 DEF DeepOnChain, Sig, SameHolder
  <2>4. DeepOnChain(q.id, view, q.head, used) => view.nonce < usedMax
    BY <1>0 DEF DeepOnChain, OnChain, Sig
  <2>5. view.nonce < usedMax
    BY <1>3, <2>4 DEF Settled
  <2> HIDE DEF row
  <2>6. row(st).status = "confirmed" => DeepOnChain(q.id, row(st), q.head, used)
    BY <1>3, <2>2, <2>3
  <2>7. row(st).status \in Settled
    BY <2>2
  <2> QED BY <1>0, <1>3, <2>2, <2>5, <2>6, <2>7, SettledRows
<1>4. CASE SweepConfirmed(s)
  <2>1. /\ Writes(s, row("confirmed")) /\ view.status = "mined" /\ Deep(view.mined.block, q.head)
        /\ view.mined.block \in Receipts(Sig(q.id, view, view.mined.n))
    BY <1>4 DEF SweepConfirmed, Writes, Viewing
  <2>2. q.id \in Ids /\ tx[q.id] = view
    BY <1>0, <2>1, WrittenRow
  <2>3. view.mined.block > 0
    BY <2>1, <2>2 DEF Kept, KnownInv, RowsKnown
  <2> DEFINE sig == Sig(q.id, view, view.mined.n)
  <2>4. view.mined.block \in Receipts(sig)
    BY <2>1
  <2> HIDE DEF sig
  <2>5. IsMined(sig) /\ view.mined.block = used[sig.nonce + 1].block
    BY ONLY <2>3, <2>4 DEF Receipts
  <2> USE DEF sig
  <2>6. DeepOnChain(q.id, view, q.head, used)
    BY <2>1, <2>5 DEF IsMined, DeepOnChain, OnChain
  <2> QED BY <1>3, <2>1, <2>6 DEF Settled
<1>5. CASE ConfirmMined(s)
  <2>1. Writes(s, row("confirmed")) /\ q.pc = "confirm"
    BY <1>5 DEF ConfirmMined, Writes
  <2> QED BY <1>0, <1>3, <2>1 DEF Knows, Settled
<1>6. CASE FailUsed(s)
  <2>1. Writes(s, row("failed")) /\ q.pc = "fail"
    BY <1>6 DEF FailUsed, Writes
  <2> QED BY <1>0, <1>3, <2>1 DEF Knows, Settled
<1> QED BY <1>0, <1>1, <1>2, <1>4, <1>5, <1>6, SweeperKind

\* A payload that is refused leaves its nonce to its filler.
LEMMA FillerRows ==
  ASSUME Kept, NEW p \in Procs, FailWithFiller(p)
  PROVE  RowsInv'
<1> DEFINE t == proc[p].id
           row == WithStatus(MarkRefused(proc[p].view, proc[p].n), "failed")
           filler == [NoRow EXCEPT !.status = "queued", !.nonce = row.nonce, !.fills = t]
<1>1. /\ tx[t] = proc[p].view /\ t \in Payloads /\ proc[p].view \in Row
      /\ tx[t].status \in Pending /\ nextNonce' = nextNonce /\ tx \in [Ids -> Row]
      /\ usedMax \in Nat /\ usedMax' \in Nat /\ usedMax <= usedMax' /\ nextNonce \in Nat
      /\ head \in Nat /\ head' \in Nat /\ head <= head /\ foreign \subseteq foreign'
  BY RunFacts DEF FailWithFiller, SaveWithFiller, Answered, RunOK, Related, Kept, ChainKept, StoreInv, TypeOK
<1>2. PICK f \in Fillers : tx[f].status = "none" /\ tx' = [tx EXCEPT ![t] = row, ![f] = filler]
  BY DEF FailWithFiller, SaveWithFiller
<1>3. row.nonce = tx[t].nonce /\ row.status = "failed"
  BY <1>1, MarksKeep DEF SameHolder, Status
<1>4. filler.nonce = tx[t].nonce /\ filler.status = "queued"
  BY <1>3 DEF NoRow
<1>5. t \in Ids /\ f \in Ids /\ t # f /\ f \notin Payloads
  BY <1>1, <1>2, IdsAssumption DEF Ids
<1> HIDE DEF row, t, filler
<1>6. /\ tx'[t].nonce = tx[t].nonce /\ tx'[t].status = "failed"
      /\ tx'[f].nonce = tx[t].nonce /\ tx'[f].status = "queued"
      /\ \A u \in Ids : u # t /\ u # f => tx'[u] = tx[u]
  BY <1>1, <1>2, <1>3, <1>4, <1>5
<1>7. ASSUME NEW u \in Ids, tx'[u].status = "confirmed"
      PROVE  DeepOnChain(u, tx'[u], head', used')
  <2>1. tx'[u] = tx[u]
    BY <1>6, <1>7
  <2>2. DeepOnChain(u, tx[u], head, used)
    BY <1>7, <2>1 DEF Kept, KnownInv, RowsKnown
  <2> QED BY <1>1, <2>1, <2>2, DeepKept DEF DeepOnChain, Kept, KnownInv
<1>8. ASSUME NEW u \in Ids, tx'[u].nonce # NoNonce PROVE Ready(u)'
  <2>1. CASE u = f
    BY <1>5, <2>1 DEF Ready, HasDependency
  <2>2. CASE u # f
    <3>1. Ready(u)
      BY <1>6, <1>8, <2>2 DEF Kept, KnownInv, RowsKnown
    <3> QED BY <3>1, ReadyKept DEF Kept
  <2> QED BY <2>1, <2>2
<1>9. ASSUME NEW u \in Ids PROVE tx'[u].status = "mined" => tx'[u].mined.block > 0
  BY <1>6 DEF Kept, KnownInv, RowsKnown
<1>10. ASSUME NEW n \in 0 .. nextNonce' - 1
       PROVE  \/ n < usedMax' \/ n \in foreign'
              \/ \E u \in Ids : tx'[u].nonce = n /\ tx'[u].status \in Pending
              \/ \E g \in Fillers : tx'[g].nonce = n /\ tx'[g].status = "failed"
  <2>1. \/ n < usedMax \/ n \in foreign
        \/ \E u \in Ids : tx[u].nonce = n /\ tx[u].status \in Pending
        \/ \E g \in Fillers : tx[g].nonce = n /\ tx[g].status = "failed"
    BY <1>1, <1>10 DEF Kept, KnownInv, NoNonceGap
  <2>2. CASE n < usedMax \/ n \in foreign
    BY <1>1, <1>10, <2>2
  <2>3. CASE \E u \in Ids : tx[u].nonce = n /\ tx[u].status \in Pending
    BY <1>2, <1>5, <1>6, <2>3 DEF Pending
  <2>4. CASE \E g \in Fillers : tx[g].nonce = n /\ tx[g].status = "failed"
    <3>1. PICK g \in Fillers : tx[g].nonce = n /\ tx[g].status = "failed"
      BY <2>4
    <3>2. g # t /\ g # f /\ g \in Ids
      BY <1>1, <1>2, <3>1, IdsAssumption DEF Pending, Ids, t
    <3> QED BY <1>6, <3>1, <3>2
  <2> QED BY <2>1, <2>2, <2>3, <2>4
<1> QED BY <1>7, <1>8, <1>9, <1>10 DEF RowsInv, RowsKnown, DeepOnChain, NoNonceGap

LEMMA SubmitRows ==
  ASSUME Kept, NEW t \in Payloads, Submit(t)
  PROVE  RowsInv'
<1> DEFINE row == WithStatus(NoRow, "queued")
<1>1. /\ t \in Ids /\ tx[t].nonce = NoNonce /\ nextNonce' = nextNonce /\ tx[t].status = "none"
      /\ tx' = [tx EXCEPT ![t] = row] /\ tx \in [Ids -> Row]
      /\ UNCHANGED <<usedMax, foreign, head, used>> /\ head \in Nat /\ head <= head
      /\ nextNonce \in Nat
  BY DEF Submit, Ids, Kept, StoreInv, TypeOK, RowsOK, RowOK, chainVars
<1>2. row.nonce = NoNonce /\ row.status = "queued"
  BY DEF WithStatus, NoRow
<1> HIDE DEF row
<1>3. /\ tx'[t].nonce = NoNonce /\ tx'[t].status = "queued"
      /\ \A u \in Ids : u # t => tx'[u] = tx[u]
  BY <1>1, <1>2
<1>4. ASSUME NEW u \in Ids, tx'[u].status = "confirmed"
      PROVE  DeepOnChain(u, tx'[u], head', used')
  BY <1>1, <1>3, <1>4 DEF Kept, KnownInv, RowsKnown
<1>5. ASSUME NEW u \in Ids, tx'[u].nonce # NoNonce PROVE Ready(u)'
  <2>1. Ready(u)
    BY <1>3, <1>5 DEF Kept, KnownInv, RowsKnown
  <2> QED BY <2>1, ReadyKept DEF Kept
<1>6. ASSUME NEW u \in Ids PROVE tx'[u].status = "mined" => tx'[u].mined.block > 0
  BY <1>3 DEF Kept, KnownInv, RowsKnown
<1>7. ASSUME NEW n \in 0 .. nextNonce' - 1
      PROVE  \/ n < usedMax' \/ n \in foreign'
             \/ \E u \in Ids : tx'[u].nonce = n /\ tx'[u].status \in Pending
             \/ \E f \in Fillers : tx'[f].nonce = n /\ tx'[f].status = "failed"
  <2>1. \/ n < usedMax \/ n \in foreign
        \/ \E u \in Ids : tx[u].nonce = n /\ tx[u].status \in Pending
        \/ \E f \in Fillers : tx[f].nonce = n /\ tx[f].status = "failed"
    BY <1>1, <1>7 DEF Kept, KnownInv, NoNonceGap
  <2> QED BY <1>1, <1>3, <2>1 DEF Pending, Ids
<1> QED BY <1>4, <1>5, <1>6, <1>7 DEF RowsInv, RowsKnown, DeepOnChain, NoNonceGap

LEMMA SignerRows ==
  ASSUME Kept, SignerNext
  PROVE  RowsInv'
<1> DEFINE q == proc[Signer]
           view == proc[Signer].view
<1>0. /\ Signer \in Procs /\ StoreInv /\ Knows(q) /\ nextNonce \in Nat
      /\ usedMax \in Nat /\ usedMax' \in Nat /\ Len(used) \in Nat /\ Len(used) <= usedMax
  BY SignerIn, LenProperties
  DEF Kept, StoreInv, TypeOK, KnownInv, RunsKnow, BlocksInOrder
<1>1. CASE tx' = tx /\ nextNonce' = nextNonce
  BY <1>0, <1>1, NoWriteRows
<1>2. CASE RaiseNonce
  <2>1. PICK m \in PendingReads :
          /\ UNCHANGED <<tx, usedMax, foreign>>
          /\ nextNonce' = IF m > nextNonce THEN m ELSE nextNonce
    BY <1>2 DEF RaiseNonce, chainVars
  <2>2. m \in Nat /\ Len(used) .. m - 1 \subseteq Pooled
    BY <1>0, <2>1, PendingReadsNat DEF PendingReads
  <2>3. ASSUME NEW n \in nextNonce .. nextNonce' - 1
        PROVE  n < usedMax' \/ n \in foreign'
    <3>1. n \in Nat /\ nextNonce <= n /\ n < m
      BY <1>0, <2>1, <2>2, <2>3
    <3>2. CASE n < Len(used)
      BY <1>0, <2>1, <3>1, <3>2
    <3>3. CASE ~(n < Len(used))
      <4>1. n \in Pooled
        BY <1>0, <2>2, <3>1, <3>3
      <4>2. \A sig \in reached : sig.nonce \in Nat /\ sig.nonce < nextNonce
        BY <1>0 DEF Kept, KnownInv, NoncesBelow, StoreInv, TypeOK, Signature
      <4> QED BY <1>0, <2>1, <3>1, <4>1, <4>2 DEF Pooled
    <3> QED BY <3>2, <3>3
  <2> QED BY <2>1, <2>3, NoWriteRows
<1>3. CASE nextNonce' = nextNonce /\ PendingWrite(Signer)
  BY <1>0, <1>3, PendingRows
<1>4. CASE FailDependent
  <2>1. Writes(Signer, WithStatus(view, "failed")) /\ nextNonce' = nextNonce /\ q.pc = "dead-end"
    BY <1>4 DEF FailDependent, Writes
  <2>2. view \in Row /\ view.nonce = NoNonce
    BY <1>0, <2>1, WrittenRow DEF Knows
  <2>3. /\ SameHolder(view, WithStatus(view, "failed"))
        /\ WithStatus(view, "failed").status = "failed"
    BY <2>2, StatusKeeps DEF Status
  <2> QED BY <1>0, <2>1, <2>2, <2>3, SettledRows DEF Settled
<1>5. CASE AssignNonce
  <2> DEFINE row == [view EXCEPT !.nonce = nextNonce]
  <2>1. Writes(Signer, row) /\ nextNonce' = nextNonce + 1 /\ q.pc = "nonce"
    BY <1>5 DEF AssignNonce, Writes
  <2>2. view \in Row /\ view.nonce = NoNonce /\ view.status = "queued"
    BY <1>0, <2>1, RunFacts DEF RunOK, SignerPC
  <2>3. row.nonce = nextNonce /\ row.status = "queued"
    BY <2>2 DEF Row
  <2> HIDE DEF row
  <2>4. Covers(q.id, row, nextNonce)
    <3>1. row.nonce = nextNonce /\ row.status \in Pending
      BY <2>3 DEF Pending
    <3> QED BY <3>1 DEF Covers
  <2>5. Ready(q.id)
    BY <1>0, <2>1 DEF Knows
  <2>6. KnownWrite(Signer, row)
    BY <2>1, <2>2, <2>3, <2>4, <2>5 DEF KnownWrite
  <2> QED BY <1>0, <2>6, WriteRows
<1>6. CASE SignerDropNonce
  <2> DEFINE row == [view EXCEPT !.nonce = NoNonce, !.attempts = << >>]
  <2>1. /\ Writes(Signer, row) /\ nextNonce' = nextNonce /\ q.pc = "answered"
        /\ q.answer = "too-low"
    BY <1>6 DEF SignerDropNonce, Writes, Answered
  <2>2. view \in Row /\ view.status = "queued" /\ view.nonce < usedMax
    BY <1>0, <2>1, RunFacts DEF RunOK, SignerPC, Knows
  <2>3. row.nonce = NoNonce /\ row.status = "queued"
    BY <2>2 DEF Row
  <2> HIDE DEF row
  <2>4. Covers(q.id, row, view.nonce)
    BY <2>2 DEF Covers
  <2>5. KnownWrite(Signer, row)
    BY <2>1, <2>3, <2>4 DEF KnownWrite
  <2> QED BY <1>0, <2>5, WriteRows
<1> QED BY <1>0, <1>1, <1>2, <1>3, <1>4, <1>5, <1>6, SignerKind

LEMMA EitherRows ==
  ASSUME Kept, NEW p \in Procs, EitherNext(p)
  PROVE  RowsInv'
<1>0. StoreInv /\ nextNonce \in Nat /\ nextNonce' = nextNonce
  BY EitherKind DEF Kept, StoreInv, TypeOK
<1>1. CASE tx' = tx
  BY <1>0, <1>1, NoWriteRows
<1>2. CASE RefuseFiller(p)
  <2> DEFINE row == WithStatus(MarkRefused(proc[p].view, proc[p].n), "failed")
  <2>1. Writes(p, row) /\ proc[p].id \in Fillers
    BY <1>2 DEF RefuseFiller, Writes, Answered
  <2>2. SameHolder(proc[p].view, row) /\ row.status = "failed"
    <3>1. proc[p].view \in Row
      BY <1>0, <2>1, WrittenRow
    <3> QED BY <3>1, MarksKeep DEF Status
  <2> HIDE DEF row
  <2> QED BY <1>0, <2>1, <2>2, SettledRows DEF Settled
<1> QED BY <1>0, <1>1, <1>2, PendingRows, FillerRows, EitherKind

LEMMA KnownNext ==
  ASSUME StoreInv, KnownInv, [Next]_vars
  PROVE  KnownInv'
<1>1. Kept /\ BlocksInOrder'
  BY StoreInvNext, SettledNext, BlocksNext DEF Kept, KnownInv
<1>2. RowsInv'
  <2>1. CASE ChainNext \/ UNCHANGED vars
    <3>1. tx' = tx /\ nextNonce' = nextNonce /\ nextNonce \in Nat
      BY <2>1 DEF ChainNext, EmptyBlock, MineNonce, ForeignSend, Reorg, storeVars, vars, StoreInv, TypeOK
    <3> QED BY <1>1, <3>1, NoWriteRows
  <2> QED BY <1>1, <2>1, SubmitRows, SignerRows, SweeperRows, EitherRows DEF Next
<1>3. NoncesBelow'
  BY NoncesBelowNext DEF KnownInv
<1> QED BY <1>1, <1>2, <1>3, RunsNext DEF KnownInv, RowsInv

LEMMA KnownInit == Init => KnownInv
<1> SUFFICES ASSUME Init PROVE KnownInv
  OBVIOUS
<1>1. \A t \in Ids : tx[t].status = "none" /\ tx[t].nonce = NoNonce
  BY DEF Init, NoRow
<1>2. BlocksInOrder /\ NoNonceGap
  BY EmptySeq DEF Init, BlocksInOrder, NoNonceGap
<1>3. RunsKnow
  BY DEF Init, RunsKnow, Knows, Idle
<1>4. NoncesBelow
  BY DEF Init, NoncesBelow, HoldersInv, NonceHolders, NoRow, NoNonce, Ids
<1> QED BY <1>1, <1>2, <1>3, <1>4 DEF KnownInv, RowsKnown

LEMMA KnownAlways == Spec => [](StoreInv /\ KnownInv)
<1>1. Init => KnownInv
  BY KnownInit
<1>2. StoreInv /\ KnownInv /\ [Next]_vars => KnownInv'
  BY KnownNext
<1> QED BY <1>1, <1>2, StoreInvAlways, PTL DEF Spec

\* What a client is told is confirmed is on the chain, in the block that the row
\* names and below any reorg, although a sweep compares with a head it read early.
THEOREM ConfirmedIsFinal == Spec => []ConfirmedIsMined
<1>1. KnownInv => ConfirmedIsMined
  BY DEF KnownInv, RowsKnown, DeepOnChain, OnChain, ConfirmedIsMined, IsMined, Sig
<1> QED BY <1>1, KnownAlways, PTL

\* Below the counter every nonce was used, is held by a transaction under way, is a
\* refused filler's or one at which another sender has sent, although the counter is
\* raised to counts with pending transactions: no step of another run loses one.
THEOREM NoNonceLost == Spec => []NoNonceGap
<1>1. KnownInv => NoNonceGap
  BY DEF KnownInv
<1> QED BY <1>1, KnownAlways, PTL

\* A signature is sent by a run that holds a nonce, so its row has that nonce.
ReachedReady == \A sig \in reached : Ready(sig.id)

LEMMA ReachedReadyNext ==
  ASSUME StoreInv, KnownInv, ReachedReady, [Next]_vars
  PROVE  ReachedReady'
<1>1. ASSUME NEW p \in Procs, reached' \subseteq reached \cup {Sig(proc[p].id, proc[p].view, proc[p].n)},
             proc[p].pc = "send"
      PROVE  ReachedReady'
  <2>1. proc[p].id \in Ids /\ tx[proc[p].id].nonce # NoNonce
    BY <1>1, RunFacts, SignerIn DEF RunOK, Related, SweeperPC, SentSince, NoNonce, Procs
  <2>2. Ready(proc[p].id)
    BY <2>1 DEF KnownInv, RowsKnown
  <2>3. \A sig \in reached' : Ready(sig.id)
    BY <1>1, <2>2 DEF ReachedReady, Sig
  <2>4. ASSUME NEW sig \in reached' PROVE Ready(sig.id)'
    BY <2>3, SettledNext, ReadyKept
  <2> QED BY <2>4 DEF ReachedReady
<1>2. CASE reached' = reached
  <2>1. ASSUME NEW sig \in reached PROVE Ready(sig.id)'
    BY SettledNext, ReadyKept DEF ReachedReady
  <2> QED BY <1>2, <2>1 DEF ReachedReady
<1>3. ASSUME NEW s \in Sweepers, SweeperNext(s)
      PROVE  reached' = reached
  BY <1>3 DEF SweeperNext, SweepRead, SweepDone, ReadActive, Unpause, Requeue, SweepReorged,
     SweepConfirmed, SweepFound, MarkMined, ConfirmMined, StampUsed, WalkEmpty, FailUsed,
     NonceUnused, SaveProgress, Replace, Rebroadcast, RebroadcastTaken,
     RebroadcastUnderpriced, ReplaceTaken, ReplaceUnderpriced, SweepNoFunds, SweepTooLow,
     chainVars
<1>4. ASSUME NEW p \in Procs, EitherNext(p)
      PROVE  ReachedReady'
  <2>1. CASE Send(p) \/ SendTimedOut(p)
    BY <1>1, <2>1 DEF Send, SendTimedOut
  <2> QED BY <1>2, <1>4, <2>1 DEF EitherNext, RefuseMarked, RefuseFiller, FailWithFiller, SaveWithFiller,
     Abort, chainVars
<1>5. CASE SignerNext
  BY <1>2, <1>5 DEF SignerNext, SignerSkip, SignerTake, FailDependent, RaiseNonce,
     AssignNonce, SignAttempt, SignerSubmitted, SignerUnderpriced, SignerNoFunds,
     SignerTooLowSubmitted, SignerDropNonce, chainVars
<1>6. CASE (\E t \in Payloads : Submit(t)) \/ ChainNext \/ UNCHANGED vars
  BY <1>2, <1>6 DEF Submit, ChainNext, EmptyBlock, MineNonce, ForeignSend, Reorg, chainVars, vars
<1> QED BY <1>2, <1>3, <1>4, <1>5, <1>6 DEF Next

\* Nothing of a dependent transaction reaches a node before its dependency is
\* confirmed and successful: only then does it take a nonce, and no step later
\* takes the dependency's success back.
THEOREM DependenciesFirst == Spec => []DependencyFirst
<1>1. Init => ReachedReady
  BY DEF Init, ReachedReady
<1>2. StoreInv /\ KnownInv /\ ReachedReady /\ [Next]_vars => ReachedReady'
  BY ReachedReadyNext
<1>3. ReachedReady => DependencyFirst
  BY DEF ReachedReady, Ready, DependencyFirst
<1> QED BY <1>1, <1>2, <1>3, KnownAlways, PTL DEF Spec

(***************************************************************************)
(* What is reported as failed is not executed                              *)
(***************************************************************************)
\* What it takes: no answer of a node is lost, sweeps do not overlap, and a used
\* nonce is waited out for as long as a reorg reaches, of which there is one at most.
Reliable ==
  /\ ~LostAnswers /\ ~TriesTimeOut
  /\ \A s, u \in Sweepers : s = u
  /\ MaxReorgs <= 1 /\ Confirmations <= AgeBlocks + 1

\* A run that writes a transaction that was sent, or the signer's, has its row.
FreshRuns ==
  \A p \in Procs :
    proc[p].pc # "idle" /\ (p = Signer \/ proc[p].view.status # "queued") => proc[p].fresh

TakenAnswer(p) == proc[p].pc = "answered" /\ proc[p].answer \in {"taken", "unknown"}

\* That a node took a signature is on its row, or is about to be.
TakenMarked ==
  \A sig \in reached :
    \/ tx[sig.id].attempts[sig.n].accepted
    \/ \E p \in Procs : TakenAnswer(p) /\ proc[p].id = sig.id /\ proc[p].n = sig.n

\* The nonce was used at `time`, and is as long as no reorg came since.
UsedBy(nonce, time) ==
  \/ reorgs >= MaxReorgs
  \/ nonce + 1 \in DOMAIN used /\ used[nonce + 1].block <= time

StampFits(row) ==
  row.usedAt # NoStamp => row.status \notin {"none", "queued"} /\ UsedBy(row.nonce, row.usedAt.time)

\* Another transaction has the nonce for good.
Gone(t, nonce) ==
  /\ nonce + 1 \in DOMAIN used /\ used[nonce + 1].sig.id # t
  /\ Deep(used[nonce + 1].block, head) \/ reorgs >= MaxReorgs

FailedGone ==
  /\ \A t \in Ids : tx[t].status = "failed" => Unsent(t) \/ Gone(t, tx[t].nonce)
  /\ \A p \in Procs : proc[p].pc = "fail" => Gone(proc[p].id, proc[p].view.nonce)

ReliableInv ==
  /\ ChainInv /\ KnownInv
  /\ FreshRuns /\ TakenMarked /\ FailedGone
  /\ \A t \in Ids : StampFits(tx[t])

LEMMA InvNeverMined == ReliableInv => FailedNeverMined
<1> SUFFICES ASSUME ReliableInv, NEW i \in DOMAIN used, used[i].sig.id # NoTx,
                    tx[used[i].sig.id].status = "failed"
             PROVE  FALSE
  BY DEF FailedNeverMined
<1> DEFINE sig == used[i].sig
<1>1. sig \in reached /\ sig.nonce = i - 1 /\ i \in Nat
  BY LenProperties DEF ReliableInv, ChainInv, UsedInOrder, StoreInv, TypeOK
<1>2. sig.id \in Ids /\ sig.nonce = tx[sig.id].nonce
  BY <1>1 DEF ReliableInv, ChainInv, ReachedIsListed, StoreInv, TypeOK, Signature
<1>3. Gone(sig.id, tx[sig.id].nonce)
  BY <1>1, <1>2 DEF ReliableInv, FailedGone, Unsent
<1>4. tx[sig.id].nonce + 1 = i
  BY <1>1, <1>2
<1> QED
  BY <1>3, <1>4 DEF Gone

\* No other run holds a transaction that was sent, nor one that the signer is on.
LEMMA OnlyOneHolds ==
  ASSUME Reliable, StoreInv, NEW p \in Procs, NEW q \in Procs, p # q,
         proc[p].pc # "idle", proc[q].pc # "idle", proc[p].id = proc[q].id,
         p = Signer \/ proc[p].view.status # "queued",
         q = Signer \/ proc[q].view.status # "queued"
  PROVE  FALSE
<1>1. p = Signer \/ q = Signer
  BY DEF Reliable, Procs
<1>2. ASSUME NEW s \in Procs, s # Signer, proc[s].pc # "idle", proc[Signer].pc # "idle",
             proc[s].id = proc[Signer].id, proc[s].view.status # "queued"
      PROVE  FALSE
  <2>1. /\ RunOK(Signer, proc[Signer]) /\ Related(Signer, proc[Signer], tx[proc[s].id])
        /\ RunOK(s, proc[s]) /\ Related(s, proc[s], tx[proc[s].id])
    BY <1>2, SignerIn, RunFacts
  <2>2. tx[proc[s].id].status = "queued"
    BY <2>1 DEF RunOK, SignerPC, Related
  <2>3. proc[s].view.status \in {"submitted", "mined"} /\ SentSince(proc[s].view, tx[proc[s].id])
    BY <1>2, <2>1 DEF RunOK, Related, Pending
  <2> QED
    BY <2>2, <2>3 DEF SentSince
<1> QED
  BY <1>1, <1>2

(***************************************************************************)
(* What a step does to the rows and the runs                               *)
(***************************************************************************)
KeepsAccepted(old, new) ==
  \A i \in DOMAIN old.attempts : old.attempts[i].accepted => new.attempts[i].accepted

\* A row goes on with what nodes took of it, and its stamp at most cleared.
RowKept(old, new) ==
  /\ KeepsSignatures(old, new) /\ KeepsAccepted(old, new)
  /\ new.usedAt \in {old.usedAt, NoStamp}
  /\ new.status \in {"none", "queued"} => new.status = old.status

RowStamped(old, new) ==
  /\ KeepsSignatures(old, new) /\ KeepsAccepted(old, new)
  /\ new.status = "submitted" /\ new.nonce \in 0 .. Len(used) - 1 /\ new.usedAt.time = head

\* A row that nothing was sent of.
RowNew(t) ==
  /\ Unsent(t) /\ tx'[t].usedAt = NoStamp
  /\ tx'[t].status = "queued" /\ tx[t].status \in {"none", "queued"}

RowStep(t) == RowKept(tx[t], tx'[t]) \/ RowStamped(tx[t], tx'[t]) \/ RowNew(t)

Fails(p) == FailUsed(p) \/ RefuseFiller(p) \/ FailWithFiller(p) \/ (p = Signer /\ FailDependent)

\* p's write makes another run's version old.
MadeStale(p, q) ==
  /\ proc'[q] = [proc[q] EXCEPT !.fresh = FALSE]
  /\ proc[q].id = proc[p].id /\ proc[p].pc # "idle"
  /\ p = Signer \/ proc[p].view.status # "queued" \/ proc[Signer].id # proc[p].id

Moves(p) ==
  /\ \A q \in Procs \ {p} : proc'[q] = proc[q] \/ MadeStale(p, q)
  /\ \/ proc'[p].pc = "idle" \/ proc'[p].fresh
     \/ proc[p].pc # "idle" /\ proc'[p].view = proc[p].view /\ proc'[p].fresh = proc[p].fresh
  /\ proc'[p].pc = "fail" => WalkEmpty(p)
  /\ TakenAnswer(p) => tx'[proc[p].id].attempts[proc[p].n].accepted
  /\ \A t \in Ids : RowStep(t)
  /\ \A t \in Ids : tx'[t].status = "failed" /\ tx[t].status # "failed" =>
       proc[p].id = t /\ Fails(p)

LEMMA RowIsKept == \A row : RowKept(row, row)
BY DEF RowKept, KeepsSignatures, KeepsAccepted

\* A step that writes no row.
LEMMA NoWriteMoves ==
  ASSUME StoreInv, NEW p \in Procs, NEW next, tx' = tx, proc' = [proc EXCEPT ![p] = next],
         \/ next.pc = "idle" \/ next.fresh
         \/ proc[p].pc # "idle" /\ next.view = proc[p].view /\ next.fresh = proc[p].fresh,
         next.pc = "fail" => WalkEmpty(p),
         TakenAnswer(p) => tx[proc[p].id].attempts[proc[p].n].accepted
  PROVE  Moves(p)
<1>1. proc'[p] = next /\ \A q \in Procs \ {p} : proc'[q] = proc[q]
  BY DEF StoreInv, TypeOK
<1> QED
  BY <1>1, RowIsKept DEF Moves, RowStep

\* A write over the row that the run holds.
LEMMA WriteMoves ==
  ASSUME StoreInv, NEW p \in Procs, NEW row, NEW next, SaveTx(p, row, next), proc[p].pc # "idle",
         \/ RowKept(proc[p].view, row) \/ RowStamped(proc[p].view, row)
         \/ /\ Unsent(proc[p].id) /\ row.usedAt = NoStamp
            /\ row.status = "queued" /\ proc[p].view.status = "queued",
         p = Signer \/ proc[p].view.status # "queued" \/ proc[Signer].id # proc[p].id,
         next.pc = "idle" \/ next.fresh, next.pc # "fail",
         row.status = "failed" => Fails(p),
         TakenAnswer(p) => row.attempts[proc[p].n].accepted
  PROVE  Moves(p)
<1>1. /\ proc[p].id \in Ids /\ tx[proc[p].id] = proc[p].view
      /\ tx' = [tx EXCEPT ![proc[p].id] = row] /\ tx \in [Ids -> Row]
  BY RunFacts DEF SaveTx, Related, StoreInv, TypeOK
<1>2. /\ proc'[p] = next
      /\ \A q \in Procs \ {p} :
           \/ proc'[q] = proc[q]
           \/ proc'[q] = [proc[q] EXCEPT !.fresh = FALSE] /\ proc[q].id = proc[p].id
  BY DEF SaveTx
<1>3. tx'[proc[p].id] = row /\ \A t \in Ids : t # proc[p].id => tx'[t] = tx[t]
  BY <1>1
<1>4. \A t \in Ids : RowStep(t)
  BY <1>1, <1>3, RowIsKept DEF RowStep, RowNew
<1> QED
  BY <1>1, <1>2, <1>3, <1>4 DEF Moves, MadeStale

(***************************************************************************)
(* What the runs write                                                     *)
(***************************************************************************)
LEMMA KeptTwice ==
  ASSUME NEW a, NEW b, NEW c, RowKept(a, b), RowKept(b, c)
  PROVE  RowKept(a, c)
BY DEF RowKept, KeepsSignatures, KeepsAccepted

LEMMA KeptFields ==
  ASSUME NEW row \in Row
  PROVE  /\ \A st \in Status \ {"none", "queued"} : RowKept(row, WithStatus(row, st))
         /\ RowKept(row, [row EXCEPT !.usedAt = NoStamp])
         /\ RowKept(row, [row EXCEPT !.status = "submitted", !.mined = NoMined])
         /\ \A m : RowKept(row, [row EXCEPT !.status = "mined", !.usedAt = NoStamp, !.mined = m])
BY DEF RowKept, KeepsSignatures, KeepsAccepted, WithStatus, Row, Status

LEMMA KeptMarks ==
  ASSUME NEW row \in Row, NEW i \in DOMAIN row.attempts
  PROVE  /\ RowKept(row, MarkAccepted(row, i)) /\ MarkAccepted(row, i).attempts[i].accepted
         /\ RowKept(row, MarkRefused(row, i))
         /\ \A st \in Status \ {"none", "queued"} :
              /\ RowKept(row, WithStatus(MarkAccepted(row, i), st))
              /\ WithStatus(MarkAccepted(row, i), st).attempts[i].accepted
              /\ RowKept(row, WithStatus(MarkRefused(row, i), st))
         /\ RowKept(row, [row EXCEPT !.attempts[i] = [accepted |-> TRUE, refused |-> FALSE]])
<1>1. row.attempts \in Seq(Attempt) /\ \A j \in DOMAIN row.attempts : row.attempts[j] \in Attempt
  BY ElementOfSeq, LenProperties DEF Row
<1>2. /\ MarkAccepted(row, i) \in Row /\ MarkRefused(row, i) \in Row
      /\ DOMAIN MarkAccepted(row, i).attempts = DOMAIN row.attempts
      /\ DOMAIN MarkRefused(row, i).attempts = DOMAIN row.attempts
  BY MarkAcceptedRow, MarkRefusedRow
<1>3. ASSUME NEW a \in Attempt, row.attempts[i].accepted => a.accepted
      PROVE  /\ RowKept(row, [row EXCEPT !.attempts = [row.attempts EXCEPT ![i] = a]])
             /\ [row EXCEPT !.attempts = [row.attempts EXCEPT ![i] = a]].attempts[i] = a
  BY <1>1, <1>3 DEF RowKept, KeepsSignatures, KeepsAccepted, Row
<1>4. /\ RowKept(row, MarkAccepted(row, i)) /\ MarkAccepted(row, i).attempts[i].accepted
      /\ RowKept(row, MarkRefused(row, i))
  <2>1. PICK a, b : /\ a = [row.attempts[i] EXCEPT !.accepted = TRUE]
                    /\ b = [row.attempts[i] EXCEPT !.refused = TRUE]
    OBVIOUS
  <2>2. /\ a \in Attempt /\ b \in Attempt /\ a.accepted
        /\ row.attempts[i].accepted => b.accepted
    BY <1>1, <2>1 DEF Attempt
  <2>3. /\ MarkAccepted(row, i) = [row EXCEPT !.attempts = [row.attempts EXCEPT ![i] = a]]
        /\ MarkRefused(row, i) = [row EXCEPT !.attempts = [row.attempts EXCEPT ![i] = b]]
    BY <2>1 DEF MarkAccepted, MarkRefused
  <2> QED BY <1>3, <2>2, <2>3
<1>5. RowKept(row, [row EXCEPT !.attempts[i] = [accepted |-> TRUE, refused |-> FALSE]])
  <2>1. PICK a : a = [accepted |-> TRUE, refused |-> FALSE]
    OBVIOUS
  <2>2. a \in Attempt /\ a.accepted
    BY <2>1 DEF Attempt
  <2> QED BY <1>3, <2>1, <2>2
<1>6. ASSUME NEW st \in Status \ {"none", "queued"}
      PROVE  /\ RowKept(row, WithStatus(MarkAccepted(row, i), st))
             /\ WithStatus(MarkAccepted(row, i), st).attempts[i].accepted
             /\ RowKept(row, WithStatus(MarkRefused(row, i), st))
  <2>1. WithStatus(MarkAccepted(row, i), st).attempts = MarkAccepted(row, i).attempts
    BY <1>2 DEF WithStatus, Row
  <2> QED BY <1>2, <1>4, <2>1, KeptFields, KeptTwice
<1> QED BY <1>4, <1>5, <1>6

LEMMA KeptMined ==
  ASSUME NEW row \in Row, NEW i \in DOMAIN row.attempts, NEW m
  PROVE  RowKept(row, [MarkAccepted(row, i) EXCEPT !.status = "mined", !.usedAt = NoStamp, !.mined = m])
BY KeptMarks, KeptFields, KeptTwice, MarkAcceptedRow

LEMMA KeptReplaced ==
  ASSUME NEW row \in Row
  PROVE  RowKept(row, [row EXCEPT !.attempts = Append(@, NewAttempt)])
<1>1. row.attempts \in Seq(Attempt) /\ NewAttempt \in Attempt
  BY DEF Row, NewAttempt, Attempt
<1>2. PICK seq : seq = Append(row.attempts, NewAttempt)
  OBVIOUS
<1>3. DOMAIN row.attempts \subseteq DOMAIN seq /\ \A i \in DOMAIN row.attempts : seq[i] = row.attempts[i]
  BY <1>1, <1>2, AppendProperties, LenProperties
<1>4. RowKept(row, [row EXCEPT !.attempts = seq])
  BY <1>3 DEF RowKept, KeepsSignatures, KeepsAccepted, Row
<1> QED BY <1>2, <1>4

(***************************************************************************)
(* A sweeper's steps                                                       *)
(***************************************************************************)
\* The run goes on with what it holds.
LEMMA OnwardMoves ==
  ASSUME StoreInv, NEW p \in Procs, NEW next, tx' = tx, proc[p].pc # "idle", ~TakenAnswer(p),
         proc' = [proc EXCEPT ![p] = next],
         next.view = proc[p].view, next.fresh = proc[p].fresh,
         next.pc = "fail" => WalkEmpty(p)
  PROVE  Moves(p)
BY NoWriteMoves

LEMMA FinishMoves ==
  ASSUME StoreInv, NEW p \in Procs, tx' = tx, Finish(p),
         TakenAnswer(p) => tx[proc[p].id].attempts[proc[p].n].accepted
  PROVE  Moves(p)
<1>1. Idle.pc = "idle"
  BY IdleProc
<1> QED BY <1>1, NoWriteMoves DEF Finish

\* A sweeper writes over a row that was sent, but for a row it only requeues.
LEMMA SweeperSaveMoves ==
  ASSUME StoreInv, NEW s \in Sweepers, NEW row, NEW next, SaveTx(s, row, next),
         proc[s].pc # "idle", proc[s].view.status # "queued",
         RowKept(proc[s].view, row) \/ RowStamped(proc[s].view, row),
         next.pc = "idle" \/ next.fresh, next.pc # "fail",
         row.status = "failed" => Fails(s),
         TakenAnswer(s) => row.attempts[proc[s].n].accepted
  PROVE  Moves(s)
BY SignerIn, WriteMoves

\* Its next state after a write, that holds what was written.
LEMMA HoldingFresh ==
  ASSUME StoreInv, NEW p \in Procs, proc[p].fresh, NEW row, NEW pc
  PROVE  /\ Holding(p, row, pc).pc = pc /\ Holding(p, row, pc).fresh
         /\ \A n, how : LET next == [Holding(p, row, pc) EXCEPT !.n = n, !.how = how]
                        IN  next.pc = pc /\ next.fresh
BY DEF Holding, StoreInv, TypeOK, Proc

LEMMA SweeperMoves ==
  ASSUME Reliable, StoreInv, FreshRuns, NEW s \in Sweepers, SweeperNext(s)
  PROVE  Moves(s)
<1> DEFINE q == proc[s]
           view == proc[s].view
           n == proc[s].n
<1>0. s \in Procs /\ s # Signer /\ Idle.pc = "idle"
  BY SignerIn, IdleProc
<1>1. CASE \E t \in Ids : SweepRead(s, t)
  <2>1. PICK t \in Ids : SweepRead(s, t)
    BY <1>1
  <2>2. PICK h, next : /\ next = [Idle EXCEPT !.pc = "view", !.id = t, !.view = tx[t],
                                              !.fresh = TRUE, !.head = h]
                       /\ proc' = [proc EXCEPT ![s] = next]
    BY <2>1 DEF SweepRead
  <2>3. next.fresh /\ next.pc = "view" /\ tx' = tx /\ ~TakenAnswer(s)
    BY <2>1, <2>2 DEF SweepRead, Idle, storeVars, TakenAnswer
  <2> QED BY <1>0, <2>2, <2>3, NoWriteMoves
<1>2. CASE SweepDone(s) \/ SweepTooLow(s)
  BY <1>0, <1>2, FinishMoves DEF SweepDone, SweepTooLow, Answered, TakenAnswer, storeVars
<1>3. CASE ReadActive(s) \/ Unpause(s) \/ SweepFound(s) \/ WalkEmpty(s) \/ Rebroadcast(s)
  <2>1. tx' = tx /\ q.pc \in {"view", "bump", "resend"}
    BY <1>3 DEF ReadActive, Unpause, SweepFound, WalkEmpty, Rebroadcast, Viewing, storeVars
  <2>2. q.pc # "idle" /\ ~TakenAnswer(s)
    BY <2>1 DEF TakenAnswer
  <2>3. CASE ReadActive(s) \/ Unpause(s)
    <3>1. PICK pc \in {"active", "resumed"} : Goto(s, pc)
      BY <2>3 DEF ReadActive, Unpause
    <3>2. PICK next : next = [q EXCEPT !.pc = pc]
      OBVIOUS
    <3>3. proc' = [proc EXCEPT ![s] = next] /\ next.view = view /\ next.fresh = q.fresh /\ next.pc = pc
      BY <1>0, <3>1, <3>2 DEF Goto, StoreInv, TypeOK, Proc
    <3> QED BY <1>0, <2>1, <2>2, <3>1, <3>3, OnwardMoves
  <2>4. CASE SweepFound(s)
    <3>1. PICK i, b : proc' = [proc EXCEPT ![s].pc = "mark", ![s].n = i, ![s].block = b]
      BY <2>4 DEF SweepFound
    <3>2. PICK next : next = [q EXCEPT !.pc = "mark", !.n = i, !.block = b]
      OBVIOUS
    <3>3. proc' = [proc EXCEPT ![s] = next]
      BY <1>0, <3>1, <3>2 DEF StoreInv, TypeOK
    <3>4. next.view = view /\ next.fresh = q.fresh /\ next.pc = "mark"
      BY <1>0, <3>2 DEF StoreInv, TypeOK, Proc
    <3> QED BY <1>0, <2>1, <2>2, <3>3, <3>4, OnwardMoves
  <2>5. CASE WalkEmpty(s)
    <3>1. PICK next : next = [q EXCEPT !.pc = "fail"]
      OBVIOUS
    <3>2. proc' = [proc EXCEPT ![s] = next] /\ next.view = view /\ next.fresh = q.fresh
      BY <1>0, <2>5, <3>1 DEF WalkEmpty, Goto, StoreInv, TypeOK, Proc
    <3> QED BY <1>0, <2>1, <2>2, <2>5, <3>2, OnwardMoves
  <2>6. CASE Rebroadcast(s)
    <3>1. PICK i, how : proc' = [proc EXCEPT ![s].pc = "send", ![s].n = i, ![s].how = how]
      BY <2>6 DEF Rebroadcast
    <3>2. PICK next : next = [q EXCEPT !.pc = "send", !.n = i, !.how = how]
      OBVIOUS
    <3>3. proc' = [proc EXCEPT ![s] = next]
      BY <1>0, <3>1, <3>2 DEF StoreInv, TypeOK
    <3>4. next.view = view /\ next.fresh = q.fresh /\ next.pc = "send"
      BY <1>0, <3>2 DEF StoreInv, TypeOK, Proc
    <3> QED BY <1>0, <2>1, <2>2, <3>3, <3>4, OnwardMoves
  <2> QED BY <1>3, <2>3, <2>4, <2>5, <2>6
<1>4. CASE SweepNoFunds(s)
  <2>1. tx' = tx /\ q.pc = "answered" /\ ~TakenAnswer(s)
    BY <1>4 DEF SweepNoFunds, Answered, TakenAnswer
  <2>2. CASE Finish(s)
    BY <1>0, <2>1, <2>2, FinishMoves
  <2>3. CASE proc' = [proc EXCEPT ![s].answer = "underpriced"]
    <3>1. PICK next : next = [q EXCEPT !.answer = "underpriced"]
      OBVIOUS
    <3>2. next.pc = "answered" /\ next.view = view /\ next.fresh = q.fresh
      BY <1>0, <2>1, <3>1 DEF StoreInv, TypeOK, Proc
    <3>3. proc' = [proc EXCEPT ![s] = next]
      BY <2>3, <3>1
    <3> QED BY <1>0, <2>1, <3>2, <3>3, NoWriteMoves
  <2> QED BY <1>4, <2>2, <2>3 DEF SweepNoFunds
<1>5. CASE Requeue(s)
  <2>1. q.pc \in {"active", "resumed"} /\ SaveTx(s, view, Idle) /\ proc[Signer].id # q.id
    BY <1>5 DEF Requeue, SignerUndisturbed, Reliable
  <2>2. view.status = "queued" /\ ~TakenAnswer(s)
    BY <2>1, SweeperFacts DEF RunOK, SweeperPC, TakenAnswer
  <2> QED BY <1>0, <2>1, <2>2, WriteMoves, RowIsKept
<1>6. CASE SweepReorged(s) \/ SweepConfirmed(s) \/ ConfirmMined(s) \/ FailUsed(s) \/ StampUsed(s)
  <2>1. q.pc \in {"view", "confirm", "fail"}
    BY <1>6 DEF SweepReorged, SweepConfirmed, ConfirmMined, FailUsed, StampUsed, Viewing
  <2>2. view \in Row /\ view.status # "queued" /\ q.pc # "idle" /\ ~TakenAnswer(s)
    BY <1>0, <1>6, <2>1, SweeperFacts
    DEF RunOK, SweeperPC, TakenAnswer, SweepReorged, SweepConfirmed, StampUsed, Viewing, ConfirmMined, FailUsed
  <2>3. CASE SweepReorged(s)
    <3>1. PICK row : row = [view EXCEPT !.status = "submitted", !.mined = NoMined]
      OBVIOUS
    <3>2. PICK next : next = [Holding(s, row, "send") EXCEPT !.n = view.mined.n, !.how = "rebroadcast"]
      OBVIOUS
    <3>3. SaveTx(s, row, next) /\ q.fresh
      BY <2>3, <3>1, <3>2 DEF SweepReorged, SaveTx
    <3>4. RowKept(view, row) /\ row.status = "submitted"
      BY <2>2, <3>1, KeptFields DEF Row
    <3>5. next.pc = "send" /\ next.fresh
      BY <1>0, <3>2, <3>3, HoldingFresh
    <3> QED BY <2>2, <3>3, <3>4, <3>5, SweeperSaveMoves
  <2>4. CASE SweepConfirmed(s) \/ ConfirmMined(s) \/ FailUsed(s)
    <3>1. PICK st \in {"confirmed", "failed"} :
            SaveTx(s, WithStatus(view, st), Idle) /\ (st = "failed" => FailUsed(s))
      BY <2>4 DEF SweepConfirmed, ConfirmMined, FailUsed
    <3>2. RowKept(view, WithStatus(view, st)) /\ WithStatus(view, st).status = st
      BY <2>2, KeptFields DEF WithStatus, Row, Status
    <3> QED BY <1>0, <2>2, <3>1, <3>2, SweeperSaveMoves DEF Fails
  <2>5. CASE StampUsed(s)
    <3>1. PICK row : row = [view EXCEPT !.usedAt = [block |-> q.head, time |-> head]]
      OBVIOUS
    <3>2. SaveTx(s, row, Idle) /\ view.status = "submitted" /\ \E m \in NonceReads : m > view.nonce
      BY <2>5, <3>1 DEF StampUsed, Viewing
    <3>3. view.nonce \in 0 .. Len(used) - 1
      <4>1. view.nonce \in Nat /\ Len(used) \in Nat
        BY <2>2, <3>2, SweeperFacts, LenProperties DEF RunOK, RowOK, StoreInv, TypeOK
      <4> QED BY <3>2, <4>1 DEF NonceReads
    <3>4. RowStamped(view, row)
      BY <2>2, <3>1, <3>2, <3>3 DEF RowStamped, KeepsSignatures, KeepsAccepted, Row
    <3> QED BY <1>0, <2>2, <3>2, <3>4, SweeperSaveMoves DEF RowStamped
  <2> QED BY <1>6, <2>3, <2>4, <2>5
<1>7. CASE MarkMined(s)
  <2>1. /\ view \in Row /\ view.status = "submitted" /\ n \in DOMAIN view.attempts /\ q.pc = "mark"
        /\ ~TakenAnswer(s)
    BY <1>7, SweeperFacts DEF MarkMined, RunOK, SweeperPC, TakenAnswer
  <2>2. PICK m : m = [n |-> n, block |-> q.block]
    OBVIOUS
  <2>3. PICK row : row = [MarkAccepted(view, n) EXCEPT !.status = "mined", !.usedAt = NoStamp, !.mined = m]
    OBVIOUS
  <2>4. q.fresh /\ (SaveTx(s, row, Holding(s, row, "confirm")) \/ SaveTx(s, row, Idle))
    BY <1>7, <2>2, <2>3 DEF MarkMined, SaveTx
  <2>5. RowKept(view, row) /\ row.status = "mined"
    BY <2>1, <2>3, KeptMined, MarkAcceptedRow DEF Row
  <2>6. Holding(s, row, "confirm").pc = "confirm" /\ Holding(s, row, "confirm").fresh
    BY <1>0, <2>4, HoldingFresh
  <2> QED BY <1>0, <2>1, <2>4, <2>5, <2>6, SweeperSaveMoves
<1>8. CASE NonceUnused(s)
  <2>1. view \in Row /\ view.status = "submitted" /\ q.pc = "view" /\ ~TakenAnswer(s)
    BY <1>8, SweeperFacts DEF NonceUnused, Viewing, TakenAnswer
  <2>2. PICK row : row = [view EXCEPT !.usedAt = NoStamp]
    OBVIOUS
  <2>3. PICK pc \in {"bump", "resend"} :
          (tx' = tx /\ Goto(s, pc)) \/ SaveTx(s, row, Holding(s, row, pc))
    BY <1>8, <2>2 DEF NonceUnused
  <2>4. CASE tx' = tx /\ Goto(s, pc)
    <3>1. PICK next : next = [q EXCEPT !.pc = pc]
      OBVIOUS
    <3>2. proc' = [proc EXCEPT ![s] = next] /\ next.view = view /\ next.fresh = q.fresh /\ next.pc = pc
      BY <1>0, <2>4, <3>1 DEF Goto, StoreInv, TypeOK, Proc
    <3> QED BY <1>0, <2>1, <2>3, <2>4, <3>2, OnwardMoves
  <2>5. CASE SaveTx(s, row, Holding(s, row, pc))
    <3>1. RowKept(view, row) /\ row.status = "submitted" /\ q.fresh
      BY <2>1, <2>2, <2>5, KeptFields DEF Row, SaveTx
    <3>2. Holding(s, row, pc).pc = pc /\ Holding(s, row, pc).fresh
      BY <1>0, <3>1, HoldingFresh
    <3> QED BY <2>1, <2>3, <2>5, <3>1, <3>2, SweeperSaveMoves
  <2> QED BY <2>3, <2>4, <2>5
<1>9. CASE SaveProgress(s)
  <2>1. view.status = "submitted" /\ q.pc \in {"view", "bump"}
    BY <1>9, SweeperFacts DEF SaveProgress, Viewing, RunOK, SweeperPC
  <2>2. SaveTx(s, view, Idle) \/ SaveTx(s, view, q)
    BY <1>9 DEF SaveProgress
  <2>3. q.fresh /\ ~TakenAnswer(s)
    BY <2>1, <2>2 DEF SaveTx, TakenAnswer
  <2> QED BY <1>0, <2>1, <2>2, <2>3, RowIsKept, SweeperSaveMoves
<1>10. CASE Replace(s)
  <2>1. view \in Row /\ view.status = "submitted" /\ q.pc = "bump" /\ ~TakenAnswer(s)
    BY <1>10, SweeperFacts DEF Replace, RunOK, SweeperPC, TakenAnswer
  <2>2. PICK row : row = [view EXCEPT !.attempts = Append(@, NewAttempt)]
    OBVIOUS
  <2>3. PICK next : next = [Holding(s, row, "send") EXCEPT !.n = Len(view.attempts) + 1, !.how = "replace"]
    OBVIOUS
  <2>4. SaveTx(s, row, next) /\ q.fresh
    BY <1>10, <2>2, <2>3 DEF Replace, SaveTx
  <2>5. RowKept(view, row) /\ row.status = "submitted"
    BY <2>1, <2>2, KeptReplaced DEF Row
  <2>6. next.pc = "send" /\ next.fresh
    BY <1>0, <2>3, <2>4, HoldingFresh
  <2> QED BY <2>1, <2>4, <2>5, <2>6, SweeperSaveMoves
<1>11. CASE \/ RebroadcastTaken(s) \/ RebroadcastUnderpriced(s)
            \/ ReplaceTaken(s) \/ ReplaceUnderpriced(s)
  <2>1. /\ view \in Row /\ view.status = "submitted" /\ n \in DOMAIN view.attempts
        /\ q.pc = "answered" /\ q.fresh /\ q.id \in Ids /\ tx[q.id] = view
    <3>1. q.pc = "answered"
      BY <1>11 DEF RebroadcastTaken, RebroadcastUnderpriced, ReplaceTaken, ReplaceUnderpriced, Answered
    <3>2. view \in Row /\ view.status = "submitted" /\ n \in DOMAIN view.attempts /\ q.id \in Ids
      BY <3>1, SweeperFacts DEF RunOK, SweeperPC
    <3>3. q.fresh
      BY <1>0, <3>1, <3>2 DEF FreshRuns
    <3> QED BY <1>0, <3>1, <3>2, <3>3, RunFacts DEF Related
  <2>2. CASE RebroadcastUnderpriced(s)
    <3>1. ~TakenAnswer(s)
      BY <2>2 DEF RebroadcastUnderpriced, Answered, TakenAnswer
    <3>2. CASE Finish(s) /\ tx' = tx
      BY <1>0, <3>1, <3>2, FinishMoves
    <3>3. CASE SaveTx(s, view, Idle)
      BY <1>0, <2>1, <3>1, <3>3, RowIsKept, SweeperSaveMoves
    <3> QED BY <2>2, <3>2, <3>3 DEF RebroadcastUnderpriced
  <2>3. CASE RebroadcastTaken(s)
    <3>1. PICK row : row = [view EXCEPT !.attempts[n] = [accepted |-> TRUE, refused |-> FALSE]]
      OBVIOUS
    <3>2. row.attempts[n].accepted /\ row.status = "submitted"
      BY <2>1, <3>1 DEF Row
    <3>3. CASE row = view /\ Finish(s) /\ tx' = tx
      BY <1>0, <2>1, <3>2, <3>3, FinishMoves
    <3>4. CASE SaveTx(s, row, Idle)
      <4>1. RowKept(view, row)
        BY <2>1, <3>1, KeptMarks
      <4> QED BY <1>0, <2>1, <3>2, <3>4, <4>1, SweeperSaveMoves
    <3> QED BY <2>3, <3>1, <3>3, <3>4 DEF RebroadcastTaken
  <2>4. CASE ReplaceTaken(s)
    <3>1. RowKept(view, MarkAccepted(view, n)) /\ MarkAccepted(view, n).attempts[n].accepted
      BY <2>1, KeptMarks
    <3>2. SaveTx(s, MarkAccepted(view, n), Idle) /\ MarkAccepted(view, n).status = "submitted"
      BY <2>1, <2>4, MarkAcceptedRow DEF ReplaceTaken
    <3> QED BY <1>0, <2>1, <3>1, <3>2, SweeperSaveMoves
  <2>5. CASE ReplaceUnderpriced(s)
    <3>1. RowKept(view, MarkRefused(view, n)) /\ ~TakenAnswer(s)
      BY <2>1, <2>5, KeptMarks DEF ReplaceUnderpriced, Answered, TakenAnswer
    <3>2. SaveTx(s, MarkRefused(view, n), Idle) /\ MarkRefused(view, n).status = "submitted"
      BY <2>1, <2>5, MarkRefusedRow DEF ReplaceUnderpriced
    <3> QED BY <1>0, <2>1, <3>1, <3>2, SweeperSaveMoves
  <2> QED BY <1>11, <2>2, <2>3, <2>4, <2>5
<1> QED BY <1>1, <1>2, <1>3, <1>4, <1>5, <1>6, <1>7, <1>8, <1>9, <1>10, <1>11 DEF SweeperNext

(***************************************************************************)
(* The signer's steps, and those of either                                 *)
(***************************************************************************)
LEMMA SignerMoves ==
  ASSUME ReliableInv, SignerNext
  PROVE  Moves(Signer)
<1> DEFINE p == Signer
           q == proc[Signer]
           view == proc[Signer].view
           n == proc[Signer].n
<1>0. StoreInv /\ ChainInv /\ FreshRuns /\ p \in Procs /\ Idle.pc = "idle"
  BY SignerIn, IdleProc DEF ReliableInv, ChainInv
<1>1. CASE RaiseNonce \/ \E t \in Ids : SignerSkip(t)
  <2>1. tx' = tx /\ proc' = [proc EXCEPT ![p] = q] /\ q.pc \in {"idle", "nonce"} /\ ~TakenAnswer(p)
    BY <1>0, <1>1 DEF RaiseNonce, SignerSkip, TakenAnswer, StoreInv, TypeOK
  <2> QED BY <1>0, <2>1, NoWriteMoves
<1>2. CASE \E t \in Ids : SignerTake(t)
  <2>1. PICK t \in Ids : SignerTake(t)
    BY <1>2
  <2>2. PICK pc \in {"nonce", "sign", "send", "dead-end"} :
          proc' = [proc EXCEPT ![p] = [Idle EXCEPT !.pc = pc, !.id = t, !.view = tx[t], !.fresh = TRUE,
                                                   !.n = Len(tx[t].attempts), !.how = "first"]]
    BY <2>1 DEF SignerTake
  <2>3. PICK next : next = [Idle EXCEPT !.pc = pc, !.id = t, !.view = tx[t], !.fresh = TRUE,
                                        !.n = Len(tx[t].attempts), !.how = "first"]
    OBVIOUS
  <2>4. next.fresh /\ next.pc = pc /\ tx' = tx /\ ~TakenAnswer(p)
    BY <2>1, <2>3 DEF SignerTake, Idle, TakenAnswer
  <2> QED BY <1>0, <2>2, <2>3, <2>4, NoWriteMoves
<1>3. CASE SignerNoFunds
  BY <1>0, <1>3, FinishMoves DEF SignerNoFunds, Answered, TakenAnswer
<1>4. CASE FailDependent \/ SignerTooLowSubmitted
  <2>1. q.pc # "idle" /\ ~TakenAnswer(p)
    BY <1>4 DEF FailDependent, SignerTooLowSubmitted, Answered, TakenAnswer
  <2>2. PICK st \in {"failed", "submitted"} :
          SaveTx(p, WithStatus(view, st), Idle) /\ (st = "failed" => FailDependent)
    BY <1>4 DEF FailDependent, SignerTooLowSubmitted
  <2>3. RowKept(view, WithStatus(view, st)) /\ WithStatus(view, st).status = st
    BY <1>0, <2>1, SignerFacts, KeptFields DEF WithStatus, Row, Status
  <2> QED BY <1>0, <2>1, <2>2, <2>3, WriteMoves DEF Fails
<1>5. CASE SignerSubmitted \/ SignerUnderpriced
  <2>1. q.pc = "answered" /\ view \in Row /\ n \in DOMAIN view.attempts
    BY <1>0, <1>5, SignerFacts DEF SignerSubmitted, SignerUnderpriced, Answered
  <2>2. CASE SignerSubmitted
    <3>1. PICK row : row = WithStatus(MarkAccepted(view, n), "submitted")
      OBVIOUS
    <3>2. SaveTx(p, row, Idle)
      BY <2>2, <3>1 DEF SignerSubmitted
    <3>3. RowKept(view, row) /\ row.attempts[n].accepted
      BY <2>1, <3>1, KeptMarks DEF Status
    <3>4. row.status = "submitted"
      BY <2>1, <3>1, MarkAcceptedRow, WithStatusRow DEF Status
    <3> QED BY <1>0, <2>1, <3>2, <3>3, <3>4, WriteMoves
  <2>3. CASE SignerUnderpriced
    <3>1. PICK row : row = WithStatus(MarkRefused(view, n), "submitted")
      OBVIOUS
    <3>2. SaveTx(p, row, Idle) /\ ~TakenAnswer(p)
      BY <2>3, <3>1 DEF SignerUnderpriced, Answered, TakenAnswer
    <3>3. RowKept(view, row)
      BY <2>1, <3>1, KeptMarks DEF Status
    <3>4. row.status = "submitted"
      BY <2>1, <3>1, MarkRefusedRow, WithStatusRow DEF Status
    <3> QED BY <1>0, <2>1, <3>2, <3>3, <3>4, WriteMoves
  <2> QED BY <1>5, <2>2, <2>3
<1>6. CASE SignAttempt
  <2>1. /\ q.pc = "sign" /\ view \in Row /\ view.attempts = << >> /\ view.status = "queued" /\ q.fresh
        /\ ~TakenAnswer(p)
    BY <1>0, <1>6, SignerFacts DEF SignAttempt, SaveTx, RunOK, SignerPC, TakenAnswer
  <2>2. PICK row : row = [view EXCEPT !.attempts = <<NewAttempt>>]
    OBVIOUS
  <2>3. PICK next : next = [Holding(p, row, "send") EXCEPT !.n = 1]
    OBVIOUS
  <2>4. SaveTx(p, row, next)
    BY <1>6, <2>2, <2>3 DEF SignAttempt
  <2>5. next.pc = "send" /\ next.fresh
    BY <1>0, <2>1, <2>3 DEF Holding, StoreInv, TypeOK, Proc
  <2>6. RowKept(view, row) /\ row.status = "queued"
    BY <2>1, <2>2 DEF RowKept, KeepsSignatures, KeepsAccepted, Row
  <2> QED BY <1>0, <2>1, <2>4, <2>5, <2>6, WriteMoves
<1>7. CASE AssignNonce \/ SignerDropNonce
  <2>1. q.pc # "idle" /\ q.fresh /\ ~TakenAnswer(p)
    BY <1>7 DEF AssignNonce, SignerDropNonce, SaveTx, Answered, TakenAnswer
  <2>2. /\ view \in Row /\ view.status = "queued" /\ q.id \in Ids /\ tx[q.id] = view
        /\ q.pc = "nonce" => view.nonce = NoNonce
    BY <1>0, <2>1, SignerFacts, RunFacts DEF RunOK, SignerPC, Related
  <2>3. Unsent(q.id) /\ view.usedAt = NoStamp
    <3>1. view.usedAt = NoStamp
      BY <2>2 DEF ReliableInv, StampFits
    <3>2. CASE AssignNonce
      BY <1>0, <2>2, <3>1, <3>2, NoNonceUnsent DEF AssignNonce, ChainInv
    <3>3. CASE SignerDropNonce
      <4>1. MayGiveUp(q)
        BY <3>3 DEF SignerDropNonce, Answered, MayGiveUp
      <4> QED BY <1>0, <3>1, <4>1 DEF ChainInv, UnsentIfGivenUp, Unsent
    <3> QED BY <1>7, <3>2, <3>3
  <2>4. CASE AssignNonce
    <3>1. PICK row : row = [view EXCEPT !.nonce = nextNonce]
      OBVIOUS
    <3>2. PICK next : next = [Holding(p, row, "sign") EXCEPT !.taken = TRUE]
      OBVIOUS
    <3>3. SaveTx(p, row, next)
      BY <2>4, <3>1, <3>2 DEF AssignNonce
    <3>4. next.pc = "sign" /\ next.fresh
      BY <1>0, <2>1, <3>2 DEF Holding, StoreInv, TypeOK, Proc
    <3>5. row.usedAt = NoStamp /\ row.status = "queued"
      BY <2>2, <2>3, <3>1 DEF Row
    <3> QED BY <1>0, <2>1, <2>2, <2>3, <3>3, <3>4, <3>5, WriteMoves
  <2>5. CASE SignerDropNonce
    <3>1. PICK row : row = [view EXCEPT !.nonce = NoNonce, !.attempts = << >>]
      OBVIOUS
    <3>2. PICK next : next = [Holding(p, row, "nonce") EXCEPT
                                !.n = 0, !.answer = "none", !.taken = FALSE, !.resets = @ + 1]
      OBVIOUS
    <3>3. SaveTx(p, row, next)
      BY <2>5, <3>1, <3>2 DEF SignerDropNonce
    <3>4. next.pc = "nonce" /\ next.fresh
      BY <1>0, <2>1, <3>2 DEF Holding, StoreInv, TypeOK, Proc
    <3>5. row.usedAt = NoStamp /\ row.status = "queued"
      BY <2>2, <2>3, <3>1 DEF Row
    <3> QED BY <1>0, <2>1, <2>2, <2>3, <3>3, <3>4, <3>5, WriteMoves
  <2> QED BY <1>7, <2>4, <2>5
<1> QED BY <1>1, <1>2, <1>3, <1>4, <1>5, <1>6, <1>7 DEF SignerNext

\* A run whose answer is refused has the row, and is a sweeper's of a sent one.
LEMMA RefusedFacts ==
  ASSUME ReliableInv, NEW p \in Procs, proc[p].pc = "answered"
  PROVE  /\ p = Signer \/ proc[p].view.status # "queued"
         /\ proc[p].fresh /\ proc[p].id \in Ids /\ tx[proc[p].id] = proc[p].view
         /\ proc[p].view \in Row /\ proc[p].n \in DOMAIN proc[p].view.attempts
         /\ proc[p].view.status \in Pending
<1>1. /\ proc[p].id \in Ids /\ proc[p].view \in Row /\ proc[p].n \in DOMAIN proc[p].view.attempts
      /\ p = Signer \/ proc[p].view.status = "submitted"
      /\ Related(p, proc[p], tx[proc[p].id]) /\ proc[p].view.status \in Pending
  BY RunFacts DEF ReliableInv, ChainInv, RunOK, SweeperPC
<1>2. proc[p].fresh
  BY <1>1 DEF ReliableInv, FreshRuns
<1> QED BY <1>1, <1>2 DEF Related

LEMMA FillerMoves ==
  ASSUME ReliableInv, NEW p \in Procs, FailWithFiller(p)
  PROVE  Moves(p)
<1>1. /\ StoreInv /\ tx \in [Ids -> Row] /\ proc[p].pc = "answered" /\ Idle.pc = "idle"
      /\ ~TakenAnswer(p) /\ proc[p].id \in Payloads
  BY IdleProc DEF FailWithFiller, Answered, TakenAnswer, ReliableInv, ChainInv, StoreInv, TypeOK
<1>2. PICK t, row : t = proc[p].id /\ row = WithStatus(MarkRefused(proc[p].view, proc[p].n), "failed")
  OBVIOUS
<1>3. RowKept(tx[t], row) /\ t \in Ids /\ (p = Signer \/ proc[p].view.status # "queued")
  BY <1>1, <1>2, RefusedFacts, KeptMarks DEF Status
<1>4. PICK f \in Fillers : SaveWithFiller(p, row, f)
  BY <1>2 DEF FailWithFiller
<1>5. PICK filler : filler = [NoRow EXCEPT !.status = "queued", !.nonce = row.nonce, !.fills = t]
  OBVIOUS
<1>6. /\ tx[f].status = "none" /\ tx' = [tx EXCEPT ![t] = row, ![f] = filler] /\ proc'[p] = Idle
      /\ \A q \in Procs \ {p} :
           \/ proc'[q] = proc[q]
           \/ proc'[q] = [proc[q] EXCEPT !.fresh = FALSE] /\ proc[q].id = t
  BY <1>2, <1>4, <1>5 DEF SaveWithFiller
<1>7. f \in Ids /\ Unsent(f) /\ t # f /\ filler.usedAt = NoStamp /\ filler.status = "queued"
  BY <1>1, <1>2, <1>5, <1>6, NoNonceUnsent, IdsAssumption
  DEF ReliableInv, ChainInv, StoreInv, RowsOK, RowOK, Ids, NoRow
<1>8. /\ tx'[t] = row /\ tx'[f] = filler
      /\ \A u \in Ids : u # t /\ u # f => tx'[u] = tx[u]
  BY <1>1, <1>3, <1>6, <1>7
<1>9. \A u \in Ids : RowStep(u)
  BY <1>3, <1>6, <1>7, <1>8, RowIsKept DEF RowStep, RowNew
<1>10. \A u \in Ids : tx'[u].status = "failed" /\ tx[u].status # "failed" => proc[p].id = u /\ Fails(p)
  BY <1>2, <1>7, <1>8 DEF Fails
<1>11. \A q \in Procs \ {p} : proc'[q] = proc[q] \/ MadeStale(p, q)
  BY <1>1, <1>2, <1>3, <1>6 DEF MadeStale
<1> QED BY <1>1, <1>6, <1>9, <1>10, <1>11 DEF Moves

LEMMA EitherMoves ==
  ASSUME Reliable, ReliableInv, NEW p \in Procs, EitherNext(p)
  PROVE  Moves(p)
<1>0. StoreInv /\ Idle.pc = "idle"
  BY IdleProc DEF ReliableInv, ChainInv
<1>1. CASE Send(p)
  <2>1. PICK a : proc' = [proc EXCEPT ![p].pc = "answered", ![p].answer = a]
    BY <1>1 DEF Send
  <2>2. PICK next : next = [proc[p] EXCEPT !.pc = "answered", !.answer = a]
    OBVIOUS
  <2>3. proc' = [proc EXCEPT ![p] = next]
    BY <1>0, <2>1, <2>2 DEF StoreInv, TypeOK
  <2>4. /\ next.view = proc[p].view /\ next.fresh = proc[p].fresh /\ next.pc = "answered"
        /\ tx' = tx /\ proc[p].pc = "send" /\ ~TakenAnswer(p)
    BY <1>0, <1>1, <2>2 DEF StoreInv, TypeOK, Proc, Send, storeVars, TakenAnswer
  <2> QED BY <1>0, <2>3, <2>4, OnwardMoves
<1>2. CASE SendTimedOut(p)
  BY <1>2 DEF SendTimedOut, Reliable
<1>3. CASE RefuseMarked(p) \/ RefuseFiller(p)
  <2>1. proc[p].pc = "answered" /\ ~TakenAnswer(p)
    BY <1>3 DEF RefuseMarked, RefuseFiller, Answered, TakenAnswer
  <2>2. PICK st \in {"submitted", "failed"} :
          SaveTx(p, WithStatus(MarkRefused(proc[p].view, proc[p].n), st), Idle)
          /\ (st = "failed" => RefuseFiller(p))
    BY <1>3 DEF RefuseMarked, RefuseFiller
  <2>3. PICK row : row = WithStatus(MarkRefused(proc[p].view, proc[p].n), st)
    OBVIOUS
  <2>4. /\ proc[p].view \in Row /\ proc[p].n \in DOMAIN proc[p].view.attempts
        /\ p = Signer \/ proc[p].view.status # "queued"
    BY <2>1, RefusedFacts
  <2>5. RowKept(proc[p].view, row)
    BY <2>3, <2>4, KeptMarks DEF Status
  <2>6. row.status = st
    BY <2>3, <2>4, MarkRefusedRow, WithStatusRow DEF Status
  <2> QED BY <1>0, <2>1, <2>2, <2>3, <2>4, <2>5, <2>6, WriteMoves DEF Fails
<1>4. CASE FailWithFiller(p)
  BY <1>4, FillerMoves
<1>5. CASE Abort(p)
  <2>1. ~TakenAnswer(p)
    BY <1>5, RefusedFacts DEF Abort, TakenAnswer, Reliable
  <2> QED BY <1>0, <1>5, <2>1, FinishMoves DEF Abort
<1> QED BY <1>1, <1>2, <1>3, <1>4, <1>5 DEF EitherNext

(***************************************************************************)
(* What the steps of the runs keep                                         *)
(***************************************************************************)
LEMMA FreshNext ==
  ASSUME Reliable, StoreInv, FreshRuns, NEW p \in Procs, Moves(p)
  PROVE  FreshRuns'
<1> SUFFICES ASSUME NEW q \in Procs, proc'[q].pc # "idle",
                    q = Signer \/ proc'[q].view.status # "queued"
             PROVE  proc'[q].fresh
  BY DEF FreshRuns
<1>1. CASE q = p
  BY <1>1 DEF Moves, FreshRuns
<1>2. CASE q # p /\ proc'[q] = proc[q]
  BY <1>2 DEF FreshRuns
<1>3. CASE q # p /\ MadeStale(p, q)
  <2>1. proc[q].pc # "idle" /\ (q = Signer \/ proc[q].view.status # "queued")
    BY <1>3 DEF MadeStale, StoreInv, TypeOK, Proc
  <2>2. proc[p].pc # "idle" /\ proc[q].id = proc[p].id
    BY <1>3 DEF MadeStale
  <2>3. CASE p = Signer \/ proc[p].view.status # "queued"
    BY <1>3, <2>1, <2>2, <2>3, OnlyOneHolds
  <2>4. CASE p # Signer /\ proc[Signer].id # proc[p].id
    BY <1>3, <2>2, <2>4 DEF Reliable, Procs
  <2> QED BY <1>3, <2>3, <2>4 DEF MadeStale
<1> QED BY <1>1, <1>2, <1>3 DEF Moves

LEMMA OtherRunSame ==
  ASSUME StoreInv, NEW p \in Procs, Moves(p), NEW q \in Procs, q # p
  PROVE  /\ proc'[q].pc = proc[q].pc /\ proc'[q].answer = proc[q].answer
         /\ proc'[q].id = proc[q].id /\ proc'[q].n = proc[q].n /\ proc'[q].view = proc[q].view
<1>1. proc[q] \in Proc
  BY DEF StoreInv, TypeOK
<1>2. proc'[q] = proc[q] \/ proc'[q] = [proc[q] EXCEPT !.fresh = FALSE]
  BY DEF Moves, MadeStale
<1> QED BY <1>1, <1>2 DEF Proc

\* A run with a taken answer still has it, or has marked the row.
LEMMA MarkedNext ==
  ASSUME StoreInv, ReachedIsListed, TakenMarked, NEW p \in Procs, Moves(p),
         NEW sig \in reached
  PROVE  \/ tx'[sig.id].attempts[sig.n].accepted
         \/ \E q \in Procs : TakenAnswer(q)' /\ proc'[q].id = sig.id /\ proc'[q].n = sig.n
<1>1. sig.id \in Ids /\ sig.n \in DOMAIN tx[sig.id].attempts /\ RowStep(sig.id)
  BY DEF Moves, ReachedIsListed, StoreInv, TypeOK, Signature
<1>2. CASE tx[sig.id].attempts[sig.n].accepted
  <2>1. RowKept(tx[sig.id], tx'[sig.id]) \/ RowStamped(tx[sig.id], tx'[sig.id])
    BY <1>1 DEF RowStep, RowNew, Unsent
  <2> QED BY <1>1, <1>2, <2>1 DEF RowKept, RowStamped, KeepsAccepted
<1>3. CASE \E q \in Procs : TakenAnswer(q) /\ proc[q].id = sig.id /\ proc[q].n = sig.n
  <2>1. PICK q \in Procs : TakenAnswer(q) /\ proc[q].id = sig.id /\ proc[q].n = sig.n
    BY <1>3
  <2>2. CASE q = p
    BY <2>1, <2>2 DEF Moves
  <2>3. CASE q # p
    <3>1. /\ proc'[q].pc = proc[q].pc /\ proc'[q].answer = proc[q].answer
          /\ proc'[q].id = proc[q].id /\ proc'[q].n = proc[q].n
      BY <2>3, OtherRunSame
    <3> QED BY <2>1, <3>1 DEF TakenAnswer
  <2> QED BY <2>2, <2>3
<1> QED BY <1>2, <1>3 DEF TakenMarked

LEMMA StampNext ==
  ASSUME StoreInv, BlocksInOrder, UNCHANGED <<used, head, reorgs>>, NEW t \in Ids, StampFits(tx[t]), RowStep(t)
  PROVE  StampFits(tx[t])'
<1>1. UsedBy(tx[t].nonce, tx[t].usedAt.time) => UsedBy(tx[t].nonce, tx[t].usedAt.time)'
      \/ tx'[t].nonce # tx[t].nonce \/ tx'[t].usedAt # tx[t].usedAt
  BY DEF UsedBy
<1>2. CASE RowKept(tx[t], tx'[t])
  BY <1>1, <1>2 DEF RowKept, KeepsSignatures, StampFits
<1>3. CASE RowStamped(tx[t], tx'[t])
  <2>1. DOMAIN used = 1 .. Len(used) /\ Len(used) \in Nat
    BY LenProperties DEF StoreInv, TypeOK
  <2>2. tx'[t].nonce + 1 \in DOMAIN used /\ tx'[t].usedAt.time = head /\ tx'[t].status = "submitted"
    BY <1>3, <2>1 DEF RowStamped
  <2>3. used[tx'[t].nonce + 1].block <= head
    BY <2>2 DEF BlocksInOrder
  <2> QED BY <2>2, <2>3 DEF StampFits, UsedBy
<1>4. CASE RowNew(t)
  BY <1>4 DEF RowNew, StampFits
<1> QED BY <1>2, <1>3, <1>4 DEF RowStep

\* When the walk is empty, what used the nonce is not this transaction, and is
\* below any reorg: it was there when the wait began.
LEMMA WalkGone ==
  ASSUME Reliable, ReliableInv, NEW p \in Procs, WalkEmpty(p)
  PROVE  Gone(proc[p].id, proc[p].view.nonce)
<1> DEFINE t == proc[p].id
           view == proc[p].view
           k == proc[p].view.nonce + 1
<1>1. StoreInv /\ proc[p].pc = "view" /\ view.status = "submitted"
  BY DEF WalkEmpty, Viewing, ReliableInv, ChainInv
<1>2. /\ t \in Ids /\ tx[t] = view /\ view \in Row /\ view.nonce \in Nat
      /\ view.attempts \in Seq(Attempt)
  <2>1. proc[p].fresh
    BY <1>1 DEF ReliableInv, FreshRuns
  <2> QED BY <1>1, <2>1, RunFacts DEF Related, RunOK, RowOK
<1>3. /\ DOMAIN used = 1 .. Len(used) /\ Len(used) \in Nat /\ head \in Nat
      /\ Confirmations \in Nat /\ AgeBlocks \in Nat
  BY <1>1, LenProperties, BoundsAssumption DEF StoreInv, TypeOK
<1>4. k \in DOMAIN used /\ view.nonce \in 0 .. Len(used) - 1
  BY <1>2, <1>3 DEF WalkEmpty, NonceReads
<1>5. used[k].sig.id # t
  <2> SUFFICES ASSUME used[k].sig.id = t
               PROVE  FALSE
    OBVIOUS
  <2>1. used[k].sig \in reached /\ used[k].sig.nonce = view.nonce
    BY <1>2, <1>4, IdsAssumption DEF ReliableInv, ChainInv, UsedInOrder
  <2>2. used[k].sig \in Signature /\ used[k].sig.n \in DOMAIN view.attempts
    BY <1>1, <1>2, <2>1 DEF ReliableInv, ChainInv, ReachedIsListed, StoreInv, TypeOK
  <2>3. used[k].sig = Sig(t, view, used[k].sig.n)
    BY <2>1, <2>2 DEF Sig, Signature
  <2>4. IsMined(Sig(t, view, used[k].sig.n))
    BY <1>4, <2>3 DEF IsMined, Sig
  <2> QED BY <2>2, <2>4 DEF WalkEmpty
<1>6. CASE reorgs >= MaxReorgs
  BY <1>4, <1>5, <1>6 DEF Gone
<1>7. CASE used[k].block <= view.usedAt.time
  <2>1. head - view.usedAt.time >= AgeBlocks /\ view.usedAt.time \in Nat
    BY <1>2 DEF WalkEmpty, ReadyToFail, Row
  <2>2. used[k].block \in Nat
    BY <1>4 DEF ReliableInv, KnownInv, BlocksInOrder
  <2>3. head - used[k].block + 1 >= Confirmations
    <3>1. Confirmations <= AgeBlocks + 1
      BY DEF Reliable
    <3>2. PICK b, time : b = used[k].block /\ time = view.usedAt.time
      OBVIOUS
    <3>3. /\ b \in Nat /\ time \in Nat /\ b <= time /\ head - time >= AgeBlocks
      BY <1>7, <2>1, <2>2, <3>2
    <3>4. head - b + 1 >= Confirmations
      BY <1>3, <3>1, <3>3
    <3> QED BY <3>2, <3>4
  <2> QED BY <1>4, <1>5, <2>3 DEF Gone, Deep
<1>8. view.usedAt # NoStamp
  BY DEF WalkEmpty, ReadyToFail
<1> QED BY <1>2, <1>6, <1>7, <1>8 DEF ReliableInv, StampFits, UsedBy

\* What is failed was never taken by a node, or is gone.
LEMMA FailsGone ==
  ASSUME Reliable, ReliableInv, NEW p \in Procs, Fails(p),
         tx' [proc[p].id].status = "failed"
  PROVE  \/ Unsent(proc[p].id) /\ reached' = reached
         \/ /\ Gone(proc[p].id, tx'[proc[p].id].nonce)
            /\ reached' = reached
<1> DEFINE t == proc[p].id
           view == proc[p].view
<1>0. StoreInv /\ ChainInv
  BY DEF ReliableInv, ChainInv
<1>1. CASE FailUsed(p)
  <2>1. proc[p].pc = "fail" /\ SaveTx(p, WithStatus(view, "failed"), Idle) /\ reached' = reached
    BY <1>1 DEF FailUsed, chainVars
  <2>2. view \in Row /\ t \in Ids /\ tx \in [Ids -> Row]
    BY <1>0, <2>1, RunFacts DEF StoreInv, TypeOK
  <2>3. tx'[t] = WithStatus(view, "failed") /\ WithStatus(view, "failed").nonce = view.nonce
    BY <2>1, <2>2, WithStatusRow DEF SaveTx, Status
  <2> QED BY <2>1, <2>3 DEF ReliableInv, FailedGone
<1>2. CASE FailDependent /\ p = Signer
  <2>1. proc[p].pc = "dead-end" /\ proc[p].fresh /\ reached' = reached
    BY <1>2 DEF FailDependent, SaveTx, chainVars
  <2>2. t \in Ids /\ tx[t].nonce = NoNonce
    BY <1>0, <2>1, RunFacts DEF Related, ReliableInv, KnownInv, RunsKnow, Knows
  <2> QED BY <1>0, <2>1, <2>2, NoNonceUnsent DEF ChainInv
<1>3. CASE RefuseFiller(p) \/ FailWithFiller(p)
  <2>1. /\ proc[p].pc = "answered" /\ proc[p].answer = "rejected" /\ ~MayBeMined(view, proc[p].n)
        /\ reached' = reached
    BY <1>3 DEF RefuseFiller, FailWithFiller, Answered, chainVars
  <2>2. tx[t] = view /\ t \in Ids /\ (p = Signer \/ view.status # "queued")
    BY <2>1, RefusedFacts
  <2>3. ASSUME NEW sig \in reached, sig.id = t
        PROVE  FALSE
    <3>1. sig.n \in DOMAIN view.attempts
      BY <1>0, <2>2, <2>3 DEF ChainInv, ReachedIsListed
    <3>2. ~tx[sig.id].attempts[sig.n].accepted
      BY <2>1, <2>2, <2>3, <3>1 DEF MayBeMined
    <3>3. PICK q \in Procs : TakenAnswer(q) /\ proc[q].id = t
      BY <2>3, <3>2 DEF ReliableInv, TakenMarked
    <3>4. q # p /\ proc[q].pc = "answered"
      BY <2>1, <3>3 DEF TakenAnswer
    <3>5. q = Signer \/ proc[q].view.status # "queued"
      BY <3>4, RefusedFacts
    <3> QED BY <1>0, <2>1, <2>2, <3>3, <3>4, <3>5, OnlyOneHolds
  <2> QED BY <2>1, <2>3 DEF Unsent
<1> QED BY <1>1, <1>2, <1>3 DEF Fails

\* No run sends what has failed.
LEMMA SendNotFailed ==
  ASSUME ReliableInv, NEW p \in Procs, proc[p].pc = "send"
  PROVE  proc[p].id \in Ids /\ tx[proc[p].id].status # "failed"
<1>1. /\ proc[p].id \in Ids /\ Related(p, proc[p], tx[proc[p].id]) /\ proc[p].view.status \in Pending
      /\ p = Signer \/ proc[p].view.status = "submitted"
  BY RunFacts DEF ReliableInv, ChainInv, RunOK, SweeperPC
<1>2. tx[proc[p].id] = proc[p].view
  BY <1>1 DEF ReliableInv, FreshRuns, Related
<1> QED BY <1>1, <1>2 DEF Pending

LEMMA GoneNext ==
  ASSUME Reliable, ReliableInv, SettledKept, NEW p \in Procs, Moves(p),
         UNCHANGED <<used, head, reorgs>>,
         \/ reached' = reached
         \/ proc[p].pc = "send" /\ reached' \subseteq reached \cup {Sig(proc[p].id, proc[p].view, proc[p].n)}
  PROVE  FailedGone'
<1>0. \A t, nonce : Gone(t, nonce) => Gone(t, nonce)'
  BY DEF Gone, Deep
<1>1. ASSUME NEW t \in Ids, tx'[t].status = "failed"
      PROVE  Unsent(t)' \/ Gone(t, tx[t].nonce)'
  <2>1. CASE tx[t].status = "failed"
    <3>1. tx'[t] = tx[t]
      BY <2>1 DEF SettledKept, Settled
    <3>2. CASE Unsent(t)
      <4>1. Unsent(t)'
        BY <2>1, <3>2, SendNotFailed DEF Unsent, Sig
      <4> QED BY <4>1
    <3>3. CASE Gone(t, tx[t].nonce)
      BY <1>0, <3>1, <3>3 DEF Gone, Deep
    <3> QED BY <2>1, <3>2, <3>3 DEF ReliableInv, FailedGone
  <2>2. CASE tx[t].status # "failed"
    <3>1. proc[p].id = t /\ Fails(p)
      BY <1>1, <2>2 DEF Moves
    <3>2. CASE Unsent(t) /\ reached' = reached
      BY <3>2 DEF Unsent
    <3>3. CASE Gone(t, tx'[t].nonce)
      BY <3>3 DEF Gone, Deep
    <3> QED BY <1>1, <3>1, <3>2, <3>3, FailsGone
  <2> QED BY <2>1, <2>2
<1>2. ASSUME NEW q \in Procs, proc'[q].pc = "fail"
      PROVE  Gone(proc[q].id, proc[q].view.nonce)'
  <2>1. CASE q = p
    <3>1. WalkEmpty(p)
      BY <1>2, <2>1 DEF Moves
    <3>2. Gone(proc[p].id, proc[p].view.nonce)
      BY <3>1, WalkGone
    <3>3. proc'[p].id = proc[p].id /\ proc'[p].view = proc[p].view
      BY <3>1 DEF WalkEmpty, Goto, ReliableInv, ChainInv, StoreInv, TypeOK, Proc
    <3> QED BY <2>1, <3>2, <3>3 DEF Gone, Deep
  <2>2. CASE q # p
    <3>1. proc'[q].pc = proc[q].pc /\ proc'[q].id = proc[q].id /\ proc'[q].view = proc[q].view
      BY <2>2, OtherRunSame DEF ReliableInv, ChainInv
    <3>2. Gone(proc[q].id, proc[q].view.nonce)
      BY <1>2, <3>1 DEF ReliableInv, FailedGone
    <3> QED BY <3>1, <3>2 DEF Gone, Deep
  <2> QED BY <2>1, <2>2
<1> QED BY <1>1, <1>2 DEF FailedGone

(***************************************************************************)
(* The chain and the clients                                               *)
(***************************************************************************)
LEMMA UsedStays ==
  ASSUME Reliable, StoreInv, ChainNext
  PROVE  \/ reorgs' >= MaxReorgs /\ ~(reorgs >= MaxReorgs)
         \/ reorgs' = reorgs /\ \A k \in DOMAIN used : k \in DOMAIN used' /\ used'[k] = used[k]
<1> DEFINE Used == [sig : [id : Ids \cup {NoTx}, nonce : Nat, n : Nat], block : Nat]
<1>1. /\ used \in Seq(Used) /\ head \in Nat /\ reorgs \in Nat /\ MaxReorgs \in Nat
      /\ reached \subseteq Signature /\ foreign \subseteq Nat
  BY BoundsAssumption DEF StoreInv, TypeOK
<1>2. CASE EmptyBlock
  BY <1>2 DEF EmptyBlock
<1>3. CASE MineNonce
  <2>1. PICK sig \in reached \cup {Foreign(n) : n \in foreign} :
          used' = Append(used, [sig |-> sig, block |-> head + 1])
    BY <1>3 DEF MineNonce
  <2>2. PICK new : new = [sig |-> sig, block |-> head + 1]
    OBVIOUS
  <2>3. Len(used) \in Nat
    BY <1>1, LenProperties
  <2>4. sig \in [id : Ids \cup {NoTx}, nonce : Nat, n : Nat]
    BY <1>1, <2>3 DEF Foreign, Signature
  <2>5. new \in Used
    BY <1>1, <2>2, <2>4
  <2>6. \A k \in DOMAIN used : k \in DOMAIN used' /\ used'[k] = used[k]
    BY <1>1, <2>1, <2>2, <2>5, AppendProperties, LenProperties
  <2> QED BY <1>3, <2>6 DEF MineNonce
<1>4. CASE Reorg
  <2>1. reorgs < MaxReorgs /\ reorgs' = reorgs + 1 /\ MaxReorgs <= 1
    BY <1>4 DEF Reorg, Reliable
  <2> QED BY <1>1, <2>1
<1>5. CASE ForeignSend
  BY <1>5 DEF ForeignSend
<1> QED BY <1>2, <1>3, <1>4, <1>5 DEF ChainNext

LEMMA ChainReliable ==
  ASSUME Reliable, ReliableInv, ChainKept, StoreInv', ChainNext
  PROVE  FreshRuns' /\ TakenMarked' /\ FailedGone' /\ \A t \in Ids : StampFits(tx[t])'
<1>1. tx' = tx /\ proc' = proc /\ reached' = reached /\ StoreInv /\ BlocksInOrder
  BY DEF ChainNext, EmptyBlock, MineNonce, ForeignSend, Reorg, storeVars, ReliableInv, ChainInv, KnownInv
<1>2. \/ reorgs' >= MaxReorgs /\ ~(reorgs >= MaxReorgs)
      \/ reorgs' = reorgs /\ \A k \in DOMAIN used : k \in DOMAIN used' /\ used'[k] = used[k]
  BY <1>1, UsedStays
<1>3. FreshRuns' /\ TakenMarked'
  BY <1>1 DEF ReliableInv, FreshRuns, TakenMarked, TakenAnswer
<1>4. ASSUME NEW nonce, NEW time, UsedBy(nonce, time)
      PROVE  UsedBy(nonce, time)'
  BY <1>2, <1>4 DEF UsedBy
<1>5. \A t \in Ids : StampFits(tx[t])'
  <2> SUFFICES ASSUME NEW t \in Ids PROVE StampFits(tx[t])'
    OBVIOUS
  <2>1. StampFits(tx[t])
    BY DEF ReliableInv
  <2>2. UsedBy(tx[t].nonce, tx[t].usedAt.time) => UsedBy(tx[t].nonce, tx[t].usedAt.time)'
    BY <1>1, <1>4 DEF UsedBy
  <2> QED BY <1>1, <2>1, <2>2 DEF StampFits
<1>6. ASSUME NEW t, NEW nonce, Gone(t, nonce)
      PROVE  Gone(t, nonce)'
  <2>1. CASE Deep(used[nonce + 1].block, head)
    <3>1. nonce + 1 \in DOMAIN used' /\ used'[nonce + 1] = used[nonce + 1]
      BY <1>6, <2>1 DEF ChainKept, Gone
    <3>2. used[nonce + 1].block \in Int /\ head \in Int /\ head' \in Int /\ head <= head'
      BY <1>1, <1>6 DEF Gone, BlocksInOrder, ChainKept, StoreInv, TypeOK
    <3>3. Deep(used[nonce + 1].block, head')
      BY <2>1, <3>2, DeepLater
    <3> QED BY <1>6, <3>1, <3>3 DEF Gone, Deep
  <2>2. CASE reorgs >= MaxReorgs
    BY <1>2, <1>6, <2>2 DEF Gone
  <2> QED BY <1>6, <2>1, <2>2 DEF Gone
<1>7. FailedGone'
  <2>1. ASSUME NEW t \in Ids, tx'[t].status = "failed"
        PROVE  Unsent(t)' \/ Gone(t, tx[t].nonce)'
    <3>1. Unsent(t) \/ Gone(t, tx[t].nonce)
      BY <1>1, <2>1 DEF ReliableInv, FailedGone
    <3>2. Unsent(t) => Unsent(t)'
      BY <1>1 DEF Unsent
    <3>3. Gone(t, tx[t].nonce) => Gone(t, tx[t].nonce)'
      BY <1>1, <1>6 DEF Gone, Deep
    <3> QED BY <3>1, <3>2, <3>3
  <2>2. ASSUME NEW p \in Procs, proc'[p].pc = "fail"
        PROVE  Gone(proc[p].id, proc[p].view.nonce)'
    <3>1. Gone(proc[p].id, proc[p].view.nonce)
      BY <1>1, <2>2 DEF ReliableInv, FailedGone
    <3> QED BY <1>1, <1>6, <3>1 DEF Gone, Deep
  <2> QED BY <2>1, <2>2 DEF FailedGone
<1> QED BY <1>3, <1>5, <1>7

LEMMA SubmitReliable ==
  ASSUME ReliableInv, NEW t \in Payloads, Submit(t)
  PROVE  FreshRuns' /\ TakenMarked' /\ FailedGone' /\ \A u \in Ids : StampFits(tx[u])'
<1>1. PICK row : row = WithStatus(NoRow, "queued")
  OBVIOUS
<1>2. /\ tx' = [tx EXCEPT ![t] = row] /\ proc' = proc /\ UNCHANGED <<head, used, reached, reorgs>>
      /\ tx[t].status = "none" /\ t \in Ids /\ tx \in [Ids -> Row]
  BY <1>1 DEF Submit, chainVars, Ids, ReliableInv, ChainInv, StoreInv, TypeOK
<1>3. row.status = "queued" /\ row.usedAt = NoStamp
  BY <1>1 DEF WithStatus, NoRow
<1>4. Unsent(t)
  BY <1>2, NoNonceUnsent DEF ReliableInv, ChainInv, StoreInv, RowsOK, RowOK
<1>5. tx'[t] = row /\ \A u \in Ids : u # t => tx'[u] = tx[u]
  BY <1>2
<1>6. FreshRuns'
  BY <1>2 DEF ReliableInv, FreshRuns
<1>7. TakenMarked'
  <2>1. \A sig \in reached : sig.id \in Ids /\ sig.id # t
    BY <1>4 DEF Unsent, ReliableInv, ChainInv, StoreInv, TypeOK, Signature
  <2> QED BY <1>2, <1>5, <2>1 DEF ReliableInv, TakenMarked, TakenAnswer
<1>8. \A u \in Ids : StampFits(tx[u])'
  BY <1>2, <1>3, <1>5 DEF ReliableInv, StampFits, UsedBy
<1>9. FailedGone'
  BY <1>2, <1>3, <1>5 DEF ReliableInv, FailedGone, Unsent, Gone, Deep
<1> QED BY <1>6, <1>7, <1>8, <1>9

(***************************************************************************)
(* ReliableInv is inductive                                                *)
(***************************************************************************)
LEMMA MovesReliable ==
  ASSUME Reliable, ReliableInv, SettledKept, NEW p \in Procs, Moves(p),
         UNCHANGED <<used, head, reorgs>>, reached' = reached \/ Send(p)
  PROVE  FreshRuns' /\ TakenMarked' /\ FailedGone' /\ \A t \in Ids : StampFits(tx[t])'
<1>1. StoreInv /\ ReachedIsListed /\ BlocksInOrder
  BY DEF ReliableInv, ChainInv, KnownInv
<1>2. FreshRuns'
  BY <1>1, FreshNext DEF ReliableInv
<1>3. TakenMarked'
  <2>1. ASSUME NEW sig \in reached
        PROVE  \/ tx'[sig.id].attempts[sig.n].accepted
               \/ \E q \in Procs : TakenAnswer(q)' /\ proc'[q].id = sig.id /\ proc'[q].n = sig.n
    BY <1>1, <2>1, MarkedNext DEF ReliableInv
  <2>2. ASSUME NEW sig \in reached', sig \notin reached
        PROVE  TakenAnswer(p)' /\ proc'[p].id = sig.id /\ proc'[p].n = sig.n
    <3>0. Send(p)
      BY <2>2
    <3>1. PICK a \in Answers :
            /\ reached' \in {reached, reached \cup {Sig(proc[p].id, proc[p].view, proc[p].n)}}
            /\ a \notin {"taken", "unknown"} => reached' = reached
            /\ proc' = [proc EXCEPT ![p].pc = "answered", ![p].answer = a]
      BY <3>0, Zenon DEF Send
    <3>2. proc[p] \in Proc /\ proc \in [Procs -> Proc]
      BY <1>1 DEF StoreInv, TypeOK
    <3>3. /\ proc'[p].pc = "answered" /\ proc'[p].answer = a
          /\ proc'[p].id = proc[p].id /\ proc'[p].n = proc[p].n
      BY <3>1, <3>2 DEF Proc
    <3>4. a \in {"taken", "unknown"} /\ sig.id = proc[p].id /\ sig.n = proc[p].n
      BY <2>2, <3>1 DEF Sig
    <3> QED BY <3>3, <3>4 DEF TakenAnswer
  <2> QED BY <2>1, <2>2 DEF TakenMarked, TakenAnswer
<1>4. FailedGone'
  <2>1. \/ reached' = reached
        \/ /\ proc[p].pc = "send"
           /\ reached' \subseteq reached \cup {Sig(proc[p].id, proc[p].view, proc[p].n)}
    BY DEF Send
  <2> QED BY <2>1, GoneNext
<1>5. ASSUME NEW t \in Ids PROVE StampFits(tx[t])'
  <2>1. StampFits(tx[t]) /\ RowStep(t)
    BY DEF ReliableInv, Moves
  <2> QED BY <1>1, <2>1, StampNext
<1> QED BY <1>2, <1>3, <1>4, <1>5

LEMMA ReliableNext ==
  ASSUME Reliable, ReliableInv, [Next]_vars
  PROVE  ReliableInv'
<1>1. ChainInv' /\ KnownInv' /\ SettledKept /\ StoreInv
  BY ChainInvNext, KnownNext, SettledNext DEF Reliable, ReliableInv, ChainInv
<1>2. FreshRuns' /\ TakenMarked' /\ FailedGone' /\ \A t \in Ids : StampFits(tx[t])'
  <2>1. CASE \E t \in Payloads : Submit(t)
    BY <2>1, SubmitReliable
  <2>2. CASE SignerNext
    <3>1. UNCHANGED <<used, head, reorgs, reached>>
      BY <2>2 DEF SignerNext, SignerSkip, SignerTake, FailDependent, RaiseNonce,
         AssignNonce, SignAttempt, SignerSubmitted, SignerUnderpriced, SignerNoFunds,
         SignerTooLowSubmitted, SignerDropNonce, chainVars
    <3>2. Moves(Signer) /\ Signer \in Procs
      BY <2>2, SignerMoves, SignerIn
    <3> QED BY <1>1, <3>1, <3>2, MovesReliable
  <2>3. CASE \E s \in Sweepers : SweeperNext(s)
    <3>1. PICK s \in Sweepers : SweeperNext(s)
      BY <2>3
    <3>2. UNCHANGED <<used, head, reorgs, reached>>
      BY <3>1 DEF SweeperNext, SweepRead, SweepDone, ReadActive, Unpause, Requeue, SweepReorged,
         SweepConfirmed, SweepFound, MarkMined, ConfirmMined, StampUsed, WalkEmpty, FailUsed,
         NonceUnused, SaveProgress, Replace, Rebroadcast, RebroadcastTaken,
         RebroadcastUnderpriced, ReplaceTaken, ReplaceUnderpriced, SweepNoFunds, SweepTooLow,
         chainVars
    <3>3. Moves(s) /\ s \in Procs
      BY <1>1, <3>1, SweeperMoves, SignerIn DEF ReliableInv
    <3> QED BY <1>1, <3>2, <3>3, MovesReliable
  <2>4. CASE \E p \in Procs : EitherNext(p)
    <3>1. PICK p \in Procs : EitherNext(p)
      BY <2>4
    <3>2. UNCHANGED <<used, head, reorgs>> /\ (reached' = reached \/ Send(p))
      BY <3>1 DEF EitherNext, Send, SendTimedOut, RefuseMarked, RefuseFiller, FailWithFiller,
         Abort, chainVars, Reliable
    <3>3. Moves(p)
      BY <3>1, EitherMoves
    <3> QED BY <1>1, <3>2, <3>3, MovesReliable
  <2>5. CASE ChainNext
    <3>1. ChainKept
      BY <1>1, BlocksNext DEF ReliableInv, KnownInv
    <3> QED BY <1>1, <2>5, <3>1, ChainReliable DEF ChainInv
  <2>6. CASE UNCHANGED vars
    <3>1. FreshRuns' /\ TakenMarked'
      BY <2>6 DEF vars, ReliableInv, FreshRuns, TakenMarked, TakenAnswer
    <3>2. FailedGone'
      BY <2>6 DEF vars, ReliableInv, FailedGone, Unsent, Gone, Deep
    <3>3. \A t \in Ids : StampFits(tx[t])'
      BY <2>6 DEF vars, ReliableInv, StampFits, UsedBy
    <3> QED BY <3>1, <3>2, <3>3
  <2> QED BY <2>1, <2>2, <2>3, <2>4, <2>5, <2>6 DEF Next
<1> QED BY <1>1, <1>2 DEF ReliableInv

LEMMA ReliableInit == Init => ReliableInv
<1> SUFFICES ASSUME Init PROVE ReliableInv
  OBVIOUS
<1>1. \A t \in Ids : tx[t] = NoRow /\ tx[t].status = "none" /\ tx[t].usedAt = NoStamp
  BY DEF Init, NoRow
<1>2. \A p \in Procs : proc[p].pc = "idle"
  BY DEF Init, Idle
<1>3. reached = {}
  BY DEF Init
<1>4. FreshRuns /\ TakenMarked /\ FailedGone /\ \A t \in Ids : StampFits(tx[t])
  BY <1>1, <1>2, <1>3 DEF FreshRuns, TakenMarked, FailedGone, StampFits
<1> QED BY <1>4, ChainInvInit, KnownInit DEF ReliableInv

LEMMA ReliableAlways ==
  ASSUME Reliable
  PROVE  Spec => []ReliableInv
<1>1. ReliableInv /\ [Next]_vars => ReliableInv'
  BY ReliableNext
<1> QED BY <1>1, ReliableInit, PTL DEF Spec

\* A transaction reported as failed is not on the chain and does not get there:
\* no node took it, or another holds its nonce where no reorg reaches.
THEOREM FailedIsNeverMined ==
  ASSUME Reliable
  PROVE  Spec => []FailedNeverMined
BY ReliableAlways, InvNeverMined, PTL

(***************************************************************************)
(* What clients are told                                                   *)
(***************************************************************************)
Edges == {<<"none", "queued">>, <<"queued", "submitted">>, <<"submitted", "mined">>,
          <<"mined", "submitted">>, <<"mined", "confirmed">>,
          <<"queued", "failed">>, <<"submitted", "failed">>}

\* A step reports a status of no payload but perhaps t's.
Reports(t) ==
  /\ \A u \in Payloads : u # t => tx'[u].status = tx[u].status
  /\ tx'[t].status = tx[t].status \/ <<tx[t].status, tx'[t].status>> \in Edges

LEMMA WriteReports ==
  ASSUME StoreInv, NEW p \in Procs, NEW row, Writes(p, row),
         row.status = proc[p].view.status \/ <<proc[p].view.status, row.status>> \in Edges
  PROVE  Reports(proc[p].id)
<1>1. /\ proc[p].id \in Ids /\ tx[proc[p].id] = proc[p].view
      /\ tx' = [tx EXCEPT ![proc[p].id] = row] /\ tx \in [Ids -> Row]
  BY WrittenRow DEF StoreInv, TypeOK
<1>2. tx'[proc[p].id] = row /\ \A u \in Ids : u # proc[p].id => tx'[u] = tx[u]
  BY <1>1
<1> QED BY <1>1, <1>2 DEF Reports, Ids

LEMMA PendingReports ==
  ASSUME StoreInv, NEW p \in Procs, PendingWrite(p)
  PROVE  Reports(proc[p].id)
<1>1. PICK row : /\ Writes(p, row) /\ row.status \in Pending
                 /\ row.status = "queued" => proc[p].view.status = "queued"
                 /\ row.status = "mined" => proc[p].view.status = "mined" \/ proc[p].pc = "mark"
  BY DEF PendingWrite
<1>2. /\ proc[p].id \in Ids /\ tx[proc[p].id] = proc[p].view
      /\ proc[p].view.status \in Pending /\ tx'[proc[p].id] = row
  BY <1>1, WrittenRow DEF StoreInv, TypeOK
<1>3. proc[p].pc = "mark" => proc[p].view.status = "submitted"
  BY RunFacts DEF RunOK, SignerPC, SweeperPC
<1>4. row.status = proc[p].view.status \/ <<proc[p].view.status, row.status>> \in Edges
  BY <1>1, <1>2, <1>3 DEF Pending, Edges
<1> QED BY <1>1, <1>4, WriteReports

\* A run fails or confirms only what is under way.
LEMMA SettleReports ==
  ASSUME StoreInv, NEW p \in Procs, NEW st \in Settled, Writes(p, WithStatus(proc[p].view, st)),
         st = "confirmed" => proc[p].view.status = "mined",
         st = "failed" => proc[p].view.status \in {"queued", "submitted"}
  PROVE  Reports(proc[p].id)
<1>1. proc[p].view \in Row /\ st \in Status
  BY WrittenRow DEF Settled, Status
<1>2. WithStatus(proc[p].view, st).status = st
  BY <1>1, WithStatusRow
<1>3. <<proc[p].view.status, st>> \in Edges
  BY DEF Settled, Edges
<1> QED BY <1>2, <1>3, WriteReports

LEMMA SweeperReports ==
  ASSUME StoreInv, NEW s \in Sweepers, SweeperNext(s)
  PROVE  tx' = tx \/ Reports(proc[s].id)
<1>0. s \in Procs
  BY SignerIn
<1>1. CASE SweepConfirmed(s) \/ ConfirmMined(s) \/ FailUsed(s)
  <2>1. PICK st \in Settled :
          /\ Writes(s, WithStatus(proc[s].view, st))
          /\ st = "confirmed" => proc[s].view.status = "mined" \/ proc[s].pc = "confirm"
          /\ st = "failed" => proc[s].pc = "fail"
    BY <1>1 DEF SweepConfirmed, ConfirmMined, FailUsed, Writes, Viewing, Settled
  <2>2. /\ proc[s].pc = "confirm" => proc[s].view.status = "mined"
        /\ proc[s].pc = "fail" => proc[s].view.status = "submitted"
    BY SweeperFacts DEF SweeperPC
  <2> QED BY <1>0, <2>1, <2>2, SettleReports
<1> QED BY <1>0, <1>1, SweeperKind, PendingReports

LEMMA SignerReports ==
  ASSUME StoreInv, SignerNext
  PROVE  tx' = tx \/ Reports(proc[Signer].id)
<1> DEFINE view == proc[Signer].view
<1>1. Signer \in Procs /\ (proc[Signer].pc # "idle" => view \in Row /\ view.status = "queued")
  BY SignerIn, SignerFacts DEF RunOK, SignerPC
<1>2. CASE FailDependent
  <2>1. Writes(Signer, WithStatus(view, "failed")) /\ view.status = "queued"
    BY <1>1, <1>2 DEF FailDependent, Writes
  <2> QED BY <1>1, <2>1, SettleReports DEF Settled
<1>3. CASE AssignNonce
  <2>1. PICK row : row = [view EXCEPT !.nonce = nextNonce]
    OBVIOUS
  <2>2. Writes(Signer, row) /\ row.status = view.status
    BY <1>1, <1>3, <2>1 DEF AssignNonce, Writes, Row
  <2> QED BY <1>1, <2>2, WriteReports
<1>4. CASE SignerDropNonce
  <2>1. PICK row : row = [view EXCEPT !.nonce = NoNonce, !.attempts = << >>]
    OBVIOUS
  <2>2. Writes(Signer, row) /\ row.status = view.status
    BY <1>1, <1>4, <2>1 DEF SignerDropNonce, Answered, Writes, Row
  <2> QED BY <1>1, <2>2, WriteReports
<1> QED BY <1>1, <1>2, <1>3, <1>4, SignerKind, PendingReports

LEMMA EitherReports ==
  ASSUME StoreInv, NEW p \in Procs, EitherNext(p)
  PROVE  tx' = tx \/ Reports(proc[p].id)
<1> DEFINE row == WithStatus(MarkRefused(proc[p].view, proc[p].n), "failed")
<1>1. CASE RefuseFiller(p) \/ FailWithFiller(p)
  <2>1. proc[p].pc = "answered"
    BY <1>1 DEF RefuseFiller, FailWithFiller, Answered
  <2>2. /\ proc[p].view \in Row /\ proc[p].view.status \in {"queued", "submitted"}
        /\ proc[p].id \in Ids /\ Related(p, proc[p], tx[proc[p].id])
    BY <2>1, RunFacts DEF RunOK, SignerPC, SweeperPC
  <2>3. row.status = "failed" /\ <<proc[p].view.status, "failed">> \in Edges
    BY <2>2, MarksKeep DEF Status, Edges
  <2>4. CASE RefuseFiller(p)
    <3>1. Writes(p, row)
      BY <2>1, <2>4 DEF RefuseFiller, Writes
    <3> QED BY <2>3, <3>1, WriteReports
  <2>5. CASE FailWithFiller(p)
    <3>1. PICK f \in Fillers : /\ proc[p].fresh /\ proc[p].id \in Payloads
                               /\ \E filler : tx' = [tx EXCEPT ![proc[p].id] = row, ![f] = filler]
      BY <2>5 DEF FailWithFiller, SaveWithFiller
    <3>2. f \notin Payloads /\ tx \in [Ids -> Row] /\ tx[proc[p].id] = proc[p].view
      BY <2>2, <3>1, IdsAssumption DEF StoreInv, TypeOK, Related
    <3> HIDE DEF row
    <3>3. tx'[proc[p].id] = row /\ \A u \in Payloads : u # proc[p].id => tx'[u] = tx[u]
      BY <3>1, <3>2 DEF Ids
    <3> QED BY <2>3, <3>2, <3>3 DEF Reports
  <2> QED BY <1>1, <2>4, <2>5
<1> QED BY <1>1, EitherKind, PendingReports

(***************************************************************************)
(* What stands of the promise whatever is lost or overlaps                 *)
(***************************************************************************)
Executed == {t \in Payloads : \E i \in DOMAIN used : used[i].sig.id = t}

LEMMA ReportStep ==
  ASSUME NEW t \in Payloads, NEW from, NEW to, tx[t].status \in from, tx'[t].status = to,
         \A u \in Payloads : u # t => tx'[u].status = tx[u].status, used' = used
  PROVE  Promise!Report(t, from, to)
BY DEF Promise!Report

ConfirmedAreExecuted == \A t \in Payloads : tx[t].status = "confirmed" => t \in Executed

LEMMA ConfirmedExecuted == StoreInv /\ ConfirmedIsMined => ConfirmedAreExecuted
<1> SUFFICES ASSUME StoreInv, ConfirmedIsMined, NEW t \in Payloads, tx[t].status = "confirmed"
             PROVE  t \in Executed
  BY DEF ConfirmedAreExecuted
<1>1. IsMined(Sig(t, tx[t], tx[t].mined.n))
  BY DEF ConfirmedIsMined, Ids
<1>2. DOMAIN used = 1 .. Len(used) /\ Len(used) \in Nat
  BY LenProperties DEF StoreInv, TypeOK
<1>3. tx[t].nonce + 1 \in DOMAIN used /\ used[tx[t].nonce + 1].sig.id = t
  BY <1>1, <1>2 DEF IsMined, Sig
<1> QED BY <1>3 DEF Executed

\* A step of a run reports one status at most, and confirmed truly.
LEMMA ReportsStand ==
  ASSUME ConfirmedAreExecuted', NEW t, Reports(t), used' = used
  PROVE  \/ UNCHANGED Promise!vars
         \/ t \in Payloads /\ (\/ Promise!Accept(t) \/ Promise!Sent(t) \/ Promise!SeenMined(t)
                                \/ Promise!SeenReorged(t) \/ Promise!Confirm(t)
                                \/ Promise!Report(t, {"queued", "submitted"}, "failed"))
<1>1. CASE \A u \in Payloads : tx'[u].status = tx[u].status
  BY <1>1 DEF Promise!vars
<1>2. CASE t \in Payloads /\ <<tx[t].status, tx'[t].status>> \in Edges
  <2>1. \A u \in Payloads : u # t => tx'[u].status = tx[u].status
    BY DEF Reports
  <2>2. CASE tx[t].status = "none" /\ tx'[t].status = "queued"
    BY <1>2, <2>1, <2>2, ReportStep DEF Promise!Accept
  <2>3. CASE tx[t].status = "queued" /\ tx'[t].status = "submitted"
    BY <1>2, <2>1, <2>3, ReportStep DEF Promise!Sent
  <2>4. CASE tx[t].status = "submitted" /\ tx'[t].status = "mined"
    BY <1>2, <2>1, <2>4, ReportStep DEF Promise!SeenMined
  <2>5. CASE tx[t].status = "mined" /\ tx'[t].status = "submitted"
    BY <1>2, <2>1, <2>5, ReportStep DEF Promise!SeenReorged
  <2>6. CASE tx[t].status = "mined" /\ tx'[t].status = "confirmed"
    <3>1. t \in Executed'
      BY <1>2, <2>6 DEF ConfirmedAreExecuted
    <3>2. t \in Executed
      BY <3>1 DEF Executed
    <3>3. Promise!Report(t, {"mined"}, "confirmed")
      BY <1>2, <2>1, <2>6, ReportStep
    <3>4. Promise!Confirm(t)
      BY <3>2, <3>3 DEF Promise!Confirm, Executed
    <3> QED BY <1>2, <3>4
  <2>7. CASE tx[t].status \in {"queued", "submitted"} /\ tx'[t].status = "failed"
    <3>1. Promise!Report(t, {"queued", "submitted"}, "failed")
      BY <1>2, <2>1, <2>7, ReportStep
    <3> QED BY <1>2, <3>1
  <2> QED BY <1>2, <2>2, <2>3, <2>4, <2>5, <2>6, <2>7 DEF Edges
<1> QED BY <1>1, <1>2 DEF Reports

\* The steps of a run: the chain stays as it is.
LEMMA RunReports ==
  ASSUME StoreInv, [Next]_vars, ~ChainNext
  PROVE  used' = used /\ (tx' = tx \/ \E t : Reports(t))
<1>1. CASE \E t \in Payloads : Submit(t)
  <2>1. PICK t \in Payloads : Submit(t)
    BY <1>1
  <2>2. tx'[t].status = "queued" /\ \A u \in Ids : u # t => tx'[u] = tx[u]
    BY <2>1 DEF Submit, StoreInv, TypeOK, WithStatus, NoRow, Ids
  <2>3. Reports(t) /\ used' = used
    BY <2>1, <2>2 DEF Submit, Reports, Edges, chainVars, Ids
  <2> QED BY <2>3
<1>2. CASE SignerNext
  <2>1. used' = used
    BY <1>2 DEF SignerNext, SignerSkip, SignerTake, FailDependent, RaiseNonce,
       AssignNonce, SignAttempt, SignerSubmitted, SignerUnderpriced, SignerNoFunds,
       SignerTooLowSubmitted, SignerDropNonce, chainVars
  <2> QED BY <1>2, <2>1, SignerReports
<1>3. CASE \E s \in Sweepers : SweeperNext(s)
  <2>1. PICK s \in Sweepers : SweeperNext(s)
    BY <1>3
  <2>2. used' = used
    BY <2>1 DEF SweeperNext, SweepRead, SweepDone, ReadActive, Unpause, Requeue, SweepReorged,
       SweepConfirmed, SweepFound, MarkMined, ConfirmMined, StampUsed, WalkEmpty, FailUsed,
       NonceUnused, SaveProgress, Replace, Rebroadcast, RebroadcastTaken,
       RebroadcastUnderpriced, ReplaceTaken, ReplaceUnderpriced, SweepNoFunds, SweepTooLow,
       chainVars
  <2> QED BY <2>1, <2>2, SweeperReports
<1>4. CASE \E p \in Procs : EitherNext(p)
  <2>1. PICK p \in Procs : EitherNext(p)
    BY <1>4
  <2>2. used' = used
    BY <2>1 DEF EitherNext, Send, SendTimedOut, RefuseMarked, RefuseFiller, FailWithFiller,
       Abort, chainVars
  <2> QED BY <2>1, <2>2, EitherReports
<1>5. CASE UNCHANGED vars
  BY <1>5 DEF vars
<1> QED BY <1>1, <1>2, <1>3, <1>4, <1>5 DEF Next

LEMMA StandsStep ==
  ASSUME StoreInv, ConfirmedAreExecuted', [Next]_vars
  PROVE  [Promise!NextAnyway]_(Promise!vars)
<1>1. CASE ChainNext
  <2>1. tx' = tx
    BY <1>1 DEF ChainNext, EmptyBlock, MineNonce, ForeignSend, Reorg, storeVars
  <2>2. Executed' \in SUBSET Payloads
    BY DEF Executed
  <2>3. ASSUME NEW t \in Executed \ Executed' PROVE tx[t].status # "confirmed"
    BY <2>1, <2>3 DEF Executed, ConfirmedAreExecuted
  <2>4. Promise!ExecuteAnyway
    BY <2>1, <2>2, <2>3 DEF Promise!ExecuteAnyway, Executed
  <2> QED BY <2>4 DEF Promise!NextAnyway
<1>2. CASE ~ChainNext
  <2>1. used' = used /\ (tx' = tx \/ \E t : Reports(t))
    BY <1>2, RunReports
  <2>2. CASE tx' = tx
    BY <2>1, <2>2 DEF Promise!vars
  <2>3. CASE \E t : Reports(t)
    BY <2>1, <2>3, ReportsStand DEF Promise!NextAnyway, Promise!ReportAnyway
  <2> QED BY <2>1, <2>2, <2>3
<1> QED BY <1>1, <1>2

LEMMA PromiseInit == Init => Promise!Init
<1> SUFFICES ASSUME Init PROVE Promise!Init
  OBVIOUS
<1>1. \A t \in Payloads : tx[t].status = "none"
  BY DEF Init, NoRow, Ids
<1>2. DOMAIN used = {}
  BY EmptySeq DEF Init
<1> QED BY <1>1, <1>2 DEF Promise!Init

\* Whatever nodes answer, is lost, times out, overlaps, dies or is reorged, a client is told
\* statuses along the promised edges only, and confirmed only of what is executed and
\* then stays executed.
THEOREM ReportsAlwaysStand == Spec => PromiseStands
<1>1. KnownInv => ConfirmedIsMined
  BY DEF KnownInv, RowsKnown, DeepOnChain, OnChain, ConfirmedIsMined, IsMined, Sig
<1>2. (StoreInv /\ KnownInv => ConfirmedAreExecuted)
  BY <1>1, ConfirmedExecuted
<1>3. StoreInv /\ ConfirmedAreExecuted' /\ [Next]_vars => [Promise!NextAnyway]_(Promise!vars)
  BY StandsStep
<1> QED BY <1>2, <1>3, PromiseInit, KnownAlways, PTL DEF Spec, PromiseStands, Promise!SpecAnyway

(***************************************************************************)
(* The relayer keeps its promise                                           *)
(***************************************************************************)
\* What the proof asks of the states before and after a step.
Truthful ==
  /\ StoreInv /\ UsedInOrder /\ ReachedIsListed /\ AtMostOnce
  /\ ConfirmedIsMined /\ FailedNeverMined /\ ConfirmedAreExecuted

\* A step of a run reports one status at most, and truly.
LEMMA ReportsKeep ==
  ASSUME Truthful, Truthful', NEW t, Reports(t), used' = used
  PROVE  [Promise!Next]_(Promise!vars)
<1>1. CASE UNCHANGED Promise!vars
  BY <1>1
<1>2. CASE t \in Payloads /\ Promise!Report(t, {"queued", "submitted"}, "failed")
  <2>1. tx'[t].status = "failed"
    BY <1>2 DEF Promise!Report
  <2>2. t \notin Executed
    BY <1>2, <2>1, IdsAssumption DEF Truthful, FailedNeverMined, Executed, Ids
  <2>3. Promise!Fail(t)
    BY <1>2, <2>2 DEF Promise!Fail, Executed
  <2> QED BY <1>2, <2>3 DEF Promise!Next
<1>3. CASE t \in Payloads /\ (\/ Promise!Accept(t) \/ Promise!Sent(t) \/ Promise!SeenMined(t)
                             \/ Promise!SeenReorged(t) \/ Promise!Confirm(t))
  BY <1>3 DEF Promise!Next
<1> QED BY <1>1, <1>2, <1>3, ReportsStand DEF Truthful

\* A block executes one payload at most, that was neither settled nor executed.
LEMMA MineKeeps ==
  ASSUME Truthful, Truthful', MineNonce
  PROVE  [Promise!Next]_(Promise!vars)
<1> DEFINE Used == [sig : [id : Ids \cup {NoTx}, nonce : Nat, n : Nat], block : Nat]
<1>1. /\ used \in Seq(Used) /\ head \in Nat /\ reached \subseteq Signature /\ tx' = tx
      /\ foreign \subseteq Nat /\ DOMAIN used = 1 .. Len(used) /\ Len(used) \in Nat
  BY LenProperties DEF Truthful, StoreInv, TypeOK, MineNonce, storeVars
<1>2. PICK sig \in reached \cup {Foreign(n) : n \in foreign} :
        used' = Append(used, [sig |-> sig, block |-> head + 1])
  BY DEF MineNonce
<1>3. PICK new : new = [sig |-> sig, block |-> head + 1]
  OBVIOUS
<1>4. sig \in [id : Ids \cup {NoTx}, nonce : Nat, n : Nat]
  BY <1>1 DEF Foreign, Signature
<1>5. new \in Used /\ new.sig = sig
  BY <1>1, <1>3, <1>4
<1>6. /\ DOMAIN used' = 1 .. Len(used) + 1 /\ used'[Len(used) + 1] = new
      /\ \A k \in 1 .. Len(used) : used'[k] = used[k]
  BY <1>1, <1>2, <1>3, <1>5, AppendProperties, LenProperties
<1>7. Executed' = IF sig.id \in Payloads THEN Executed \cup {sig.id} ELSE Executed
  <2>1. ASSUME NEW t \in Payloads
        PROVE  (\E i \in DOMAIN used' : used'[i].sig.id = t)
                 <=> (\E i \in DOMAIN used : used[i].sig.id = t) \/ t = sig.id
    <3>1. ASSUME NEW i \in DOMAIN used', used'[i].sig.id = t
          PROVE  (\E j \in DOMAIN used : used[j].sig.id = t) \/ t = sig.id
      <4>1. i \in 1 .. Len(used) \/ i = Len(used) + 1
        BY <1>1, <1>6
      <4> QED BY <1>1, <1>5, <1>6, <3>1, <4>1
    <3>2. Len(used) + 1 \in DOMAIN used' /\ \A k \in DOMAIN used : k \in DOMAIN used'
      BY <1>1, <1>6
    <3> QED BY <1>1, <1>5, <1>6, <3>1, <3>2
  <2> QED BY <2>1 DEF Executed
<1>8. CASE sig.id \notin Payloads
  BY <1>1, <1>7, <1>8 DEF Promise!vars, Executed
<1>9. CASE sig.id \in Payloads
  <2> DEFINE t == sig.id
  <2>1. t \notin Executed /\ t # NoTx /\ t \in Ids
    <3>1. t # NoTx /\ t \in Ids
      BY <1>9, IdsAssumption DEF Ids
    <3>2. ASSUME NEW i \in DOMAIN used, used[i].sig.id = t PROVE FALSE
      <4>1. i \in DOMAIN used' /\ Len(used) + 1 \in DOMAIN used' /\ i # Len(used) + 1
        BY <1>1, <1>6
      <4>2. used'[i].sig.id = t /\ used'[Len(used) + 1].sig.id = t
        BY <1>1, <1>5, <1>6, <3>2
      <4> QED BY <3>1, <4>1, <4>2 DEF Truthful, AtMostOnce
    <3> QED BY <3>1, <3>2 DEF Executed
  <2>2. sig \in reached
    BY <2>1 DEF Foreign
  <2>3. tx[t].status \notin {"none", "confirmed", "failed"}
    <3>1. tx[t].status # "none"
      <4>1. sig.nonce = tx[t].nonce /\ sig.nonce # NoNonce
        BY <1>1, <2>2 DEF Truthful, ReachedIsListed, Signature, NoNonce
      <4> QED BY <2>1, <4>1 DEF Truthful, StoreInv, RowsOK, RowOK
    <3>2. tx[t].status # "confirmed"
      BY <1>9, <2>1 DEF Truthful, ConfirmedAreExecuted
    <3>3. tx[t].status # "failed"
      <4>1. Len(used) + 1 \in DOMAIN used' /\ used'[Len(used) + 1].sig.id = t
        BY <1>1, <1>5, <1>6
      <4> QED BY <1>1, <2>1, <4>1 DEF Truthful, FailedNeverMined
    <3> QED BY <3>1, <3>2, <3>3
  <2>4. tx[t].status \in {"queued", "submitted", "mined"}
    BY <2>1, <2>3 DEF Truthful, StoreInv, TypeOK, Row, Status
  <2>5. Promise!Execute(t)
    BY <1>1, <1>7, <1>9, <2>1, <2>4 DEF Promise!Execute, Executed
  <2> QED BY <1>9, <2>5 DEF Promise!Next
<1> QED BY <1>8, <1>9

\* A reorg takes back nothing that is reported as confirmed.
LEMMA ReorgKeeps ==
  ASSUME Truthful, Truthful', Reorg
  PROVE  [Promise!Next]_(Promise!vars)
<1> DEFINE Used == [sig : [id : Ids \cup {NoTx}, nonce : Nat, n : Nat], block : Nat]
<1>1. /\ used \in Seq(Used) /\ tx' = tx
      /\ DOMAIN used = 1 .. Len(used) /\ Len(used) \in Nat
  BY LenProperties DEF Truthful, StoreInv, TypeOK, Reorg, storeVars
<1>2. PICK m \in 0 .. Len(used) - 1 : used' = SubSeq(used, 1, m)
  BY DEF Reorg
<1>3. ASSUME NEW k \in 1 .. m PROVE k \in DOMAIN used /\ used[k] \in Used
  <2>1. k \in 1 .. Len(used)
    BY <1>1, <1>2
  <2> QED BY <1>1, <2>1, ElementOfSeq
<1>4. DOMAIN used' = 1 .. m /\ \A k \in 1 .. m : used'[k] = used[k]
  BY <1>1, <1>2, <1>3, SubSeqProperties, LenProperties
<1>5. Executed' \subseteq Executed
  BY <1>3, <1>4 DEF Executed
<1>6. ASSUME NEW t \in Executed \ Executed' PROVE tx[t].status # "confirmed"
  <2>1. t \in Payloads
    BY DEF Executed
  <2> QED BY <1>1, <2>1 DEF Truthful, ConfirmedAreExecuted
<1>7. Promise!Undo
  BY <1>1, <1>5, <1>6 DEF Promise!Undo, Executed
<1> QED BY <1>7 DEF Promise!Next

LEMMA PromiseStep ==
  ASSUME Truthful, Truthful', [Next]_vars
  PROVE  [Promise!Next]_(Promise!vars)
<1>1. CASE tx' = tx /\ used' = used
  BY <1>1 DEF Promise!vars
<1>2. CASE ChainNext
  <2>1. CASE EmptyBlock \/ ForeignSend
    BY <1>1, <2>1 DEF EmptyBlock, ForeignSend, storeVars
  <2> QED BY <1>2, <2>1, MineKeeps, ReorgKeeps DEF ChainNext
<1>3. CASE ~ChainNext
  BY <1>1, <1>3, RunReports, ReportsKeep DEF Truthful
<1> QED BY <1>2, <1>3

\* The relayer implements what it promises its clients: the statuses it reports go
\* along that machine's edges, confirmed is executed and stays so, and failed is
\* not executed and never will be.
THEOREM PromiseIsKept ==
  ASSUME Reliable
  PROVE  Spec => PromiseKept
<1>1. ReliableInv => Truthful
  <2>1. ReliableInv => StoreInv /\ UsedInOrder /\ ReachedIsListed /\ AtMostOnce /\ FailedNeverMined
    BY OneNonceEach, InvNeverMined DEF ReliableInv, ChainInv
  <2>2. ReliableInv => ConfirmedIsMined
    BY DEF ReliableInv, KnownInv, RowsKnown, DeepOnChain, OnChain, ConfirmedIsMined, IsMined, Sig
  <2> QED BY <2>1, <2>2, ConfirmedExecuted DEF Truthful
<1>2. Truthful /\ Truthful' /\ [Next]_vars => [Promise!Next]_(Promise!vars)
  BY PromiseStep
<1> QED BY <1>1, <1>2, PromiseInit, ReliableAlways, PTL DEF Spec, PromiseKept, Promise!Spec

=============================================================================
