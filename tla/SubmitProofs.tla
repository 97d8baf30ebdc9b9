----------------------------- MODULE SubmitProofs ------------------------------
(***************************************************************************)
(* That a request is safe to send again (OneTxPerKey), that a day's        *)
(* transactions cost no more than the cap (SpendWithinCap), and that a     *)
(* delivery which sends one ends as the transaction does (RelayEndsTrue)   *)
(* and keeps the promise of Outbox (RelaysOutboxKept), proved for every    *)
(* set of requests, keys and overlapping runs, and every number of faults. *)
(***************************************************************************)
EXTENDS Relays, FiniteSetTheorems, WellFoundedInduction, TLAPS

Pcs == {"idle", "lookup", "check", "create", "raced", "answer"}

\* The request an idle run has: any, and none if there are no requests.
Anyone == CHOOSE r \in Requests : TRUE

Run == [pc : Pcs, request : Requests \cup {Anyone}, day : Nat, answer : Answer]
Tx == [id : TxIds, request : Requests, day : Nat]

SubmitTyped ==
  /\ today \in Nat
  /\ stored \subseteq Tx
  /\ claims \in [Keys -> [tx : TxIds \cup {NoTx}, day : Nat]]
  /\ call \in [Calls -> Run]
  /\ \A c \in Calls : call[c].pc # "idle" => call[c].request \in Requests
  /\ answered \in [Requests -> SUBSET TxIds]

IdsUnique == \A s, t \in stored : s.id = t.id => s = t

\* A claim names a transaction of its key, also once another claim expired.
ClaimBacked(k) ==
  claims[k].tx # NoTx => \E t \in stored : t.id = claims[k].tx /\ KeyOf[t.request] = k

\* Until its claim expires, a key's claim names every transaction of the key.
ClaimNamesAll(k) ==
  k \notin expired => \A t \in stored : KeyOf[t.request] = k => claims[k].tx = t.id

\* A transaction that a request is, or was, answered with is the request's.
Owns(r, id) == \E t \in stored : t.id = id /\ t.request = r

AnswerOwned(c) ==
  call[c].pc = "answer" /\ call[c].answer.tx # NoTx => Owns(call[c].request, call[c].answer.tx)

SubmitInv ==
  /\ SubmitTyped /\ IdsUnique
  /\ \A k \in Keys : ClaimBacked(k) /\ ClaimNamesAll(k)
  /\ \A c \in Calls : AnswerOwned(c)
  /\ \A r \in Requests : \A id \in answered[r] : Owns(r, id)

LEMMA NoTxIsNoId == NoTx \notin TxIds /\ TxIds \subseteq Nat
BY RequestsAssumption DEF NoTx, TxIds

LEMMA InvSafe == SubmitInv => OneTxPerKey
<1> SUFFICES ASSUME SubmitInv
             PROVE  ClaimNamesTx /\ SameAnswer
  BY DEF OneTxPerKey
<1>1. ClaimNamesTx
  BY DEF SubmitInv, ClaimBacked, ClaimNamesAll, ClaimNamesTx
<1>2. ASSUME NEW r \in Requests, KeyOf[r] \notin expired, NEW a \in answered[r], NEW b \in answered[r]
      PROVE  a = b /\ \E t \in stored : t.id = a /\ t.request = r
  <2>1. KeyOf[r] \in Keys
    BY RequestsAssumption
  <2>2. PICK s \in stored, t \in stored : s.id = a /\ s.request = r /\ t.id = b /\ t.request = r
    BY DEF SubmitInv, Owns
  <2>3. claims[KeyOf[r]].tx = a /\ claims[KeyOf[r]].tx = b
    BY <1>2, <2>1, <2>2 DEF SubmitInv, ClaimNamesAll
  <2> QED
    BY <2>2, <2>3
<1>3. SameAnswer
  BY <1>2 DEF SameAnswer
<1> QED
  BY <1>1, <1>3

\* One run moves on, and at most its own answer is new.
LEMMA CallStep ==
  ASSUME SubmitInv, NEW c \in Calls, NEW next \in Run, Is(c, next),
         next.pc # "idle" => next.request \in Requests,
         next.pc = "answer" /\ next.answer.tx # NoTx => Owns(next.request, next.answer.tx),
         UNCHANGED <<today, stored, claims, answered, expired>>
  PROVE  SubmitInv'
<1>1. call' = [call EXCEPT ![c] = next] /\ call \in [Calls -> Run]
  BY DEF Is, SubmitInv, SubmitTyped
<1>2. SubmitTyped'
  BY <1>1 DEF SubmitInv, SubmitTyped
<1>3. \A d \in Calls : AnswerOwned(d)'
  BY <1>1 DEF SubmitInv, AnswerOwned, Owns
<1> QED
  BY <1>2, <1>3 DEF SubmitInv, IdsUnique, ClaimBacked, ClaimNamesAll, Owns

LEMMA CallType ==
  ASSUME SubmitInv, NEW c \in Calls
  PROVE  /\ call[c] \in Run /\ (call[c].pc # "idle" => call[c].request \in Requests)
         /\ today \in Nat
BY DEF SubmitInv, SubmitTyped

\* What a run answers with, or does next.
Answered(c, what, id) == [call[c] EXCEPT !.pc = "answer", !.answer = [what |-> what, tx |-> id]]

LEMMA AnswerType ==
  ASSUME SubmitInv, NEW c \in Calls, NEW what \in Outcomes, NEW id \in TxIds \cup {NoTx}
  PROVE  /\ Answered(c, what, id) \in Run
         /\ Answered(c, what, id).request = call[c].request
         /\ Answered(c, what, id).pc = "answer"
         /\ Answered(c, what, id).answer.what = what
         /\ Answered(c, what, id).answer.tx = id
BY CallType DEF Run, Pcs, Answer, Answered

LEMMA AnswersStep ==
  ASSUME SubmitInv, NEW c \in Calls, call[c].pc # "idle", NEW what \in Outcomes,
         NEW id \in TxIds \cup {NoTx}, Answers(c, what, id), id # NoTx => Owns(call[c].request, id),
         UNCHANGED <<today, stored, claims, answered, expired>>
  PROVE  SubmitInv'
<1> DEFINE n == Answered(c, what, id)
<1>1. /\ n \in Run /\ n.request = call[c].request /\ n.answer.tx = id /\ n.pc = "answer"
      /\ call[c].request \in Requests
  BY AnswerType, CallType
<1>2. Is(c, n)
  BY DEF Answers, Answered
<1> HIDE DEF n
<1> QED
  BY <1>1, <1>2, CallStep

LEMMA PcStep ==
  ASSUME SubmitInv, NEW c \in Calls, call[c].pc # "idle", NEW pc \in Pcs \ {"answer"}, NEW day \in Nat,
         Is(c, [call[c] EXCEPT !.pc = pc, !.day = day]),
         UNCHANGED <<today, stored, claims, answered, expired>>
  PROVE  SubmitInv'
<1> DEFINE n == [call[c] EXCEPT !.pc = pc, !.day = day]
<1>1. n \in Run /\ n.pc = pc /\ n.request = call[c].request /\ call[c].request \in Requests
  BY CallType DEF Run
<1>2. Is(c, n)
  OBVIOUS
<1> HIDE DEF n
<1> QED
  BY <1>1, <1>2, CallStep

\* Reading a key's transaction gives the one of this request or a conflict.
LEMMA ReplayedStep ==
  ASSUME SubmitInv, NEW c \in Calls, call[c].pc # "idle",
         NEW id, id = claims[KeyOf[call[c].request]].tx, id # NoTx, Replayed(c, id),
         UNCHANGED <<today, stored, claims, answered, expired>>
  PROVE  SubmitInv'
<1>1. call[c].request \in Requests /\ KeyOf[call[c].request] \in Keys
  BY CallType, RequestsAssumption
<1>2. id \in TxIds \cup {NoTx} /\ \E t \in stored : t.id = id
  BY <1>1 DEF SubmitInv, SubmitTyped, ClaimBacked
<1>3. TxOf(id) \in stored /\ TxOf(id).id = id
  BY <1>2 DEF TxOf
<1>4. CASE TxOf(id).request = call[c].request
  <2>1. Answers(c, "stored", id) /\ Owns(call[c].request, id) /\ "stored" \in Outcomes
    BY <1>3, <1>4 DEF Replayed, Owns, Outcomes
  <2> QED
    BY <1>2, <2>1, AnswersStep
<1>5. CASE TxOf(id).request # call[c].request
  <2>1. Answers(c, "conflict", NoTx) /\ "conflict" \in Outcomes
    BY <1>5 DEF Replayed, Outcomes
  <2> QED
    BY <2>1, AnswersStep
<1> QED
  BY <1>4, <1>5

(***************************************************************************)
(* The steps of a run                                                      *)
(***************************************************************************)
LEMMA RelayInv ==
  ASSUME SubmitInv, NEW c \in Calls, NEW r \in Requests, Relay(c, r)
  PROVE  SubmitInv'
<1> DEFINE n == [pc |-> "lookup", request |-> r, day |-> today, answer |-> Unanswered]
<1>1. n \in Run /\ n.pc = "lookup" /\ n.request = r
  BY CallType DEF Run, Pcs, Unanswered, Answer, Outcomes
<1>2. Is(c, n) /\ UNCHANGED <<today, stored, claims, answered, expired>>
  BY DEF Relay
<1> HIDE DEF n
<1> QED
  BY <1>1, <1>2, CallStep

LEMMA LookupInv == ASSUME SubmitInv, NEW c \in Calls, Lookup(c) PROVE SubmitInv'
<1> DEFINE id == claims[KeyOf[call[c].request]].tx
<1>1. /\ call[c].pc = "lookup" /\ UNCHANGED <<today, stored, claims, answered, expired>>
      /\ IF id # NoTx THEN Replayed(c, id) ELSE Is(c, [call[c] EXCEPT !.pc = "check"])
  BY DEF Lookup
<1> HIDE DEF id
<1>2. CASE id # NoTx
  BY <1>1, <1>2, ReplayedStep DEF id
<1>3. CASE id = NoTx
  <2>1. [call[c] EXCEPT !.pc = "check"] = [call[c] EXCEPT !.pc = "check", !.day = call[c].day]
    BY CallType DEF Run
  <2>2. call[c].day \in Nat /\ "check" \in Pcs \ {"answer"}
    BY CallType DEF Run, Pcs
  <2> QED
    BY <1>1, <1>3, <2>1, <2>2, PcStep
<1> QED
  BY <1>2, <1>3

LEMMA CheckInv == ASSUME SubmitInv, NEW c \in Calls, Check(c) PROVE SubmitInv'
<1>1. call[c].pc = "check" /\ UNCHANGED <<today, stored, claims, answered, expired>>
  BY DEF Check
<1>2. ASSUME NEW what \in {"refused", "busy", "cap"}, Answers(c, what, NoTx)
      PROVE  SubmitInv'
  <2>1. what \in Outcomes
    BY DEF Outcomes
  <2> QED
    BY <1>1, <1>2, <2>1, AnswersStep
<1>3. CASE Is(c, [call[c] EXCEPT !.pc = "create", !.day = today])
  <2>1. today \in Nat /\ "create" \in Pcs \ {"answer"}
    BY CallType DEF Pcs
  <2> QED
    BY <1>1, <1>3, <2>1, PcStep
<1> QED
  BY <1>2, <1>3 DEF Check

LEMMA RacedInv == ASSUME SubmitInv, NEW c \in Calls, Raced(c) PROVE SubmitInv'
<1> DEFINE id == claims[KeyOf[call[c].request]].tx
<1>1. /\ call[c].pc = "raced" /\ UNCHANGED <<today, stored, claims, answered, expired>>
      /\ IF id = NoTx THEN Answers(c, "busy", NoTx) ELSE Replayed(c, id)
  BY DEF Raced
<1> HIDE DEF id
<1>2. "busy" \in Outcomes
  BY DEF Outcomes
<1> QED
  BY <1>1, <1>2, ReplayedStep, AnswersStep DEF id

LEMMA BusyInv == ASSUME SubmitInv, NEW c \in Calls, Busy(c) PROVE SubmitInv'
<1>1. call[c].pc = "create" /\ Answers(c, "busy", NoTx) /\ "busy" \in Outcomes
      /\ UNCHANGED <<today, stored, claims, answered, expired>>
  BY DEF Busy, Outcomes
<1> QED
  BY <1>1, AnswersStep

\* The run is over: with its answer, or lost.
LEMMA IdleRun ==
  ASSUME SubmitInv, NEW c \in Calls
  PROVE  LET n == [call[c] EXCEPT !.pc = "idle", !.answer = Unanswered, !.day = 0]
         IN n \in Run /\ n.pc = "idle"
BY CallType DEF Run, Pcs, Unanswered, Answer, Outcomes

LEMMA LostInv == ASSUME SubmitInv, NEW c \in Calls, Lost(c) PROVE SubmitInv'
<1> DEFINE n == [call[c] EXCEPT !.pc = "idle", !.answer = Unanswered, !.day = 0]
<1>1. n \in Run /\ n.pc = "idle"
  BY IdleRun
<1>2. Is(c, n) /\ UNCHANGED <<today, stored, claims, answered, expired>>
  BY DEF Lost
<1> HIDE DEF n
<1> QED
  BY <1>1, <1>2, CallStep

LEMMA ReachesInv == ASSUME SubmitInv, NEW c \in Calls, Reaches(c) PROVE SubmitInv'
<1> DEFINE n == [call[c] EXCEPT !.pc = "idle", !.answer = Unanswered, !.day = 0]
           r == call[c].request
           new == {call[c].answer.tx} \ {NoTx}
<1>1. n \in Run /\ n.pc = "idle"
  BY IdleRun
<1>2. /\ call[c].pc = "answer" /\ call' = [call EXCEPT ![c] = n]
      /\ answered' = [answered EXCEPT ![r] = @ \cup new]
      /\ UNCHANGED <<today, stored, claims, expired>>
  BY DEF Reaches, Is
<1>3. r \in Requests /\ new \in SUBSET TxIds /\ \A id \in new : Owns(r, id)
  BY <1>2, CallType DEF SubmitInv, AnswerOwned, Run, Answer
<1> HIDE DEF n, r, new
<1>4. SubmitTyped'
  <2>1. answered' \in [Requests -> SUBSET TxIds]
    BY <1>2, <1>3 DEF SubmitInv, SubmitTyped
  <2>2. call' \in [Calls -> Run]
        /\ \A d \in Calls : call'[d].pc # "idle" => call'[d].request \in Requests
    BY <1>1, <1>2 DEF SubmitInv, SubmitTyped
  <2> QED
    BY <1>2, <2>1, <2>2 DEF SubmitInv, SubmitTyped
<1>5. \A d \in Calls : AnswerOwned(d)'
  BY <1>1, <1>2 DEF SubmitInv, SubmitTyped, AnswerOwned, Owns
<1>6. \A q \in Requests : \A id \in answered'[q] : Owns(q, id)'
  BY <1>2, <1>3 DEF SubmitInv, SubmitTyped, Owns
<1> QED
  BY <1>2, <1>4, <1>5, <1>6 DEF SubmitInv, IdsUnique, ClaimBacked, ClaimNamesAll

\* The write of three items: its transaction is the key's only one.
LEMMA StoresInv ==
  ASSUME SubmitInv, NEW c \in Calls, call[c].pc = "create", NEW r, r = call[c].request,
         ~Claimed(KeyOf[r]), NEW id \in TxIds \ Used, NEW day \in Nat,
         stored' = stored \cup {[id |-> id, request |-> r, day |-> day]},
         claims' = [claims EXCEPT ![KeyOf[r]] = [tx |-> id, day |-> day]],
         Is(c, [call[c] EXCEPT !.pc = "answer", !.answer = [what |-> "stored", tx |-> id]]),
         UNCHANGED <<today, answered, expired>>
  PROVE  SubmitInv'
<1> DEFINE n == [call[c] EXCEPT !.pc = "answer", !.answer = [what |-> "stored", tx |-> id]]
           k == KeyOf[r]
           tx == [id |-> id, request |-> r, day |-> day]
<1>1. "stored" \in Outcomes
  BY DEF Outcomes
<1>2. n \in Run /\ n.request = r /\ n.answer.tx = id /\ n.pc = "answer"
  <2>1. id \in TxIds \cup {NoTx}
    OBVIOUS
  <2>2. n \in Run /\ n.request = call[c].request /\ n.answer.tx = id /\ n.pc = "answer"
    BY ONLY SubmitInv, c \in Calls, <1>1, <2>1, CallType DEF Run, Pcs, Answer
  <2> HIDE DEF n
  <2> QED
    BY <2>2
<1>3. call' = [call EXCEPT ![c] = n] /\ claims' = [claims EXCEPT ![k] = [tx |-> id, day |-> day]]
  BY DEF Is
<1>4. r \in Requests /\ k \in Keys
  BY CallType, RequestsAssumption
<1>5. /\ tx \in Tx /\ tx.id = id /\ tx.request = r /\ stored' = stored \cup {tx}
      /\ \A t \in stored : t.id # id
  BY <1>4 DEF Tx, Used
<1>6. claims[k].tx = NoTx
  BY DEF Claimed
<1> HIDE DEF n, k, tx
<1>7. SubmitTyped'
  <2>1. call' \in [Calls -> Run]
        /\ \A d \in Calls : call'[d].pc # "idle" => call'[d].request \in Requests
    BY <1>2, <1>3, <1>4 DEF SubmitInv, SubmitTyped
  <2>2. claims' \in [Keys -> [tx : TxIds \cup {NoTx}, day : Nat]]
    <3>1. [tx |-> id, day |-> day] \in [tx : TxIds \cup {NoTx}, day : Nat]
      OBVIOUS
    <3> QED
      BY <1>3, <3>1 DEF SubmitInv, SubmitTyped
  <2> QED
    BY <1>5, <2>1, <2>2 DEF SubmitInv, SubmitTyped
<1>8. IdsUnique'
  BY <1>5 DEF SubmitInv, IdsUnique
<1>9. \A j \in Keys \ {k} : claims'[j] = claims[j]
  BY <1>3 DEF SubmitInv, SubmitTyped
<1>10. claims'[k].tx = id
  BY <1>3, <1>4 DEF SubmitInv, SubmitTyped
<1>11. KeyOf[tx.request] = k
  BY <1>5 DEF k
<1>12. ASSUME NEW j \in Keys PROVE ClaimBacked(j)'
  <2>1. CASE j = k
    BY <1>5, <1>10, <1>11, <2>1 DEF ClaimBacked
  <2>2. CASE j # k
    BY <1>5, <1>9, <2>2 DEF SubmitInv, ClaimBacked
  <2> QED
    BY <2>1, <2>2
<1>13. ASSUME NEW j \in Keys PROVE ClaimNamesAll(j)'
  <2>1. CASE j = k
    <3>1. k \notin expired => \A t \in stored : KeyOf[t.request] # k
      BY <1>4, <1>6, NoTxIsNoId DEF SubmitInv, SubmitTyped, ClaimNamesAll, Tx
    <3> QED
      BY <1>5, <1>10, <2>1, <3>1 DEF ClaimNamesAll
  <2>2. CASE j # k
    BY <1>5, <1>9, <1>11, <2>2 DEF SubmitInv, ClaimNamesAll
  <2> QED
    BY <2>1, <2>2
<1>14. \A q \in Requests, i \in TxIds : Owns(q, i) => Owns(q, i)'
  BY <1>5 DEF Owns
<1>15. Owns(r, id)'
  BY <1>5 DEF Owns
<1>16. ASSUME NEW d \in Calls PROVE AnswerOwned(d)'
  <2>1. CASE d = c
    <3>1. call'[d] = n
      BY <1>3, <2>1 DEF SubmitInv, SubmitTyped
    <3> QED
      BY <1>2, <1>15, <3>1 DEF AnswerOwned
  <2>2. CASE d # c
    <3>1. call'[d] = call[d]
      BY <1>3, <2>2 DEF SubmitInv, SubmitTyped
    <3>2. call[d].pc = "answer" => call[d].request \in Requests
      BY CallType
    <3>3. call[d].answer.tx \in TxIds \cup {NoTx}
      BY CallType DEF Run, Answer
    <3> QED
      BY <1>14, <3>1, <3>2, <3>3 DEF SubmitInv, AnswerOwned
  <2> QED
    BY <2>1, <2>2
<1>17. \A q \in Requests : \A i \in answered'[q] : Owns(q, i)'
  BY <1>14 DEF SubmitInv, SubmitTyped
<1> QED
  BY <1>7, <1>8, <1>12, <1>13, <1>16, <1>17 DEF SubmitInv

LEMMA CreateInv == ASSUME SubmitInv, NEW c \in Calls, Create(c) PROVE SubmitInv'
<1> DEFINE r == call[c].request
           day == call[c].day
<1>1. call[c].pc = "create" /\ UNCHANGED <<today, answered, expired>>
  BY DEF Create
<1>2. CASE Is(c, [call[c] EXCEPT !.pc = "raced"]) /\ UNCHANGED <<stored, claims>>
  <2>1. [call[c] EXCEPT !.pc = "raced"] = [call[c] EXCEPT !.pc = "raced", !.day = call[c].day]
    BY CallType DEF Run
  <2>2. call[c].day \in Nat /\ "raced" \in Pcs \ {"answer"}
    BY CallType DEF Run, Pcs
  <2> QED
    BY <1>1, <1>2, <2>1, <2>2, PcStep
<1>3. CASE Answers(c, "cap", NoTx) /\ UNCHANGED <<stored, claims>>
  <2>1. "cap" \in Outcomes
    BY DEF Outcomes
  <2> QED
    BY <1>1, <1>3, <2>1, AnswersStep
<1>4. ASSUME ~Claimed(KeyOf[r]), NEW id \in TxIds \ Used,
             stored' = stored \cup {[id |-> id, request |-> r, day |-> day]},
             claims' = [claims EXCEPT ![KeyOf[r]] = [tx |-> id, day |-> day]],
             Is(c, [call[c] EXCEPT !.pc = "answer", !.answer = [what |-> "stored", tx |-> id]])
      PROVE  SubmitInv'
  <2>1. day \in Nat /\ r = call[c].request
    BY CallType DEF Run
  <2> HIDE DEF r, day
  <2> QED
    BY <1>1, <1>4, <2>1, StoresInv
<1> QED
  BY <1>2, <1>3, <1>4 DEF Create

(***************************************************************************)
(* Time                                                                    *)
(***************************************************************************)
LEMMA MidnightInv == ASSUME SubmitInv, Midnight PROVE SubmitInv'
<1>1. today' \in Nat /\ UNCHANGED <<stored, claims, call, answered, expired>>
  BY DEF Midnight, SubmitInv, SubmitTyped
<1> QED
  BY <1>1 DEF SubmitInv, SubmitTyped, IdsUnique, ClaimBacked, ClaimNamesAll, AnswerOwned, Owns

LEMMA ClaimExpiresInv ==
  ASSUME SubmitInv, NEW k \in Keys, ClaimExpires(k)
  PROVE  SubmitInv'
<1>1. /\ claims' = [claims EXCEPT ![k].tx = NoTx] /\ expired' = expired \cup {k}
      /\ UNCHANGED <<today, stored, call, answered>>
  BY DEF ClaimExpires
<1>2. claims' \in [Keys -> [tx : TxIds \cup {NoTx}, day : Nat]] /\ claims'[k].tx = NoTx
      /\ \A j \in Keys \ {k} : claims'[j] = claims[j]
  BY <1>1 DEF SubmitInv, SubmitTyped
<1>3. \A j \in Keys : ClaimBacked(j)' /\ ClaimNamesAll(j)'
  BY <1>1, <1>2 DEF SubmitInv, ClaimBacked, ClaimNamesAll
<1> QED
  BY <1>1, <1>2, <1>3 DEF SubmitInv, SubmitTyped, IdsUnique, AnswerOwned, Owns

(***************************************************************************)
(* The theorem                                                             *)
(***************************************************************************)
LEMMA SubmitInitInv == SubmitInit => SubmitInv
<1> SUFFICES ASSUME SubmitInit
             PROVE  SubmitInv
  OBVIOUS
<1> DEFINE first == [pc |-> "idle", request |-> Anyone, day |-> 0, answer |-> Unanswered]
<1>1. first \in Run /\ first.pc = "idle"
  BY DEF Run, Pcs, Unanswered, Answer, Outcomes
<1>2. call \in [Calls -> {first}]
  BY DEF SubmitInit, Anyone
<1> HIDE DEF first
<1>3. call \in [Calls -> Run] /\ \A c \in Calls : call[c].pc = "idle"
  BY <1>1, <1>2
<1>4. /\ today = 0 /\ stored = {} /\ claims = [k \in Keys |-> [tx |-> NoTx, day |-> 0]]
      /\ answered = [r \in Requests |-> {}]
  BY DEF SubmitInit
<1>5. SubmitTyped
  BY <1>3, <1>4 DEF SubmitTyped
<1>6. IdsUnique /\ \A k \in Keys : ClaimBacked(k) /\ ClaimNamesAll(k)
  BY <1>4 DEF IdsUnique, ClaimBacked, ClaimNamesAll
<1>7. (\A c \in Calls : AnswerOwned(c)) /\ \A r \in Requests : answered[r] = {}
  BY <1>3, <1>4 DEF AnswerOwned
<1> QED
  BY <1>5, <1>6, <1>7 DEF SubmitInv

LEMMA SubmitNextInv == ASSUME SubmitInv, [SubmitNext]_submitVars PROVE SubmitInv'
<1>1. CASE UNCHANGED submitVars
  BY <1>1 DEF submitVars, SubmitInv, SubmitTyped, IdsUnique, ClaimBacked, ClaimNamesAll,
              AnswerOwned, Owns
<1>2. CASE SubmitNext
  BY <1>2, MidnightInv, ClaimExpiresInv, RelayInv, LookupInv, CheckInv, CreateInv, BusyInv,
     RacedInv, ReachesInv, LostInv
  DEF SubmitNext
<1> QED
  BY <1>1, <1>2

\* Until the claim of its key expires a request is stored once, however many of
\* its runs race, die or are answered too late, and every answer names that one
\* transaction (store.ts:160, client.ts:39).
THEOREM SafeToSendAgain == SubmitSpec => []OneTxPerKey
BY SubmitInitInv, SubmitNextInv, InvSafe, PTL DEF SubmitSpec

(***************************************************************************)
(* What a day's transactions cost                                          *)
(***************************************************************************)
\* The sum of MapThenSumSet, with its recursion spelled out.
OneOf(s) == CHOOSE x \in s : TRUE
Step(s, f) == IF s = {} THEN 0 ELSE CostWei[OneOf(s).request] + f[s \ {OneOf(s)}]
Sums(f, S) == f = [s \in SUBSET S |-> Step(s, f)]
Cost(S) == MapThenSumSet(LAMBDA t : CostWei[t.request], S)

Priced(S) == IsFiniteSet(S) /\ \A t \in S : t.request \in Requests

LEMMA SomeNatIsLeast ==
  ASSUME NEW S \in SUBSET Nat, S # {}
  PROVE  \E x \in S : \A y \in S : x <= y
<1> DEFINE less == OpToRel(<, Nat)
<1>1. PICK x \in S : \A y \in S : ~(<<y, x>> \in less)
  <2>1. IsWellFoundedOn(less, Nat)
    BY NatLessThanWellFounded DEF less
  <2>2. IsWellFoundedOn(less, S)
    BY <2>1, IsWellFoundedOnSubset
  <2>3. PICK s \in S : TRUE
    OBVIOUS
  <2> HIDE DEF less
  <2> QED
    BY <2>2, <2>3, WFMin
<1>2. \A y \in S : x <= y
  <2> TAKE y \in S
  <2>1. x \in Nat /\ y \in Nat
    OBVIOUS
  <2>2. ~(y < x)
    BY <1>1, <2>1 DEF OpToRel
  <2> QED
    BY <2>1, <2>2
<1> QED
  BY <1>2

\* The part of a finite set beside one of its members.
LEMMA OneLess ==
  ASSUME NEW S, IsFiniteSet(S), NEW s \in SUBSET S
  PROVE  /\ IsFiniteSet(s) /\ Cardinality(s) \in Nat /\ Cardinality(s) <= Cardinality(S)
         /\ \A x \in s : /\ s \ {x} \in SUBSET S /\ IsFiniteSet(s \ {x})
                         /\ Cardinality(s \ {x}) \in Nat
                         /\ Cardinality(s \ {x}) = Cardinality(s) - 1
         /\ s # {} => OneOf(s) \in s
         /\ Cardinality(s) = 0 <=> s = {}
<1>1. IsFiniteSet(s) /\ Cardinality(s) \in Nat /\ Cardinality(s) <= Cardinality(S)
  BY FS_Subset, FS_CardinalityType
<1>2. \A x \in s : IsFiniteSet(s \ {x}) /\ Cardinality(s \ {x}) = Cardinality(s) - 1
  BY <1>1, FS_RemoveElement
<1>3. \A x \in s : Cardinality(s \ {x}) \in Nat
  BY <1>2, FS_CardinalityType
<1>4. s # {} => OneOf(s) \in s
  BY DEF OneOf
<1>5. Cardinality(s) = 0 <=> s = {}
  BY <1>1, FS_EmptySet
<1> QED
  BY <1>1, <1>2, <1>3, <1>4, <1>5

LEMMA SumsExist ==
  ASSUME NEW S, IsFiniteSet(S)
  PROVE  \E f : Sums(f, S)
<1> DEFINE Small(n) == {s \in SUBSET S : Cardinality(s) <= n}
           Good(n) == \E f : f = [s \in Small(n) |-> Step(s, f)]
           Bad == {n \in Nat : ~Good(n)}
<1>1. Good(0)
  <2> DEFINE f == [s \in Small(0) |-> 0]
  <2>1. \A s \in Small(0) : s = {}
    BY OneLess
  <2>2. f = [s \in Small(0) |-> Step(s, f)]
    BY <2>1 DEF Step
  <2> QED
    BY <2>2
<1>2. ASSUME NEW n \in Nat, Good(n)
      PROVE  Good(n + 1)
  <2>1. PICK f : f = [s \in Small(n) |-> Step(s, f)]
    BY <1>2
  <2> DEFINE g == [s \in Small(n + 1) |-> Step(s, f)]
  <2>2. ASSUME NEW s \in Small(n + 1)
        PROVE  Step(s, f) = Step(s, g)
    <3>1. CASE s = {}
      BY <3>1 DEF Step
    <3>2. CASE s # {}
      <4>1. /\ s \ {OneOf(s)} \in SUBSET S /\ Cardinality(s) \in Nat /\ Cardinality(s) <= n + 1
            /\ Cardinality(s \ {OneOf(s)}) \in Nat
            /\ Cardinality(s \ {OneOf(s)}) = Cardinality(s) - 1
        BY <3>2, OneLess
      <4>2. Cardinality(s \ {OneOf(s)}) <= n /\ Cardinality(s \ {OneOf(s)}) <= n + 1
        BY <4>1
      <4>3. s \ {OneOf(s)} \in Small(n) /\ s \ {OneOf(s)} \in Small(n + 1)
        BY <4>1, <4>2
      <4>4. f[s \ {OneOf(s)}] = Step(s \ {OneOf(s)}, f)
        BY <2>1, <4>3
      <4>5. g[s \ {OneOf(s)}] = Step(s \ {OneOf(s)}, f)
        BY <4>3
      <4> QED
        BY <3>2, <4>4, <4>5 DEF Step
    <3> QED
      BY <3>1, <3>2
  <2>3. g = [s \in Small(n + 1) |-> Step(s, g)]
    BY <2>2
  <2> QED
    BY <2>3
<1> HIDE DEF Good
<1>3. Bad = {}
  <2> SUFFICES ASSUME Bad # {}
               PROVE  FALSE
    OBVIOUS
  <2>1. PICK n \in Bad : \A m \in Bad : n <= m
    <3>1. Bad \in SUBSET Nat
      OBVIOUS
    <3> HIDE DEF Bad
    <3> QED
      BY <3>1, SomeNatIsLeast
  <2>2. n \in Nat /\ n # 0 /\ ~Good(n)
    BY <1>1
  <2>3. n - 1 \in Nat /\ n - 1 \notin Bad
    BY <2>1, <2>2
  <2>4. Good((n - 1) + 1)
    BY <1>2, <2>3
  <2> QED
    BY <2>2, <2>4
<1>4. Good(Cardinality(S))
  BY <1>3, FS_CardinalityType
<1>5. Small(Cardinality(S)) = SUBSET S
  BY OneLess
<1> QED
  BY <1>4, <1>5 DEF Good, Sums

LEMMA SumsAgree ==
  ASSUME NEW T, IsFiniteSet(T), NEW S \in SUBSET T, NEW f, NEW g, Sums(f, S), Sums(g, T)
  PROVE  \A s \in SUBSET S : f[s] = g[s]
<1> DEFINE Bad == {Cardinality(s) : s \in {r \in SUBSET S : f[r] # g[r]}}
<1>1. SUFFICES ASSUME Bad # {}
               PROVE  FALSE
  OBVIOUS
<1>2. IsFiniteSet(S)
  BY FS_Subset
<1>3. PICK n \in Bad : \A m \in Bad : n <= m
  <2>1. Bad \in SUBSET Nat
    BY <1>2, OneLess
  <2> HIDE DEF Bad
  <2> QED
    BY <1>1, <2>1, SomeNatIsLeast
<1>4. PICK s \in SUBSET S : n = Cardinality(s) /\ f[s] # g[s]
  OBVIOUS
<1>5. s \in SUBSET T
  OBVIOUS
<1>6. f[s] = Step(s, f) /\ g[s] = Step(s, g)
  BY <1>5 DEF Sums
<1>7. s # {}
  BY <1>4, <1>6 DEF Step
<1>8. /\ s \ {OneOf(s)} \in SUBSET S /\ Cardinality(s \ {OneOf(s)}) = n - 1
      /\ n \in Nat
  BY <1>2, <1>4, <1>7, OneLess
<1>9. f[s \ {OneOf(s)}] = g[s \ {OneOf(s)}]
  <2>1. Cardinality(s \ {OneOf(s)}) \notin Bad
    BY <1>3, <1>8
  <2> QED
    BY <1>8, <2>1
<1> QED
  BY <1>4, <1>6, <1>9 DEF Step

LEMMA SumsAreCosts ==
  ASSUME NEW S, Priced(S), NEW f, Sums(f, S)
  PROVE  f \in [SUBSET S -> Nat]
<1> DEFINE Bad == {Cardinality(s) : s \in {r \in SUBSET S : f[r] \notin Nat}}
<1>1. Bad = {}
  <2> SUFFICES ASSUME Bad # {}
               PROVE  FALSE
    OBVIOUS
  <2>1. IsFiniteSet(S)
    BY DEF Priced
  <2>2. PICK n \in Bad : \A m \in Bad : n <= m
    <3>1. Bad \in SUBSET Nat
      BY <2>1, OneLess
    <3> HIDE DEF Bad
    <3> QED
      BY <3>1, SomeNatIsLeast
  <2>3. PICK s \in SUBSET S : n = Cardinality(s) /\ f[s] \notin Nat
    OBVIOUS
  <2>4. f[s] = Step(s, f)
    BY DEF Sums
  <2>5. s # {}
    BY <2>3, <2>4 DEF Step
  <2>6. /\ s \ {OneOf(s)} \in SUBSET S /\ Cardinality(s \ {OneOf(s)}) = n - 1
        /\ n \in Nat /\ OneOf(s) \in S
    BY <2>1, <2>3, <2>5, OneLess
  <2>7. Cardinality(s \ {OneOf(s)}) \notin Bad
    BY <2>2, <2>6
  <2>8. f[s \ {OneOf(s)}] \in Nat
    BY <2>6, <2>7
  <2>9. CostWei[OneOf(s).request] \in Nat
    BY <2>6, RequestsAssumption DEF Priced
  <2> QED
    BY <2>3, <2>4, <2>5, <2>8, <2>9 DEF Step
<1>2. \A s \in SUBSET S : f[s] \in Nat
  BY <1>1
<1> QED
  BY <1>2 DEF Sums

\* Whichever member is taken first.
LEMMA AnyMemberFirst ==
  ASSUME NEW S, Priced(S), NEW f, Sums(f, S)
  PROVE  \A s \in SUBSET S : \A y \in s : f[s] = CostWei[y.request] + f[s \ {y}]
<1> DEFINE First(s) == \A y \in s : f[s] = CostWei[y.request] + f[s \ {y}]
           Bad == {Cardinality(s) : s \in {r \in SUBSET S : ~First(r)}}
<1> HIDE DEF First
<1>1. SUFFICES ASSUME Bad # {}
               PROVE  FALSE
  BY DEF First
<1>2. IsFiniteSet(S)
  BY DEF Priced
<1>3. PICK n \in Bad : \A m \in Bad : n <= m
  <2>1. Bad \in SUBSET Nat
    BY <1>2, OneLess
  <2> HIDE DEF Bad
  <2> QED
    BY <1>1, <2>1, SomeNatIsLeast
<1>4. PICK s \in SUBSET S : n = Cardinality(s) /\ ~First(s)
  OBVIOUS
<1>5. PICK y \in s : f[s] # CostWei[y.request] + f[s \ {y}]
  BY <1>4 DEF First
<1> DEFINE x == OneOf(s)
           rest == s \ {x, y}
<1>6. x \in s /\ f[s] = CostWei[x.request] + f[s \ {x}] /\ x # y
  <2>1. s # {}
    BY <1>5
  <2>2. x \in s
    BY <1>2, <2>1, OneLess
  <2>3. f[s] = CostWei[x.request] + f[s \ {x}]
    BY <2>1 DEF Sums, Step
  <2> QED
    BY <1>5, <2>2, <2>3
<1>7. n \in Nat /\ \A z \in s : Cardinality(s \ {z}) = n - 1 /\ s \ {z} \in SUBSET S
  BY <1>2, <1>4, OneLess
<1>8. \A z \in s : First(s \ {z})
  <2> TAKE z \in s
  <2>1. Cardinality(s \ {z}) \notin Bad
    BY <1>3, <1>7
  <2> QED
    BY <1>7, <2>1
<1> HIDE DEF x, Bad
<1>9. f[s \ {x}] = CostWei[y.request] + f[rest]
  <2>1. y \in s \ {x} /\ (s \ {x}) \ {y} = rest
    BY <1>6
  <2> QED
    BY <1>6, <1>8, <2>1 DEF First
<1>10. f[s \ {y}] = CostWei[x.request] + f[rest]
  <2>1. x \in s \ {y} /\ (s \ {y}) \ {x} = rest
    BY <1>6
  <2> QED
    BY <1>8, <2>1 DEF First
<1>11. CostWei[x.request] \in Nat /\ CostWei[y.request] \in Nat /\ f[rest] \in Nat
  <2>1. x.request \in Requests /\ y.request \in Requests
    BY <1>6 DEF Priced
  <2>2. rest \in SUBSET S
    OBVIOUS
  <2> HIDE DEF rest
  <2>3. f \in [SUBSET S -> Nat]
    BY SumsAreCosts
  <2>4. f[rest] \in Nat
    BY <2>2, <2>3
  <2> QED
    BY <2>1, <2>4, RequestsAssumption
<1> HIDE DEF rest
<1> QED
  BY <1>5, <1>6, <1>9, <1>10, <1>11

LEMMA CostIsSum ==
  ASSUME NEW S, Priced(S)
  PROVE  \E f : Sums(f, S) /\ Cost(S) = f[S]
<1> DEFINE Def(f) == f = [s \in SUBSET S |->
                            IF s = {} THEN 0
                            ELSE LET x == CHOOSE x \in s : TRUE
                                 IN  CostWei[x.request] + f[s \ {x}]]
           iter == CHOOSE f : Def(f)
<1>1. Cost(S) = iter[S]
  BY DEF Cost, MapThenSumSet, MapThenFoldSet
<1>2. \A f : Def(f) <=> Sums(f, S)
  BY DEF Sums, Step, OneOf
<1> HIDE DEF Def
<1>3. \E f : Def(f)
  <2>1. PICK f : Sums(f, S)
    BY SumsExist DEF Priced
  <2> QED
    BY <1>2, <2>1
<1>4. Def(iter)
  BY <1>3
<1> QED
  BY <1>1, <1>2, <1>4

LEMMA CostOfNone == Cost({}) = 0
<1>1. Priced({})
  BY FS_EmptySet DEF Priced
<1>2. PICK f : Sums(f, {}) /\ Cost({}) = f[{}]
  BY <1>1, CostIsSum
<1>3. f[{}] = Step({}, f)
  BY <1>2 DEF Sums
<1> QED
  BY <1>2, <1>3 DEF Step

LEMMA CostOfOneMore ==
  ASSUME NEW S, Priced(S), NEW t, t \notin S, t.request \in Requests
  PROVE  Cost(S) \in Nat /\ Cost(S \cup {t}) = Cost(S) + CostWei[t.request]
<1> DEFINE T == S \cup {t}
<1>1. Priced(T)
  BY FS_AddElement DEF Priced
<1>2. PICK f : Sums(f, S) /\ Cost(S) = f[S]
  BY CostIsSum
<1>3. PICK g : Sums(g, T) /\ Cost(T) = g[T]
  BY <1>1, CostIsSum
<1>4. g[T] = CostWei[t.request] + g[S]
  <2>1. t \in T /\ T \ {t} = S /\ T \in SUBSET T
    OBVIOUS
  <2> HIDE DEF T
  <2>2. g[T] = CostWei[t.request] + g[T \ {t}]
    BY <1>1, <1>3, <2>1, AnyMemberFirst
  <2> QED
    BY <2>1, <2>2
<1>5. f[S] = g[S]
  <2>1. IsFiniteSet(T) /\ S \in SUBSET T /\ S \in SUBSET S
    BY <1>1 DEF Priced
  <2> HIDE DEF T
  <2> QED
    BY <1>2, <1>3, <2>1, SumsAgree
<1>6. f[S] \in Nat
  <2>1. f \in [SUBSET S -> Nat]
    BY <1>2, SumsAreCosts
  <2> QED
    BY <2>1
<1>7. CostWei[t.request] \in Nat
  BY RequestsAssumption
<1> QED
  BY <1>2, <1>3, <1>4, <1>5, <1>6, <1>7

\* In whole gwei a cost is rounded up, and the cap down.
LEMMA GweiCovers ==
  /\ \A r \in Requests : CostGwei(r) \in Nat /\ CostWei[r] <= GWEI * CostGwei(r)
  /\ CapGwei \in Nat /\ GWEI * CapGwei <= CapWei
<1>1. /\ GWEI \in Nat /\ GWEI > 0 /\ CapWei \in Nat
      /\ \A r \in Requests : CostWei[r] \in Nat
  BY RequestsAssumption
<1>2. \A a \in Nat : a \div GWEI \in Nat /\ GWEI * (a \div GWEI) <= a /\ a < GWEI * (a \div GWEI) + GWEI
  BY <1>1
<1>3. ASSUME NEW r \in Requests
      PROVE  CostGwei(r) \in Nat /\ CostWei[r] <= GWEI * CostGwei(r)
  <2> DEFINE a == CostWei[r] + GWEI - 1
  <2>1. a \in Nat
    BY <1>1
  <2>2. CostGwei(r) = a \div GWEI
    BY DEF CostGwei, weiToGweiCeil
  <2>3. a = CostWei[r] + GWEI - 1
    OBVIOUS
  <2> HIDE DEF a
  <2>4. a < GWEI * CostGwei(r) + GWEI /\ CostGwei(r) \in Nat
    BY <1>2, <2>1, <2>2
  <2>5. GWEI * CostGwei(r) \in Nat
    BY <1>1, <2>4
  <2> QED
    BY <1>1, <2>1, <2>3, <2>4, <2>5
<1>4. CapGwei \in Nat /\ GWEI * CapGwei <= CapWei
  BY <1>1, <1>2 DEF CapGwei, weiToGweiFloor
<1> QED
  BY <1>3, <1>4

OnDay(d) == {t \in stored : t.day = d}

\* A day's row holds, in gwei, no less than its transactions may cost, and no more
\* than the cap.
SpendInv ==
  /\ IsFiniteSet(stored) /\ spentGwei \in [Days -> Nat]
  /\ \A d \in Days : spentGwei[d] <= CapGwei /\ Cost(OnDay(d)) <= GWEI * spentGwei[d]

LEMMA PricedOnDay ==
  ASSUME SubmitInv, SpendInv, NEW d
  PROVE  Priced(OnDay(d))
<1>1. IsFiniteSet(OnDay(d))
  BY FS_Subset DEF OnDay, SpendInv
<1>2. \A t \in OnDay(d) : t.request \in Requests
  BY DEF OnDay, SubmitInv, SubmitTyped, Tx
<1> QED
  BY <1>1, <1>2 DEF Priced

LEMMA SpendInvSafe == SubmitInv /\ SpendInv => SpendWithinCap
<1> SUFFICES ASSUME SubmitInv, SpendInv, NEW d \in Days
             PROVE  Cost({t \in stored : t.day = d}) <= CapWei
  BY DEF SpendWithinCap, Cost
<1>1. Cost(OnDay(d)) <= GWEI * spentGwei[d] /\ spentGwei[d] <= CapGwei /\ spentGwei[d] \in Nat
  BY DEF SpendInv
<1>2. Cost(OnDay(d)) \in Nat
  <2>1. Priced(OnDay(d))
    BY PricedOnDay
  <2>2. PICK f : Sums(f, OnDay(d)) /\ Cost(OnDay(d)) = f[OnDay(d)]
    BY <2>1, CostIsSum
  <2>3. f \in [SUBSET OnDay(d) -> Nat]
    BY <2>1, <2>2, SumsAreCosts
  <2> QED
    BY <2>2, <2>3
<1>3. GWEI * spentGwei[d] <= GWEI * CapGwei
  BY <1>1, GweiCovers, RequestsAssumption
<1>4. GWEI * spentGwei[d] \in Nat /\ GWEI * CapGwei \in Nat /\ CapWei \in Nat
  BY <1>1, GweiCovers, RequestsAssumption
<1>5. Cost(OnDay(d)) <= CapWei
  BY <1>1, <1>2, <1>3, <1>4, GweiCovers
<1> QED
  BY <1>5 DEF OnDay

\* The write reserves in gwei what it may cost in wei, if there is room for it.
LEMMA ReservesEnough ==
  ASSUME SubmitInv, SpendInv, NEW r \in Requests, NEW id \in TxIds \ Used, NEW day \in Nat,
         HasRoom(r, day), stored' = stored \cup {[id |-> id, request |-> r, day |-> day]},
         spentGwei' = [spentGwei EXCEPT ![day] = @ + CostGwei(r)]
  PROVE  SpendInv'
<1> DEFINE tx == [id |-> id, request |-> r, day |-> day]
<1>1. tx.day = day /\ tx.request = r /\ stored' = stored \cup {tx} /\ tx \notin stored
  BY DEF Used
<1> HIDE DEF tx
<1>2. IsFiniteSet(stored')
  BY <1>1, FS_AddElement DEF SpendInv
<1>3. CostGwei(r) \in Nat /\ CapGwei \in Nat /\ GWEI \in Nat /\ CostWei[r] \in Nat
      /\ CostWei[r] <= GWEI * CostGwei(r)
  BY GweiCovers, RequestsAssumption
<1>4. spentGwei' \in [Days -> Nat]
  <2>1. spentGwei \in [Days -> Nat]
    BY DEF SpendInv
  <2>2. CASE day \in Days
    <3>1. spentGwei[day] + CostGwei(r) \in Nat
      BY <1>3, <2>1, <2>2
    <3> QED
      BY <2>1, <3>1
  <2>3. CASE day \notin Days
    <3>1. spentGwei' = spentGwei
      BY <2>1, <2>3
    <3> QED
      BY <2>1, <3>1
  <2> QED
    BY <2>2, <2>3
<1>5. ASSUME NEW d \in Days
      PROVE  spentGwei'[d] <= CapGwei /\ Cost(OnDay(d)') <= GWEI * spentGwei'[d]
  <2>1. /\ spentGwei[d] \in Nat /\ spentGwei[d] <= CapGwei
        /\ Cost(OnDay(d)) <= GWEI * spentGwei[d]
    BY DEF SpendInv
  <2>2. CASE d # day
    <3>1. spentGwei'[d] = spentGwei[d]
      BY <2>2 DEF SpendInv
    <3>2. OnDay(d)' = OnDay(d)
      BY <1>1, <2>2 DEF OnDay
    <3> QED
      BY <2>1, <3>1, <3>2
  <2>3. CASE d = day
    <3>1. spentGwei'[d] = spentGwei[d] + CostGwei(r)
      BY <2>3 DEF SpendInv
    <3>2. OnDay(d)' = OnDay(d) \cup {tx} /\ tx \notin OnDay(d)
      BY <1>1, <2>3 DEF OnDay
    <3>3. Cost(OnDay(d)) \in Nat /\ Cost(OnDay(d) \cup {tx}) = Cost(OnDay(d)) + CostWei[r]
      BY <1>1, <3>2, PricedOnDay, CostOfOneMore
    <3>4. spentGwei[d] <= CapGwei - CostGwei(r)
      BY <2>3 DEF HasRoom
    <3>5. spentGwei'[d] <= CapGwei
      BY <1>3, <2>1, <3>1, <3>4
    <3>6. GWEI * spentGwei'[d] = GWEI * spentGwei[d] + GWEI * CostGwei(r)
      BY <1>3, <2>1, <3>1
    <3>7. GWEI * spentGwei[d] \in Nat /\ GWEI * CostGwei(r) \in Nat
      BY <1>3, <2>1
    <3>8. Cost(OnDay(d)) + CostWei[r] <= GWEI * spentGwei[d] + GWEI * CostGwei(r)
      BY <1>3, <2>1, <3>3, <3>7
    <3> QED
      BY <3>2, <3>3, <3>5, <3>6, <3>8
  <2> QED
    BY <2>2, <2>3
<1> QED
  BY <1>2, <1>4, <1>5 DEF SpendInv

LEMMA SpendNextInv ==
  ASSUME SubmitInv, SpendInv, [SubmitNext]_submitVars
  PROVE  SpendInv'
<1>1. CASE UNCHANGED <<stored, spentGwei>>
  BY <1>1 DEF SpendInv, OnDay
<1>2. ASSUME NEW c \in Calls, Create(c)
      PROVE  SpendInv'
  <2> DEFINE r == call[c].request
             day == call[c].day
  <2>1. call[c].pc = "create" /\ r \in Requests /\ day \in Nat
    BY <1>2, CallType DEF Create, Run
  <2>2. \/ UNCHANGED <<stored, spentGwei>>
        \/ /\ HasRoom(r, day)
           /\ \E id \in TxIds \ Used :
                /\ stored' = stored \cup {[id |-> id, request |-> r, day |-> day]}
                /\ spentGwei' = [spentGwei EXCEPT ![day] = @ + CostGwei(r)]
    BY <1>2 DEF Create
  <2> HIDE DEF r, day
  <2> QED
    BY <1>1, <2>1, <2>2, ReservesEnough
<1>3. CASE UNCHANGED submitVars
  BY <1>1, <1>3 DEF submitVars
<1>4. ASSUME SubmitNext, ~ \E c \in Calls : Create(c)
      PROVE  UNCHANGED <<stored, spentGwei>>
  BY <1>4 DEF SubmitNext, Midnight, ClaimExpires, Relay, Lookup, Check, Busy, Raced, Reaches, Lost
<1> QED
  BY <1>1, <1>2, <1>3, <1>4

LEMMA SpendInitInv == SubmitInit => SpendInv
<1> SUFFICES ASSUME SubmitInit
             PROVE  SpendInv
  OBVIOUS
<1>1. stored = {} /\ spentGwei = [d \in Days |-> 0]
  BY DEF SubmitInit
<1>2. \A d : OnDay(d) = {}
  BY <1>1 DEF OnDay
<1>3. GWEI \in Nat /\ CapGwei \in Nat
  BY GweiCovers, RequestsAssumption
<1> QED
  BY <1>1, <1>2, <1>3, CostOfNone, FS_EmptySet DEF SpendInv

\* What the transactions of a day may cost at worst, added up in wei, is within the
\* signer's daily cap, for every cap, every cost, every size of a gwei and any number
\* of overlapping runs and days (policy.ts:125-138).
THEOREM SpendStaysWithinCap == SubmitSpec => []SpendWithinCap
<1>1. SubmitInit => SubmitInv /\ SpendInv
  BY SubmitInitInv, SpendInitInv
<1>2. SubmitInv /\ SpendInv /\ [SubmitNext]_submitVars => (SubmitInv /\ SpendInv)'
  BY SubmitNextInv, SpendNextInv
<1> QED
  BY <1>1, <1>2, SpendInvSafe, PTL DEF SubmitSpec

(***************************************************************************)
(* The types of the route's variables                                      *)
(***************************************************************************)
LEMMA CallTyped ==
  ASSUME SubmitTypeOK, NEW c \in Calls, NEW next \in Call, Is(c, next)
  PROVE  call' \in [Calls -> Call]
BY DEF SubmitTypeOK, Is

LEMMA FieldsTyped ==
  ASSUME SubmitTypeOK, NEW c \in Calls
  PROVE  /\ call[c] \in Call /\ call[c].request \in Requests /\ call[c].day \in Days
         /\ KeyOf[call[c].request] \in Keys
         /\ claims[KeyOf[call[c].request]].tx \in TxIds \cup {NoTx}
         /\ call[c].answer.tx \in TxIds \cup {NoTx}
BY RequestsAssumption DEF SubmitTypeOK, Call, Answer

\* An answer is typed, whatever it is.
LEMMA AnswersTyped ==
  ASSUME SubmitTypeOK, NEW c \in Calls, NEW what \in Outcomes, NEW id \in TxIds \cup {NoTx},
         Answers(c, what, id)
  PROVE  call' \in [Calls -> Call]
<1>1. [call[c] EXCEPT !.pc = "answer", !.answer = [what |-> what, tx |-> id]] \in Call
  BY FieldsTyped DEF Call, Answer
<1> QED
  BY <1>1, CallTyped DEF Answers

LEMMA ReplayTyped ==
  ASSUME SubmitTypeOK, NEW c \in Calls, NEW id \in TxIds \cup {NoTx}, Replayed(c, id)
  PROVE  call' \in [Calls -> Call]
BY AnswersTyped DEF Replayed, Outcomes

LEMMA RelayTyped ==
  ASSUME SubmitTypeOK, NEW c \in Calls, NEW r \in Requests, Relay(c, r)
  PROVE  SubmitTypeOK'
<1>1. [pc |-> "lookup", request |-> r, day |-> today, answer |-> Unanswered] \in Call
  BY DEF SubmitTypeOK, Call, Answer, Unanswered, Outcomes
<1>2. call' \in [Calls -> Call]
  BY <1>1, CallTyped DEF Relay
<1> QED
  BY <1>2 DEF Relay, SubmitTypeOK

LEMMA LookupTyped == ASSUME SubmitTypeOK, NEW c \in Calls, Lookup(c) PROVE SubmitTypeOK'
<1>1. [call[c] EXCEPT !.pc = "check"] \in Call
  BY FieldsTyped DEF Call
<1>2. call' \in [Calls -> Call]
  BY <1>1, FieldsTyped, CallTyped, ReplayTyped DEF Lookup
<1> QED
  BY <1>2 DEF Lookup, SubmitTypeOK

LEMMA CheckTyped == ASSUME SubmitTypeOK, NEW c \in Calls, Check(c) PROVE SubmitTypeOK'
<1>1. [call[c] EXCEPT !.pc = "create", !.day = today] \in Call
  BY FieldsTyped DEF Call, SubmitTypeOK
<1>2. call' \in [Calls -> Call]
  BY <1>1, CallTyped, AnswersTyped DEF Check, Outcomes
<1> QED
  BY <1>2 DEF Check, SubmitTypeOK

LEMMA CreateTyped == ASSUME SubmitTypeOK, NEW c \in Calls, Create(c) PROVE SubmitTypeOK'
<1> DEFINE r == call[c].request
           k == KeyOf[r]
           day == call[c].day
<1>1. r \in Requests /\ k \in Keys /\ day \in Days
  BY FieldsTyped
<1>2. CASE UNCHANGED <<stored, claims, spentGwei>>
  <2>1. [call[c] EXCEPT !.pc = "raced"] \in Call
    BY FieldsTyped DEF Call
  <2>2. [call[c] EXCEPT !.pc = "answer", !.answer = [what |-> "cap", tx |-> NoTx]] \in Call
    BY FieldsTyped DEF Call, Answer, Outcomes
  <2>3. ASSUME NEW id \in TxIds
        PROVE  [call[c] EXCEPT !.pc = "answer", !.answer = [what |-> "stored", tx |-> id]] \in Call
    BY FieldsTyped DEF Call, Answer, Outcomes
  <2>4. call' \in [Calls -> Call]
    BY <2>1, <2>2, <2>3, CallTyped DEF Create, Answers
  <2> QED
    BY <1>2, <2>4 DEF Create, SubmitTypeOK
<1>3. CASE ~UNCHANGED <<stored, claims, spentGwei>>
  <2>1. PICK id \in TxIds :
          /\ stored' = stored \cup {[id |-> id, request |-> r, day |-> day]}
          /\ claims' = [claims EXCEPT ![k] = [tx |-> id, day |-> day]]
          /\ spentGwei' = [spentGwei EXCEPT ![day] = @ + CostGwei(r)]
          /\ Answers(c, "stored", id)
    BY <1>3 DEF Create, Answers
  <2>2. call' \in [Calls -> Call]
    BY <2>1, AnswersTyped DEF Outcomes
  <2>3. CostGwei(r) \in Nat
    BY <1>1, GweiCovers
  <2>4. spentGwei' \in [Days -> Nat]
    BY <1>1, <2>1, <2>3 DEF SubmitTypeOK
  <2>5. stored' \subseteq [id : TxIds, request : Requests, day : Days]
    BY <1>1, <2>1 DEF SubmitTypeOK
  <2>6. claims' \in [Keys -> [tx : TxIds \cup {NoTx}, day : Days]]
    BY <1>1, <2>1 DEF SubmitTypeOK
  <2>7. UNCHANGED <<today, answered, expired, lost>>
    BY DEF Create
  <2> QED
    BY <2>2, <2>4, <2>5, <2>6, <2>7 DEF SubmitTypeOK
<1> QED
  BY <1>2, <1>3

LEMMA BusyTyped == ASSUME SubmitTypeOK, NEW c \in Calls, Busy(c) PROVE SubmitTypeOK'
<1>1. call' \in [Calls -> Call]
  BY AnswersTyped DEF Busy, Outcomes
<1> QED
  BY <1>1, RequestsAssumption DEF Busy, Loses, SubmitTypeOK

LEMMA RacedTyped == ASSUME SubmitTypeOK, NEW c \in Calls, Raced(c) PROVE SubmitTypeOK'
<1>1. call' \in [Calls -> Call]
  BY FieldsTyped, AnswersTyped, ReplayTyped DEF Raced, Outcomes
<1> QED
  BY <1>1 DEF Raced, SubmitTypeOK

LEMMA IdleTyped ==
  ASSUME SubmitTypeOK, NEW c \in Calls
  PROVE  [call[c] EXCEPT !.pc = "idle", !.answer = Unanswered, !.day = 0] \in Call
<1>1. call[c] \in Call
  BY FieldsTyped
<1>2. Unanswered \in Answer /\ 0 \in Days
  BY RequestsAssumption DEF Answer, Unanswered, Outcomes, Days
<1> QED
  BY <1>1, <1>2 DEF Call

LEMMA ReachesTyped == ASSUME SubmitTypeOK, NEW c \in Calls, Reaches(c) PROVE SubmitTypeOK'
<1>1. call' \in [Calls -> Call]
  BY IdleTyped, CallTyped DEF Reaches
<1>2. answered' \in [Requests -> SUBSET TxIds]
  BY FieldsTyped DEF Reaches, SubmitTypeOK
<1> QED
  BY <1>1, <1>2 DEF Reaches, SubmitTypeOK

LEMMA LostTyped == ASSUME SubmitTypeOK, NEW c \in Calls, Lost(c) PROVE SubmitTypeOK'
<1>1. call' \in [Calls -> Call]
  BY IdleTyped, CallTyped DEF Lost
<1> QED
  BY <1>1, RequestsAssumption DEF Lost, Loses, SubmitTypeOK

LEMMA TimeTyped ==
  ASSUME SubmitTypeOK, Midnight \/ \E k \in Keys : ClaimExpires(k)
  PROVE  SubmitTypeOK'
<1>1. CASE Midnight
  BY <1>1, RequestsAssumption DEF Midnight, SubmitTypeOK, Days
<1>2. ASSUME NEW k \in Keys, ClaimExpires(k) PROVE SubmitTypeOK'
  BY <1>2 DEF ClaimExpires, SubmitTypeOK
<1> QED
  BY <1>1, <1>2

LEMMA SubmitInitTyped == ASSUME Requests # {}, SubmitInit PROVE SubmitTypeOK
<1>1. (CHOOSE r \in Requests : TRUE) \in Requests
  OBVIOUS
<1>2. [pc |-> "idle", request |-> CHOOSE r \in Requests : TRUE, day |-> 0, answer |-> Unanswered] \in Call
  BY <1>1, RequestsAssumption DEF Call, Answer, Unanswered, Outcomes, Days
<1>3. call \in [Calls -> Call]
  <2>1. {[pc |-> "idle", request |-> r, day |-> 0, answer |-> Unanswered] :
           r \in {CHOOSE r \in Requests : TRUE}} \subseteq Call
    BY <1>2
  <2> QED
    BY <2>1 DEF SubmitInit
<1>4. 0 \in Days /\ 0 \in 0 .. MaxLost
  BY RequestsAssumption DEF Days
<1> QED
  BY <1>3, <1>4 DEF SubmitInit, SubmitTypeOK

LEMMA SubmitNextTyped == ASSUME SubmitTypeOK, [SubmitNext]_submitVars PROVE SubmitTypeOK'
<1>1. CASE UNCHANGED submitVars
  BY <1>1 DEF submitVars, SubmitTypeOK
<1> QED
  BY <1>1, TimeTyped, RelayTyped, LookupTyped, CheckTyped, CreateTyped, BusyTyped, RacedTyped,
     ReachesTyped, LostTyped DEF SubmitNext

\* The three items that a submission writes keep their types, and a run holds a request
\* and a day of its own, wherever it dies (submit.ts, store.ts:190-260).
THEOREM SubmitTypes == ASSUME Requests # {} PROVE SubmitSpec => []SubmitTypeOK
<1>1. SubmitInit => SubmitTypeOK
  BY SubmitInitTyped
<1>2. SubmitTypeOK /\ [SubmitNext]_submitVars => SubmitTypeOK'
  BY SubmitNextTyped
<1> QED
  BY <1>1, <1>2, PTL DEF SubmitSpec

(***************************************************************************)
(* The relay action: what a run may find or answer                         *)
(***************************************************************************)
Refuses(n) ==
  \/ n.pc \in {"check", "create"}
  \/ n.pc = "answer" /\ n.answer.what \in {"conflict", "refused", "cap"}

\* A run handles a delivery's request.  It answers "stored" with the request's own
\* transaction, and finds that the request has none, or refuses it, only when it has
\* none, unless another run handles the request too.
RunTrue(n) ==
  /\ n.request \in Relayed
  /\ n.pc = "answer" /\ n.answer.what = "stored" => Owns(n.request, n.answer.tx)
  /\ Refuses(n) /\ n.request \notin doubled /\ KeyOf[n.request] \notin expired
       => TxsOf(n.request) = {}

\* The call a delivery waits for is one of its own that is handled still.
Awaited(d) ==
  delivery[d].by # NoCall =>
    /\ delivery[d].by \in Calls
    /\ call[delivery[d].by].pc # "idle" /\ call[delivery[d].by].request = d

Handles(c, d) == call[c].pc # "idle" /\ call[c].request = d

\* A delivery not tried again too early is handled by one run at most.
Alone(d) == d \notin doubled => \A b, c \in Calls : Handles(b, d) /\ Handles(c, d) => b = c

TurnedDown(d) == delivery[d].status = "dead" /\ delivery[d].cause \notin {"exhausted", "unauthorized"}

\* A delivery that was refused has no transaction, and no run that could store one.
EndedTrue(d) ==
  /\ delivery[d].status = "delivered" => TxsOf(d) # {}
  /\ TurnedDown(d) /\ d \notin doubled =>
       ~Handled(d) /\ (KeyOf[d] \notin expired => TxsOf(d) = {})

RelaysInv ==
  /\ SubmitInv
  /\ delivery \in [Relayed -> Delivery] /\ doubled \subseteq Relayed
  /\ \A c \in Calls : call[c].pc # "idle" => RunTrue(call[c])
  /\ \A d \in Relayed : Awaited(d) /\ Alone(d) /\ EndedTrue(d)

LEMMA RelaysInvSafe == RelaysInv => RelayEndsTrue
BY DEF RelaysInv, RelayEndsTrue, EndedTrue, TurnedDown

\* A run goes on.
LEMMA GoesOn ==
  ASSUME RelaysInv, SubmitInv', NEW c \in Calls, call[c].pc # "idle", NEW n \in Run, Is(c, n),
         n.pc # "idle", n.request = call[c].request, RunTrue(n),
         UNCHANGED <<stored, expired, delivery, doubled>>
  PROVE  RelaysInv'
<1>1. call' = [call EXCEPT ![c] = n] /\ call \in [Calls -> Run]
  BY DEF Is, RelaysInv, SubmitInv, SubmitTyped
<1>2. /\ call'[c] = n
      /\ \A b \in Calls \ {c} : call'[b] = call[b]
  BY <1>1
<1>3. \A b \in Calls : call'[b].pc # "idle" <=> call[b].pc # "idle"
  BY <1>2
<1>4. \A b \in Calls : call'[b].request = call[b].request
  BY <1>2
<1>5. \A m : RunTrue(m) => RunTrue(m)'
  BY DEF RunTrue, Owns, TxsOf
<1>6. \A b \in Calls : call'[b].pc # "idle" => RunTrue(call[b])'
  <2>1. ASSUME NEW b \in Calls, call'[b].pc # "idle" PROVE RunTrue(call'[b])
    BY <1>2, <2>1 DEF RelaysInv
  <2>2. ASSUME NEW b \in Calls, RunTrue(call'[b]) PROVE RunTrue(call[b])'
    BY <2>2 DEF RunTrue, Owns, TxsOf
  <2> QED
    BY <2>1, <2>2
<1>7. ASSUME NEW d \in Relayed PROVE Awaited(d)' /\ Alone(d)' /\ EndedTrue(d)'
  <2>1. Awaited(d)'
    BY <1>3, <1>4 DEF RelaysInv, Awaited
  <2>2. Alone(d)'
    BY <1>3, <1>4 DEF RelaysInv, Alone, Handles
  <2>3. EndedTrue(d)'
    BY <1>3, <1>4 DEF RelaysInv, EndedTrue, TurnedDown, Handled, TxsOf
  <2> QED
    BY <2>1, <2>2, <2>3
<1> QED
  BY <1>6, <1>7 DEF RelaysInv

\* What a run that answers must have found.
LEMMA AnswersTruly ==
  ASSUME RelaysInv, SubmitInv', NEW c \in Calls, call[c].pc # "idle", NEW what \in Outcomes,
         NEW id \in TxIds \cup {NoTx}, Answers(c, what, id),
         what = "stored" => Owns(call[c].request, id),
         what \in {"conflict", "refused", "cap"} /\ call[c].request \notin doubled
           /\ KeyOf[call[c].request] \notin expired => TxsOf(call[c].request) = {},
         UNCHANGED <<stored, expired, delivery, doubled>>
  PROVE  RelaysInv'
<1> DEFINE n == Answered(c, what, id)
<1>1. SubmitInv /\ call[c].request \in Relayed
  BY DEF RelaysInv, RunTrue
<1>2. /\ n \in Run /\ n.request = call[c].request /\ n.pc = "answer"
      /\ n.answer.what = what /\ n.answer.tx = id
  BY <1>1, AnswerType
<1>3. Is(c, n)
  BY DEF Answers, Answered
<1> HIDE DEF n
<1>4. RunTrue(n)
  BY <1>1, <1>2 DEF RunTrue, Refuses
<1> QED
  BY <1>2, <1>3, <1>4, GoesOn

LEMMA MovesTruly ==
  ASSUME RelaysInv, SubmitInv', NEW c \in Calls, call[c].pc # "idle",
         NEW pc \in {"check", "create", "raced"}, NEW day \in Nat,
         Is(c, [call[c] EXCEPT !.pc = pc, !.day = day]),
         pc # "raced" /\ call[c].request \notin doubled
           /\ KeyOf[call[c].request] \notin expired => TxsOf(call[c].request) = {},
         UNCHANGED <<stored, expired, delivery, doubled>>
  PROVE  RelaysInv'
<1> DEFINE n == [call[c] EXCEPT !.pc = pc, !.day = day]
<1>1. SubmitInv /\ call[c].request \in Relayed
  BY DEF RelaysInv, RunTrue
<1>2. n \in Run /\ n.request = call[c].request /\ n.pc = pc
  BY <1>1, CallType DEF Run, Pcs
<1>3. Is(c, n)
  OBVIOUS
<1> HIDE DEF n
<1>4. RunTrue(n)
  BY <1>1, <1>2 DEF RunTrue, Refuses
<1> QED
  BY <1>2, <1>3, <1>4, GoesOn

\* The transactions of a request are its key's, and a living claim names them.
LEMMA NamedByClaim ==
  ASSUME SubmitInv, NEW r \in Requests, KeyOf[r] \notin expired, NEW t \in TxsOf(r)
  PROVE  t \in stored /\ t.request = r /\ KeyOf[r] \in Keys /\ claims[KeyOf[r]].tx = t.id /\ t.id # NoTx
BY RequestsAssumption, NoTxIsNoId DEF SubmitInv, SubmitTyped, ClaimNamesAll, TxsOf, Tx

LEMMA ReplaysTruly ==
  ASSUME RelaysInv, SubmitInv', NEW c \in Calls, call[c].pc # "idle",
         NEW id, id = claims[KeyOf[call[c].request]].tx, id # NoTx, Replayed(c, id),
         UNCHANGED <<stored, expired, delivery, doubled>>
  PROVE  RelaysInv'
<1>1. SubmitInv /\ call[c].request \in Requests /\ KeyOf[call[c].request] \in Keys
  BY CallType, RequestsAssumption DEF RelaysInv
<1>2. id \in TxIds \cup {NoTx} /\ \E t \in stored : t.id = id
  BY <1>1 DEF SubmitInv, SubmitTyped, ClaimBacked
<1>3. TxOf(id) \in stored /\ TxOf(id).id = id
  BY <1>2 DEF TxOf
<1>4. CASE TxOf(id).request = call[c].request
  <2>1. Answers(c, "stored", id) /\ Owns(call[c].request, id) /\ "stored" \in Outcomes
    BY <1>3, <1>4 DEF Replayed, Owns, Outcomes
  <2> QED
    BY <1>2, <2>1, AnswersTruly
<1>5. CASE TxOf(id).request # call[c].request
  <2>1. Answers(c, "conflict", NoTx) /\ "conflict" \in Outcomes
    BY <1>5 DEF Replayed, Outcomes
  <2>2. ASSUME KeyOf[call[c].request] \notin expired, NEW t \in TxsOf(call[c].request)
        PROVE  FALSE
    <3>1. t \in stored /\ t.request = call[c].request /\ t.id = id
      BY <1>1, <2>2, NamedByClaim
    <3> QED
      BY <1>1, <1>3, <1>5, <3>1 DEF SubmitInv, IdsUnique
  <2> QED
    BY <2>1, <2>2, AnswersTruly
<1> QED
  BY <1>4, <1>5

LEMMA LookupTrue ==
  ASSUME RelaysInv, NEW c \in Calls, Lookup(c), UNCHANGED <<delivery, doubled>>
  PROVE  RelaysInv'
<1> DEFINE id == claims[KeyOf[call[c].request]].tx
<1>1. /\ call[c].pc = "lookup" /\ UNCHANGED <<stored, expired>>
      /\ IF id # NoTx THEN Replayed(c, id) ELSE Is(c, [call[c] EXCEPT !.pc = "check"])
  BY DEF Lookup
<1>2. SubmitInv /\ SubmitInv' /\ call[c].request \in Requests
  BY <1>1, LookupInv, CallType DEF RelaysInv
<1>3. id = NoTx /\ KeyOf[call[c].request] \notin expired => TxsOf(call[c].request) = {}
  BY <1>2, NamedByClaim
<1> HIDE DEF id
<1>4. CASE id # NoTx
  BY <1>1, <1>2, <1>4, ReplaysTruly DEF id
<1>5. CASE id = NoTx
  <2>1. [call[c] EXCEPT !.pc = "check"] = [call[c] EXCEPT !.pc = "check", !.day = call[c].day]
        /\ call[c].day \in Nat
    BY <1>2, CallType DEF Run
  <2> QED
    BY <1>1, <1>2, <1>3, <1>5, <2>1, MovesTruly
<1> QED
  BY <1>4, <1>5

\* A run past the lookup has found no transaction of its request.
LEMMA FoundNone ==
  ASSUME RelaysInv, NEW c \in Calls, call[c].pc \in {"check", "create"},
         call[c].request \notin doubled, KeyOf[call[c].request] \notin expired
  PROVE  TxsOf(call[c].request) = {}
<1>1. call[c].pc # "idle" /\ Refuses(call[c])
  BY DEF Refuses
<1>2. RunTrue(call[c])
  BY <1>1 DEF RelaysInv
<1> QED
  BY <1>1, <1>2 DEF RunTrue

LEMMA CheckTrue ==
  ASSUME RelaysInv, NEW c \in Calls, Check(c), UNCHANGED <<delivery, doubled>>
  PROVE  RelaysInv'
<1>1. call[c].pc = "check" /\ UNCHANGED <<stored, expired>>
  BY DEF Check
<1>2. SubmitInv' /\ today \in Nat
  BY CheckInv DEF RelaysInv, SubmitInv, SubmitTyped
<1>3. ASSUME NEW what \in {"refused", "busy", "cap"}, Answers(c, what, NoTx)
      PROVE  RelaysInv'
  <2>1. what \in Outcomes /\ what # "stored"
    BY DEF Outcomes
  <2> QED
    BY <1>1, <1>2, <1>3, <2>1, FoundNone, AnswersTruly
<1>4. CASE Is(c, [call[c] EXCEPT !.pc = "create", !.day = today])
  BY <1>1, <1>2, <1>4, FoundNone, MovesTruly
<1> QED
  BY <1>3, <1>4 DEF Check

LEMMA RacedTrue ==
  ASSUME RelaysInv, NEW c \in Calls, Raced(c), UNCHANGED <<delivery, doubled>>
  PROVE  RelaysInv'
<1> DEFINE id == claims[KeyOf[call[c].request]].tx
<1>1. /\ call[c].pc = "raced" /\ UNCHANGED <<stored, expired>>
      /\ IF id = NoTx THEN Answers(c, "busy", NoTx) ELSE Replayed(c, id)
  BY DEF Raced
<1>2. SubmitInv' /\ "busy" \in Outcomes
  BY RacedInv DEF RelaysInv, Outcomes
<1> HIDE DEF id
<1> QED
  BY <1>1, <1>2, ReplaysTruly, AnswersTruly DEF id

LEMMA BusyTrue ==
  ASSUME RelaysInv, NEW c \in Calls, Busy(c), UNCHANGED <<delivery, doubled>>
  PROVE  RelaysInv'
<1>1. call[c].pc = "create" /\ Answers(c, "busy", NoTx) /\ "busy" \in Outcomes
      /\ UNCHANGED <<stored, expired>>
  BY DEF Busy, Outcomes
<1>2. SubmitInv'
  BY BusyInv DEF RelaysInv
<1> QED
  BY <1>1, <1>2, AnswersTruly

\* The write of three items: its run is the request's only one, or the delivery
\* was tried again too early.
LEMMA StoresTrue ==
  ASSUME RelaysInv, SubmitInv', NEW c \in Calls, call[c].pc = "create",
         NEW r \in Relayed, r = call[c].request, NEW id \in TxIds,
         NEW n \in Run, n.request = r, n.pc = "answer", n.answer.what = "stored", n.answer.tx = id,
         Is(c, n), NEW tx, tx.request = r, tx.id = id, stored' = stored \cup {tx},
         UNCHANGED <<delivery, doubled, expired>>
  PROVE  RelaysInv'
<1>1. call' = [call EXCEPT ![c] = n] /\ call \in [Calls -> Run]
  BY DEF Is, RelaysInv, SubmitInv, SubmitTyped
<1>2. call'[c] = n /\ \A b \in Calls \ {c} : call'[b] = call[b]
  BY <1>1
<1>5. \A d : d # r => TxsOf(d)' = TxsOf(d)
  BY DEF TxsOf
<1>6. \A q, i : Owns(q, i) => Owns(q, i)'
  BY DEF Owns
<1>7. Owns(r, id)'
  BY DEF Owns
<1>8. \A b \in Calls : call'[b].pc # "idle" <=> call[b].pc # "idle"
  BY <1>2
<1>9. \A b \in Calls : call'[b].request = call[b].request
  BY <1>2
<1>10. Handles(c, r)
  BY DEF Handles
<1>12. ASSUME NEW b \in Calls, call'[b].pc # "idle" PROVE RunTrue(call[b])'
  <2>1. CASE b = c
    BY <1>2, <1>7, <2>1 DEF RunTrue, Refuses
  <2>2. CASE b # c
    <3>1. call'[b] = call[b] /\ RunTrue(call[b])
      BY <1>2, <1>8, <1>12, <2>2 DEF RelaysInv
    <3>2. CASE call[b].request # r
      BY <1>5, <1>6, <3>1, <3>2 DEF RunTrue
    <3>3. CASE call[b].request = r
      <4>1. r \in doubled
        BY <1>8, <1>10, <1>12, <2>2, <3>3 DEF RelaysInv, Alone, Handles
      <4> QED
        BY <1>6, <3>1, <3>3, <4>1 DEF RunTrue
    <3> QED
      BY <3>2, <3>3
  <2> QED
    BY <2>1, <2>2
<1>13. ASSUME NEW d \in Relayed PROVE Awaited(d)' /\ Alone(d)' /\ EndedTrue(d)'
  <2>1. Awaited(d)'
    BY <1>8, <1>9 DEF RelaysInv, Awaited
  <2>2. Alone(d)'
    BY <1>8, <1>9 DEF RelaysInv, Alone, Handles
  <2>3. Handled(d)' <=> Handled(d)
    BY <1>8, <1>9 DEF Handled
  <2>4. TxsOf(d) \subseteq TxsOf(d)'
    BY DEF TxsOf
  <2>5. d = r => Handled(d)
    BY <1>10 DEF Handled, Handles
  <2>6. EndedTrue(d)'
    BY <1>5, <2>3, <2>4, <2>5 DEF RelaysInv, EndedTrue, TurnedDown
  <2> QED
    BY <2>1, <2>2, <2>6
<1> QED
  BY <1>12, <1>13 DEF RelaysInv

LEMMA CreateTrue ==
  ASSUME RelaysInv, NEW c \in Calls, Create(c), UNCHANGED <<delivery, doubled>>
  PROVE  RelaysInv'
<1> DEFINE r == call[c].request
           day == call[c].day
<1>1. call[c].pc = "create" /\ UNCHANGED expired
  BY DEF Create
<1>2. SubmitInv /\ SubmitInv' /\ r \in Relayed
  BY <1>1, CreateInv DEF RelaysInv, RunTrue
<1>3. CASE Is(c, [call[c] EXCEPT !.pc = "raced"]) /\ UNCHANGED stored
  <2>1. [call[c] EXCEPT !.pc = "raced"] = [call[c] EXCEPT !.pc = "raced", !.day = call[c].day]
        /\ call[c].day \in Nat
    BY <1>2, CallType DEF Run
  <2> QED
    BY <1>1, <1>2, <1>3, <2>1, MovesTruly
<1>4. CASE Answers(c, "cap", NoTx) /\ UNCHANGED stored
  <2>1. "cap" \in Outcomes
    BY DEF Outcomes
  <2> QED
    BY <1>1, <1>2, <1>4, <2>1, FoundNone, AnswersTruly
<1>5. ASSUME NEW id \in TxIds \ Used,
             stored' = stored \cup {[id |-> id, request |-> r, day |-> day]},
             Is(c, [call[c] EXCEPT !.pc = "answer", !.answer = [what |-> "stored", tx |-> id]])
      PROVE  RelaysInv'
  <2> DEFINE n == [call[c] EXCEPT !.pc = "answer", !.answer = [what |-> "stored", tx |-> id]]
             tx == [id |-> id, request |-> r, day |-> day]
  <2>1. n \in Run /\ n.request = r /\ n.pc = "answer" /\ n.answer.what = "stored" /\ n.answer.tx = id
    BY <1>2, CallType DEF Run, Pcs, Answer, Outcomes
  <2>2. Is(c, n) /\ tx.request = r /\ tx.id = id /\ stored' = stored \cup {tx}
    BY <1>5
  <2>3. r = call[c].request
    OBVIOUS
  <2> HIDE DEF n, tx, r
  <2> QED
    BY <1>1, <1>2, <2>1, <2>2, <2>3, StoresTrue
<1> QED
  BY <1>3, <1>4, <1>5 DEF Create

(***************************************************************************)
(* Time                                                                    *)
(***************************************************************************)
LEMMA TimeTrue ==
  ASSUME RelaysInv, SubmitInv', UNCHANGED <<stored, call, delivery, doubled>>, expired \subseteq expired'
  PROVE  RelaysInv'
<1>1. ASSUME NEW c \in Calls, call'[c].pc # "idle" PROVE RunTrue(call[c])'
  BY <1>1 DEF RelaysInv, RunTrue, TxsOf, Owns
<1>2. ASSUME NEW d \in Relayed PROVE Awaited(d)' /\ Alone(d)' /\ EndedTrue(d)'
  BY DEF RelaysInv, Awaited, Alone, Handles, EndedTrue, TurnedDown, Handled, TxsOf
<1> QED
  BY <1>1, <1>2 DEF RelaysInv

(***************************************************************************)
(* Runs end, and deliveries with them                                      *)
(***************************************************************************)
LEMMA NoCallIsNone == NoCall \notin Calls
BY RelaysAssumption

LEMMA OutcomeIs ==
  ASSUME delivery \in [Relayed -> Delivery], NEW d \in Relayed, NEW code \in Codes, Outcome(d, code)
  PROVE  /\ delivery' \in [Relayed -> Delivery]
         /\ \A e \in Relayed \ {d} : delivery'[e] = delivery[e]
         /\ delivery'[d].by = NoCall
         /\ delivery'[d].status = "delivered" => code = "stored"
         /\ delivery'[d].status = "dead" /\ delivery'[d].cause \notin {"exhausted", "unauthorized"}
              => code \in {"conflict", "refused", "cap"}
<1> DEFINE was == delivery[d]
           done == [was EXCEPT !.status = "delivered", !.by = NoCall]
           dead == [was EXCEPT !.status = "dead", !.by = NoCall,
                        !.cause = IF classify(code) = "permanent" THEN code ELSE "exhausted"]
           again == [was EXCEPT !.status = "waiting", !.by = NoCall]
<1>1. /\ was \in Delivery
      /\ done \in Delivery /\ done.by = NoCall /\ done.status = "delivered"
      /\ again \in Delivery /\ again.by = NoCall /\ again.status = "waiting"
  BY DEF Delivery
<1>2. /\ dead \in Delivery /\ dead.by = NoCall /\ dead.status = "dead"
      /\ dead.cause = IF classify(code) = "permanent" THEN code ELSE "exhausted"
  BY <1>1 DEF Delivery
<1>3. classify(code) = "delivered" => code = "stored"
  BY DEF classify
<1>4. classify(code) = "permanent" /\ code # "unauthorized" => code \in {"conflict", "refused", "cap"}
  BY DEF classify, TRANSIENT_CODES, Refusals
<1>5. PICK row \in {done, dead, again} :
        /\ delivery' = [delivery EXCEPT ![d] = row]
        /\ row = done => classify(code) = "delivered"
  <2>1. CASE classify(code) = "delivered"
    <3>1. delivery' = [delivery EXCEPT ![d] = done]
      BY <2>1 DEF Outcome
    <3> QED
      BY <2>1, <3>1
  <2>2. CASE classify(code) # "delivered"
    <3>1. delivery' = [delivery EXCEPT ![d] = dead] \/ delivery' = [delivery EXCEPT ![d] = again]
      BY <2>2 DEF Outcome
    <3>2. dead # done /\ again # done
      BY <1>1, <1>2
    <3> QED
      BY <3>1, <3>2
  <2> QED
    BY <2>1, <2>2
<1> HIDE DEF done, dead, again
<1>6. row \in Delivery /\ row.by = NoCall
  BY <1>1, <1>2
<1>7. delivery' \in [Relayed -> Delivery] /\ delivery'[d] = row
      /\ \A e \in Relayed \ {d} : delivery'[e] = delivery[e]
  BY <1>5, <1>6
<1>8. row.status = "delivered" => code = "stored"
  BY <1>1, <1>2, <1>3, <1>5
<1>9. row.status = "dead" /\ row.cause \notin {"exhausted", "unauthorized"}
        => code \in {"conflict", "refused", "cap"}
  BY <1>1, <1>2, <1>4
<1> QED
  BY <1>6, <1>7, <1>8, <1>9

\* Runs may end, and a delivery whose run does waits for it no more.
LEMMA Settles ==
  ASSUME RelaysInv, SubmitInv', UNCHANGED <<stored, expired, doubled>>,
         delivery' \in [Relayed -> Delivery],
         \A b \in Calls : call'[b] = call[b] \/ call'[b].pc = "idle",
         \A e \in Relayed :
           \/ /\ delivery'[e] = delivery[e]
              /\ delivery[e].by # NoCall => call'[delivery[e].by] = call[delivery[e].by]
           \/ delivery'[e].by = NoCall /\ EndedTrue(e)'
  PROVE  RelaysInv'
<1>1. ASSUME NEW b \in Calls, call'[b].pc # "idle" PROVE RunTrue(call[b])'
  <2>1. call'[b] = call[b] /\ RunTrue(call[b])
    BY <1>1 DEF RelaysInv
  <2> QED
    BY <2>1 DEF RunTrue, TxsOf, Owns
<1>2. ASSUME NEW d \in Relayed PROVE Awaited(d)' /\ Alone(d)' /\ EndedTrue(d)'
  <2>1. \A b \in Calls : Handles(b, d)' => Handles(b, d)
    BY DEF Handles
  <2>2. Alone(d)'
    BY <2>1 DEF RelaysInv, Alone
  <2>3. Handled(d)' => Handled(d)
    BY <2>1 DEF Handled, Handles
  <2>4. CASE delivery'[d] = delivery[d]
             /\ (delivery[d].by # NoCall => call'[delivery[d].by] = call[delivery[d].by])
    <3>1. Awaited(d)'
      BY <2>4 DEF RelaysInv, Awaited
    <3>2. EndedTrue(d)'
      BY <2>3, <2>4 DEF RelaysInv, EndedTrue, TurnedDown, TxsOf
    <3> QED
      BY <2>2, <3>1, <3>2
  <2>5. CASE delivery'[d].by = NoCall /\ EndedTrue(d)'
    BY <2>2, <2>5 DEF Awaited
  <2> QED
    BY <2>4, <2>5
<1> QED
  BY <1>1, <1>2 DEF RelaysInv

LEMMA AwaitedCall ==
  ASSUME RelaysInv, NEW d \in Relayed, delivery[d].by # NoCall
  PROVE  /\ delivery[d].by \in Calls
         /\ call[delivery[d].by].pc # "idle" /\ call[delivery[d].by].request = d
BY DEF RelaysInv, Awaited

\* The run that a delivery waits for is over, and its outcome is recorded.
LEMMA OutcomeSettles ==
  ASSUME RelaysInv, SubmitInv', NEW d \in Relayed, delivery[d].by # NoCall, NEW c, c = delivery[d].by,
         NEW n \in Run, n.pc = "idle", Is(c, n), NEW code \in Codes, Outcome(d, code),
         code = "stored" => TxsOf(d) # {},
         code \in {"conflict", "refused", "cap"} /\ d \notin doubled /\ KeyOf[d] \notin expired
           => TxsOf(d) = {},
         UNCHANGED <<stored, expired, doubled>>
  PROVE  RelaysInv'
<1>1. c \in Calls /\ call[c].pc # "idle" /\ call[c].request = d
  BY AwaitedCall
<1>2. call'[c] = n /\ \A b \in Calls \ {c} : call'[b] = call[b]
  BY <1>1 DEF Is, RelaysInv, SubmitInv, SubmitTyped
<1>3. /\ delivery' \in [Relayed -> Delivery]
      /\ \A e \in Relayed \ {d} : delivery'[e] = delivery[e]
      /\ delivery'[d].by = NoCall
      /\ delivery'[d].status = "delivered" => code = "stored"
      /\ delivery'[d].status = "dead" /\ delivery'[d].cause \notin {"exhausted", "unauthorized"}
           => code \in {"conflict", "refused", "cap"}
  BY OutcomeIs DEF RelaysInv
<1>4. d \notin doubled => ~Handled(d)'
  <2>1. d \notin doubled => \A b \in Calls : Handles(b, d) => b = c
    BY <1>1 DEF RelaysInv, Alone, Handles
  <2> QED
    BY <1>2, <2>1 DEF Handled, Handles
<1>5. EndedTrue(d)'
  BY <1>3, <1>4 DEF EndedTrue, TurnedDown, TxsOf
<1>6. ASSUME NEW e \in Relayed \ {d}
      PROVE  delivery[e].by # NoCall => call'[delivery[e].by] = call[delivery[e].by]
  BY <1>1, <1>2, AwaitedCall
<1>7. \A b \in Calls : call'[b] = call[b] \/ call'[b].pc = "idle"
  BY <1>2
<1> QED
  BY <1>3, <1>5, <1>6, <1>7, Settles

LEMMA HearsTrue == ASSUME RelaysInv, NEW d \in Relayed, Hears(d) PROVE RelaysInv'
<1> DEFINE c == delivery[d].by
           n == [call[c] EXCEPT !.pc = "idle", !.answer = Unanswered, !.day = 0]
           code == call[c].answer.what
<1>1. /\ c # NoCall /\ Reaches(c) /\ Outcome(d, code) /\ UNCHANGED doubled
      /\ call[c].pc = "answer" /\ Is(c, n) /\ UNCHANGED <<stored, expired>>
  BY DEF Hears, Reaches
<1>2. c \in Calls /\ call[c].request = d /\ SubmitInv
  BY <1>1, AwaitedCall DEF RelaysInv
<1>3. SubmitInv' /\ n \in Run /\ n.pc = "idle"
  BY <1>1, <1>2, ReachesInv, IdleRun
<1>4. code \in Codes
  BY <1>2, CallType DEF Run, Answer, Codes
<1>5. RunTrue(call[c])
  BY <1>1, <1>2 DEF RelaysInv
<1>6. code = "stored" => TxsOf(d) # {}
  BY <1>1, <1>2, <1>5 DEF RunTrue, Owns, TxsOf
<1>7. code \in {"conflict", "refused", "cap"} /\ d \notin doubled /\ KeyOf[d] \notin expired
        => TxsOf(d) = {}
  BY <1>1, <1>2, <1>5 DEF RunTrue, Refuses
<1>8. c = delivery[d].by
  OBVIOUS
<1> HIDE DEF c, n, code
<1> QED
  BY <1>1, <1>3, <1>4, <1>6, <1>7, <1>8, OutcomeSettles

LEMMA TurnedAwayTrue ==
  ASSUME RelaysInv, NEW d \in Relayed, NEW code \in {"throttled", "unauthorized"}, TurnedAway(d, code)
  PROVE  RelaysInv'
<1> DEFINE c == delivery[d].by
           n == [call[c] EXCEPT !.pc = "idle"]
<1>1. /\ c # NoCall /\ Outcome(d, code) /\ call' = [call EXCEPT ![c] = n]
      /\ UNCHANGED <<today, stored, claims, answered, expired, doubled>>
  BY DEF TurnedAway
<1>2. c \in Calls /\ call[c].pc # "idle" /\ call[c].request = d /\ SubmitInv
  BY <1>1, AwaitedCall DEF RelaysInv
<1>3. n \in Run /\ n.pc = "idle" /\ Is(c, n)
  BY <1>1, <1>2, CallType DEF Run, Pcs, Is
<1>4. c = delivery[d].by
  OBVIOUS
<1> HIDE DEF c, n
<1>5. SubmitInv'
  BY <1>1, <1>2, <1>3, CallStep
<1>6. code \in Codes /\ code # "stored" /\ code \notin {"conflict", "refused", "cap"}
  BY DEF Codes
<1> QED
  BY <1>1, <1>3, <1>4, <1>5, <1>6, OutcomeSettles

LEMMA TimesOutTrue == ASSUME RelaysInv, NEW d \in Relayed, TimesOut(d) PROVE RelaysInv'
<1>1. Outcome(d, "network_error") /\ "network_error" \in Codes /\ UNCHANGED <<submitVars, doubled>>
  BY DEF TimesOut, Codes
<1>2. UNCHANGED <<stored, expired, call>> /\ SubmitInv'
  BY <1>1, SubmitNextInv DEF RelaysInv, submitVars
<1>3. /\ delivery' \in [Relayed -> Delivery]
      /\ \A e \in Relayed \ {d} : delivery'[e] = delivery[e]
      /\ delivery'[d].by = NoCall
      /\ delivery'[d].status # "delivered"
      /\ ~(delivery'[d].status = "dead" /\ delivery'[d].cause \notin {"exhausted", "unauthorized"})
  BY <1>1, OutcomeIs DEF RelaysInv
<1>4. EndedTrue(d)'
  BY <1>3 DEF EndedTrue, TurnedDown
<1> QED
  BY <1>1, <1>2, <1>3, <1>4, Settles

LEMMA RedriveTrue == ASSUME RelaysInv, NEW d \in Relayed, Redrive(d) PROVE RelaysInv'
<1> DEFINE row == [status |-> "waiting", attempts |-> 0, by |-> NoCall, cause |-> "none"]
<1>1. delivery' = [delivery EXCEPT ![d] = row] /\ UNCHANGED <<submitVars, doubled>>
  BY DEF Redrive
<1>2. row \in Delivery /\ row.by = NoCall /\ row.status = "waiting"
  BY DEF Delivery
<1> HIDE DEF row
<1>3. UNCHANGED <<stored, expired, call>> /\ SubmitInv'
  BY <1>1, SubmitNextInv DEF RelaysInv, submitVars
<1>4. /\ delivery' \in [Relayed -> Delivery] /\ delivery'[d] = row
      /\ \A e \in Relayed \ {d} : delivery'[e] = delivery[e]
  BY <1>1, <1>2 DEF RelaysInv
<1>5. EndedTrue(d)'
  BY <1>2, <1>4 DEF EndedTrue, TurnedDown
<1> QED
  BY <1>1, <1>2, <1>3, <1>4, <1>5, Settles

\* A run ends that nobody waits for.
LEMMA UnheardEnds ==
  ASSUME RelaysInv, SubmitInv', NEW c \in Calls, ~Waiting(c), NEW n \in Run, n.pc = "idle", Is(c, n),
         UNCHANGED <<stored, expired, delivery, doubled>>
  PROVE  RelaysInv'
<1>1. call'[c] = n /\ \A b \in Calls \ {c} : call'[b] = call[b]
  BY DEF Is, RelaysInv, SubmitInv, SubmitTyped
<1>2. \A e \in Relayed : delivery[e].by # NoCall => call'[delivery[e].by] = call[delivery[e].by]
  BY <1>1, AwaitedCall DEF Waiting
<1>3. \A b \in Calls : call'[b] = call[b] \/ call'[b].pc = "idle"
  BY <1>1
<1>4. delivery' \in [Relayed -> Delivery]
  BY DEF RelaysInv
<1> QED
  BY <1>2, <1>3, <1>4, Settles

LEMMA UnheardTrue == ASSUME RelaysInv, NEW c \in Calls, Unheard(c) PROVE RelaysInv'
<1> DEFINE n == [call[c] EXCEPT !.pc = "idle", !.answer = Unanswered, !.day = 0]
<1>1. /\ Is(c, n) /\ ~Waiting(c)
      /\ UNCHANGED <<today, stored, claims, answered, expired, delivery, doubled>>
  BY DEF Unheard
<1>2. SubmitInv /\ n \in Run /\ n.pc = "idle"
  BY IdleRun DEF RelaysInv
<1> HIDE DEF n
<1>3. SubmitInv'
  BY <1>1, <1>2, CallStep
<1> QED
  BY <1>1, <1>2, <1>3, UnheardEnds

LEMMA RouteDiesTrue == ASSUME RelaysInv, NEW c \in Calls, RouteDies(c) PROVE RelaysInv'
<1> DEFINE n == [call[c] EXCEPT !.pc = "idle", !.answer = Unanswered, !.day = 0]
<1>1. /\ Lost(c) /\ Is(c, n) /\ UNCHANGED <<stored, expired, doubled>>
      /\ \/ ~Waiting(c) /\ UNCHANGED delivery
         \/ \E d \in Relayed : delivery[d].by = c /\ Outcome(d, "network_error")
  BY DEF RouteDies, Lost
<1>2. SubmitInv' /\ n \in Run /\ n.pc = "idle"
  BY <1>1, LostInv, IdleRun DEF RelaysInv
<1> HIDE DEF n
<1>3. CASE ~Waiting(c) /\ UNCHANGED delivery
  BY <1>1, <1>2, <1>3, UnheardEnds
<1>4. ASSUME NEW d \in Relayed, delivery[d].by = c, Outcome(d, "network_error") PROVE RelaysInv'
  <2>1. "network_error" \in Codes /\ c # NoCall
    BY NoCallIsNone DEF Codes
  <2> QED
    BY <1>1, <1>2, <1>4, <2>1, OutcomeSettles
<1> QED
  BY <1>1, <1>3, <1>4

\* A delivery is tried, for the first time or again.
LEMMA AttemptTrue ==
  ASSUME RelaysInv, NEW d \in Relayed, NEW c \in Calls, Attempt(d, c)
  PROVE  RelaysInv'
<1> DEFINE n == [pc |-> "lookup", request |-> d, day |-> today, answer |-> Unanswered]
           row == [delivery[d] EXCEPT !.status = "sending", !.attempts = @ + 1, !.by = c]
<1>1. /\ delivery[d].status \in {"waiting", "sending"} /\ call[c].pc = "idle" /\ Relay(c, d)
      /\ Is(c, n) /\ UNCHANGED <<stored, expired>>
      /\ doubled' = IF Handled(d) THEN doubled \cup {d} ELSE doubled
  BY DEF Attempt, Relay
<1>2. delivery' = [delivery EXCEPT ![d] = row]
  BY DEF Attempt
<1>3. d \in Requests /\ SubmitInv
  BY RelaysAssumption DEF RelaysInv
<1>4. SubmitInv' /\ n.pc = "lookup" /\ n.request = d
  BY <1>1, <1>3, RelayInv
<1>5. row \in Delivery /\ row.status = "sending" /\ row.by = c
  <2>1. delivery[d] \in Delivery
    BY DEF RelaysInv
  <2>2. delivery[d].attempts + 1 \in Nat
    BY <2>1 DEF Delivery
  <2> QED
    BY <2>1, <2>2 DEF Delivery
<1> HIDE DEF n, row
<1>6. call'[c] = n /\ \A b \in Calls \ {c} : call'[b] = call[b]
  BY <1>1, <1>3 DEF Is, SubmitInv, SubmitTyped
<1>7. /\ delivery' \in [Relayed -> Delivery] /\ delivery'[d] = row
      /\ \A e \in Relayed \ {d} : delivery'[e] = delivery[e]
  BY <1>2, <1>5 DEF RelaysInv
<1>8. doubled' \subseteq Relayed /\ doubled \subseteq doubled' /\ (d \notin doubled' => ~Handled(d))
      /\ \A e \in Relayed \ {d} : e \in doubled' <=> e \in doubled
  BY <1>1 DEF RelaysInv
<1>9. ASSUME NEW b \in Calls, call'[b].pc # "idle" PROVE RunTrue(call[b])'
  <2>1. CASE b = c
    BY <1>4, <1>6, <2>1 DEF RunTrue, Refuses
  <2>2. CASE b # c
    <3>1. call'[b] = call[b] /\ RunTrue(call[b])
      BY <1>6, <1>9, <2>2 DEF RelaysInv
    <3> QED
      BY <1>1, <1>8, <3>1 DEF RunTrue, TxsOf, Owns
  <2> QED
    BY <2>1, <2>2
<1>10. ASSUME NEW e \in Relayed PROVE Awaited(e)' /\ Alone(e)' /\ EndedTrue(e)'
  <2>1. CASE e = d
    <3>1. Awaited(e)'
      BY <1>4, <1>5, <1>6, <1>7, <2>1 DEF Awaited
    <3>2. Alone(e)'
      BY <1>6, <1>8, <2>1 DEF Alone, Handles, Handled
    <3>3. EndedTrue(e)'
      BY <1>5, <1>7, <2>1 DEF EndedTrue, TurnedDown
    <3> QED
      BY <3>1, <3>2, <3>3
  <2>2. CASE e # d
    <3>1. Awaited(e)'
      BY <1>1, <1>6, <1>7, <2>2 DEF RelaysInv, Awaited
    <3>2. \A b \in Calls : Handles(b, e)' <=> Handles(b, e)
      BY <1>1, <1>4, <1>6, <2>2 DEF Handles
    <3>3. Alone(e)'
      BY <1>8, <2>2, <3>2 DEF RelaysInv, Alone
    <3>4. Handled(e)' <=> Handled(e)
      BY <3>2 DEF Handled, Handles
    <3>5. EndedTrue(e)'
      BY <1>1, <1>7, <1>8, <2>2, <3>4 DEF RelaysInv, EndedTrue, TurnedDown, TxsOf
    <3> QED
      BY <3>1, <3>3, <3>5
  <2> QED
    BY <2>1, <2>2
<1> QED
  BY <1>4, <1>7, <1>8, <1>9, <1>10 DEF RelaysInv

(***************************************************************************)
(* The theorem of the relay action                                         *)
(***************************************************************************)
LEMMA RelaysInitInv == RelaysInit => RelaysInv
<1> SUFFICES ASSUME RelaysInit
             PROVE  RelaysInv
  OBVIOUS
<1> DEFINE row == [status |-> "waiting", attempts |-> 0, by |-> NoCall, cause |-> "none"]
<1>1. row \in Delivery /\ row.by = NoCall /\ row.status = "waiting"
  BY DEF Delivery
<1>2. delivery = [d \in Relayed |-> row] /\ doubled = {} /\ SubmitInv
  BY SubmitInitInv DEF RelaysInit
<1> HIDE DEF row
<1>3. \A c \in Calls : call[c].pc = "idle"
  BY DEF RelaysInit, SubmitInit
<1> QED
  BY <1>1, <1>2, <1>3 DEF RelaysInv, Awaited, Alone, Handles, EndedTrue, TurnedDown

LEMMA RelaysNextInv == ASSUME RelaysInv, [RelaysNext]_relaysVars PROVE RelaysInv'
<1>1. CASE UNCHANGED relaysVars
  <2>1. UNCHANGED <<stored, call, delivery, doubled, expired>> /\ SubmitInv'
    BY <1>1, SubmitNextInv DEF relaysVars, submitVars, RelaysInv
  <2> QED
    BY <2>1, TimeTrue
<1>2. CASE (Midnight \/ \E k \in Keys : ClaimExpires(k)) /\ UNCHANGED <<delivery, begun, doubled>>
  <2>1. SubmitInv'
    BY <1>2, MidnightInv, ClaimExpiresInv DEF RelaysInv
  <2>2. UNCHANGED <<stored, call>> /\ expired \subseteq expired'
    BY <1>2 DEF Midnight, ClaimExpires
  <2> QED
    BY <1>2, <2>1, <2>2, TimeTrue
<1> QED
  BY <1>1, <1>2, LookupTrue, CheckTrue, CreateTrue, BusyTrue, RacedTrue, AttemptTrue, TurnedAwayTrue,
     HearsTrue, TimesOutTrue, RedriveTrue, UnheardTrue, RouteDiesTrue
  DEF RelaysNext

(***************************************************************************)
(* The types of the relay action's variables                               *)
(***************************************************************************)
LEMMA OutcomeTyped ==
  ASSUME RelaysTypeOK, NEW d \in Relayed, NEW code \in Codes, Outcome(d, code)
  PROVE  delivery' \in [Relayed -> Delivery]
<1>1. delivery[d] \in Delivery
  BY DEF RelaysTypeOK
<1>2. [delivery[d] EXCEPT !.status = "delivered", !.by = NoCall] \in Delivery
  BY <1>1 DEF Delivery
<1>3. ASSUME NEW cause \in Codes \cup {"none", "exhausted"}
      PROVE  [delivery[d] EXCEPT !.status = "dead", !.by = NoCall, !.cause = cause] \in Delivery
  BY <1>1 DEF Delivery
<1>4. [delivery[d] EXCEPT !.status = "waiting", !.by = NoCall] \in Delivery
  BY <1>1 DEF Delivery
<1> DEFINE next == IF classify(code) = "delivered"
                     THEN [delivery[d] EXCEPT !.status = "delivered", !.by = NoCall]
                   ELSE IF classify(code) = "permanent" \/ delivery[d].attempts >= MAX_ATTEMPTS_OF_DELIVERY
                     THEN [delivery[d] EXCEPT !.status = "dead", !.by = NoCall,
                             !.cause = IF classify(code) = "permanent" THEN code ELSE "exhausted"]
                   ELSE [delivery[d] EXCEPT !.status = "waiting", !.by = NoCall]
<1>5. next \in Delivery
  BY <1>2, <1>3, <1>4
<1>6. delivery' = [delivery EXCEPT ![d] = next]
  BY DEF Outcome
<1> QED
  BY <1>5, <1>6 DEF RelaysTypeOK

LEMMA AttemptTyped ==
  ASSUME RelaysTypeOK, NEW d \in Relayed, NEW c \in Calls, Attempt(d, c)
  PROVE  RelaysTypeOK'
<1>1. SubmitTypeOK'
  BY RelayTyped, RelaysAssumption DEF Attempt, RelaysTypeOK
<1>2. delivery[d] \in Delivery /\ begun[d] \in 0 .. MaxBegun
  BY DEF RelaysTypeOK
<1>3. delivery[d].attempts + 1 \in Nat
  BY <1>2 DEF Delivery
<1>4. delivery' \in [Relayed -> Delivery]
  <2>1. [status |-> "sending", attempts |-> delivery[d].attempts + 1, by |-> c, cause |-> delivery[d].cause]
          \in Delivery
    BY <1>2, <1>3 DEF Delivery
  <2>2. delivery'[d] = [status |-> "sending", attempts |-> delivery[d].attempts + 1, by |-> c,
                        cause |-> delivery[d].cause]
    BY <1>2 DEF Attempt, RelaysTypeOK, Delivery
  <2>3. delivery' = [delivery EXCEPT ![d] = delivery'[d]]
    BY DEF Attempt, RelaysTypeOK
  <2> QED
    BY <2>1, <2>2, <2>3 DEF RelaysTypeOK
<1>5. begun' \in [Relayed -> 0 .. MaxBegun]
  BY <1>2, RelaysAssumption DEF Attempt, RelaysTypeOK
<1> QED
  BY <1>1, <1>4, <1>5 DEF Attempt, RelaysTypeOK

\* What becomes of a delivery when its answer comes, or none does.
LEMMA EndsTyped ==
  ASSUME RelaysTypeOK, NEW d \in Relayed,
         Hears(d) \/ TimesOut(d) \/ \E code \in {"throttled", "unauthorized"} : TurnedAway(d, code)
  PROVE  RelaysTypeOK'
<1>1. ASSUME delivery[d].by # NoCall
      PROVE  delivery[d].by \in Calls
  BY <1>1 DEF RelaysTypeOK, Delivery
<1>2. CASE Hears(d)
  <2>1. delivery[d].by \in Calls
    BY <1>1, <1>2 DEF Hears
  <2>2. SubmitTypeOK' /\ call[delivery[d].by].answer.what \in Codes
    BY <1>2, <2>1, ReachesTyped, FieldsTyped DEF Hears, RelaysTypeOK, Call, Answer, Codes
  <2> QED
    BY <1>2, <2>2, OutcomeTyped DEF Hears, RelaysTypeOK
<1>3. CASE TimesOut(d)
  <2>1. delivery' \in [Relayed -> Delivery]
    BY <1>3, OutcomeTyped DEF TimesOut, Codes
  <2>2. SubmitTypeOK'
    BY <1>3 DEF TimesOut, submitVars, SubmitTypeOK, RelaysTypeOK
  <2> QED
    BY <1>3, <2>1, <2>2 DEF TimesOut, RelaysTypeOK
<1>4. ASSUME NEW code \in {"throttled", "unauthorized"}, TurnedAway(d, code)
      PROVE  RelaysTypeOK'
  <2>1. delivery[d].by \in Calls
    BY <1>1, <1>4 DEF TurnedAway
  <2>2. [call[delivery[d].by] EXCEPT !.pc = "idle"] \in Call
    BY <2>1, FieldsTyped DEF RelaysTypeOK, Call
  <2>3. SubmitTypeOK'
    BY <1>4, <2>1, <2>2 DEF TurnedAway, RelaysTypeOK, SubmitTypeOK
  <2>4. delivery' \in [Relayed -> Delivery]
    BY <1>4, OutcomeTyped DEF TurnedAway, Codes
  <2> QED
    BY <1>4, <2>3, <2>4 DEF TurnedAway, RelaysTypeOK
<1> QED
  BY <1>2, <1>3, <1>4

LEMMA RedriveTyped == ASSUME RelaysTypeOK, NEW d \in Relayed, Redrive(d) PROVE RelaysTypeOK'
<1>1. [status |-> "waiting", attempts |-> 0, by |-> NoCall, cause |-> "none"] \in Delivery
  BY DEF Delivery
<1>2. SubmitTypeOK'
  BY DEF Redrive, submitVars, SubmitTypeOK, RelaysTypeOK
<1> QED
  BY <1>1, <1>2 DEF Redrive, RelaysTypeOK

LEMMA RouteEndsTyped ==
  ASSUME RelaysTypeOK, NEW c \in Calls, Unheard(c) \/ RouteDies(c)
  PROVE  RelaysTypeOK'
<1>1. CASE Unheard(c)
  <2>1. call' \in [Calls -> Call]
    BY <1>1, IdleTyped, CallTyped DEF Unheard, RelaysTypeOK
  <2> QED
    BY <1>1, <2>1 DEF Unheard, RelaysTypeOK, SubmitTypeOK
<1>2. CASE RouteDies(c)
  <2>1. SubmitTypeOK'
    BY <1>2, LostTyped DEF RouteDies, RelaysTypeOK
  <2>2. delivery' \in [Relayed -> Delivery]
    BY <1>2, OutcomeTyped DEF RouteDies, RelaysTypeOK, Codes
  <2> QED
    BY <1>2, <2>1, <2>2 DEF RouteDies, RelaysTypeOK
<1> QED
  BY <1>1, <1>2

LEMMA RelaysNextTyped == ASSUME RelaysTypeOK, [RelaysNext]_relaysVars PROVE RelaysTypeOK'
<1>1. CASE UNCHANGED relaysVars
  BY <1>1 DEF relaysVars, submitVars, RelaysTypeOK, SubmitTypeOK
<1>2. CASE /\ \/ Midnight \/ (\E k \in Keys : ClaimExpires(k))
              \/ \E c \in Calls : Lookup(c) \/ Check(c) \/ Create(c) \/ Busy(c) \/ Raced(c)
           /\ UNCHANGED <<delivery, begun, doubled>>
  <2>1. SubmitTypeOK'
    BY <1>2, TimeTyped, LookupTyped, CheckTyped, CreateTyped, BusyTyped, RacedTyped DEF RelaysTypeOK
  <2> QED
    BY <1>2, <2>1 DEF RelaysTypeOK
<1> QED
  BY <1>1, <1>2, AttemptTyped, EndsTyped, RedriveTyped, RouteEndsTyped DEF RelaysNext

LEMMA RelaysInitTyped == ASSUME Requests # {}, RelaysInit PROVE RelaysTypeOK
BY SubmitInitTyped, RelaysAssumption DEF RelaysInit, RelaysTypeOK, Delivery

\* A delivery that relays keeps its type beside the route's: it waits for a call or for
\* none, and its cause is a code of the client (relay.ts:20-60).
THEOREM RelaysTypes == ASSUME Requests # {} PROVE RelaysSpec => []RelaysTypeOK
<1>1. RelaysInit => RelaysTypeOK
  BY RelaysInitTyped
<1>2. RelaysTypeOK /\ [RelaysNext]_relaysVars => RelaysTypeOK'
  BY RelaysNextTyped
<1> QED
  BY <1>1, <1>2, PTL DEF RelaysSpec

\* While the claim of its key lives a delivery is delivered only with its own
\* transaction stored, and refused only when none is, however often its client
\* gives up and asks again (relay.ts:7-19 and :56).
THEOREM DeliveriesEndTrue == RelaysSpec => []RelayEndsTrue
BY RelaysInitInv, RelaysNextInv, RelaysInvSafe, PTL DEF RelaysSpec

(***************************************************************************)
(* The relay action keeps the promise of an outbox                         *)
(***************************************************************************)
\* A delivery that waits for a call is being sent, and one that a run of the route
\* handles, or that is anything but waiting, was tried.
TriedInv ==
  /\ begun \in [Relayed -> Nat]
  /\ \A d \in Relayed :
       /\ delivery[d].by # NoCall => delivery[d].status = "sending"
       /\ begun[d] = 0 => delivery[d].status = "waiting"
  /\ \A c \in Calls : call[c].pc # "idle" => begun[call[c].request] # 0

LEMMA OutboxMoves ==
  ASSUME NEW d \in Relayed, UNCHANGED stored,
         \A e \in Relayed \ {d} : RelayState(e)' = RelayState(e)
  PROVE  /\ RelaysPromise!Move(d, RelayState(d), RelayState(d)')
         /\ RelayState(d)' = RelayState(d) => UNCHANGED RelaysPromise!vars
<1> DEFINE state == [e \in Relayed |-> RelayState(e)]
           accepted == {e \in Relayed : TxsOf(e) # {}}
<1>1. state[d] = RelayState(d)
  OBVIOUS
<1>2. state' = [state EXCEPT ![d] = RelayState(d)']
  OBVIOUS
<1>3. accepted' = accepted
  BY DEF TxsOf
<1>4. RelayState(d)' = RelayState(d) => state' = state
  OBVIOUS
<1> QED
  BY <1>1, <1>2, <1>3, <1>4 DEF RelaysPromise!Move, RelaysPromise!vars

LEMMA OutboxRests ==
  ASSUME UNCHANGED <<stored, delivery, begun>>
  PROVE  UNCHANGED RelaysPromise!vars
BY DEF RelaysPromise!vars, RelayState, TxsOf

LEMMA StatusIs ==
  ASSUME RelaysInv, NEW d \in Relayed
  PROVE  delivery[d].status \in {"waiting", "sending", "delivered", "dead"}
BY DEF RelaysInv, Delivery

\* An outcome is recorded of a delivery that is being sent.
LEMMA OutcomeKept ==
  ASSUME RelaysInv, TriedInv, NEW d \in Relayed, delivery[d].by # NoCall,
         NEW code \in Codes, Outcome(d, code), code = "stored" => TxsOf(d) # {},
         \A b \in Calls : call'[b] = call[b] \/ call'[b].pc = "idle",
         UNCHANGED <<stored, begun>>
  PROVE  TriedInv' /\ [RelaysPromise!Next]_(RelaysPromise!vars)
<1>1. /\ delivery' \in [Relayed -> Delivery]
      /\ \A e \in Relayed \ {d} : delivery'[e] = delivery[e]
      /\ delivery'[d].by = NoCall
      /\ delivery'[d].status = "delivered" => code = "stored"
  BY OutcomeIs DEF RelaysInv
<1>2. begun[d] # 0 /\ delivery[d].status = "sending"
  BY AwaitedCall DEF TriedInv
<1>3. TriedInv'
  BY <1>1, <1>2 DEF TriedInv
<1>4. RelayState(d) = "live"
  BY <1>2 DEF RelayState
<1>5. delivery'[d].status \in {"waiting", "sending", "delivered", "dead"}
  BY <1>1 DEF Delivery
<1>6. \/ RelayState(d)' = "live"
      \/ RelayState(d)' = "dead"
      \/ RelayState(d)' = "delivered" /\ TxsOf(d) # {}
  BY <1>1, <1>2, <1>5 DEF RelayState
<1>7. /\ RelaysPromise!Move(d, RelayState(d), RelayState(d)')
      /\ RelayState(d)' = RelayState(d) => UNCHANGED RelaysPromise!vars
  BY <1>1, OutboxMoves DEF RelayState
<1>8. CASE RelayState(d)' = "dead"
  BY <1>3, <1>4, <1>7, <1>8 DEF RelaysPromise!Die, RelaysPromise!Next
<1>9. CASE RelayState(d)' = "delivered" /\ TxsOf(d) # {}
  BY <1>3, <1>4, <1>7, <1>9 DEF RelaysPromise!Deliver, RelaysPromise!Next
<1> QED
  BY <1>3, <1>4, <1>6, <1>7, <1>8, <1>9

LEMMA AnswerKept ==
  ASSUME RelaysInv, TriedInv, NEW d \in Relayed,
         Hears(d) \/ TimesOut(d) \/ \E code \in {"throttled", "unauthorized"} : TurnedAway(d, code)
  PROVE  TriedInv' /\ [RelaysPromise!Next]_(RelaysPromise!vars)
<1> DEFINE c == delivery[d].by
<1>1. c # NoCall /\ UNCHANGED <<stored, begun>>
  BY DEF Hears, TimesOut, TurnedAway, Reaches, submitVars
<1>2. c \in Calls /\ call[c].pc # "idle" /\ call[c].request = d /\ SubmitInv
  BY <1>1, AwaitedCall DEF RelaysInv
<1>3. call \in [Calls -> Run]
  BY <1>2 DEF SubmitInv, SubmitTyped
<1>4. \A b \in Calls : call'[b] = call[b] \/ call'[b].pc = "idle"
  <2>1. ASSUME Hears(d) PROVE call' = [call EXCEPT ![c] = [call[c] EXCEPT !.pc = "idle", !.answer = Unanswered, !.day = 0]]
    BY <2>1 DEF Hears, Reaches, Is
  <2>2. ASSUME NEW code, TurnedAway(d, code) PROVE call' = [call EXCEPT ![c].pc = "idle"]
    BY <2>2 DEF TurnedAway
  <2>3. TimesOut(d) => call' = call
    BY DEF TimesOut, submitVars
  <2> QED
    BY <1>2, <1>3, <2>1, <2>2, <2>3 DEF Run
<1>5. PICK code \in Codes : Outcome(d, code) /\ (code = "stored" => TxsOf(d) # {})
  <2>1. CASE Hears(d)
    <3>1. Outcome(d, call[c].answer.what) /\ call[c].pc = "answer"
      BY <2>1 DEF Hears, Reaches
    <3>2. call[c].answer.what \in Codes
      BY <1>2, CallType DEF Run, Answer, Codes
    <3>3. RunTrue(call[c])
      BY <1>2 DEF RelaysInv
    <3> QED
      BY <1>2, <3>1, <3>2, <3>3 DEF RunTrue, Owns, TxsOf
  <2>2. CASE TimesOut(d)
    BY <2>2 DEF TimesOut, Codes
  <2>3. ASSUME NEW code \in {"throttled", "unauthorized"}, TurnedAway(d, code)
        PROVE  Outcome(d, code) /\ code \in Codes /\ code # "stored"
    BY <2>3 DEF TurnedAway, Codes
  <2> QED
    BY <2>1, <2>2, <2>3
<1> QED
  BY <1>1, <1>4, <1>5, OutcomeKept

\* A run of the route that nobody waits for ends, or one dies.
LEMMA RouteEndsKept ==
  ASSUME RelaysInv, TriedInv, NEW c \in Calls, Unheard(c) \/ RouteDies(c)
  PROVE  TriedInv' /\ [RelaysPromise!Next]_(RelaysPromise!vars)
<1> DEFINE n == [call[c] EXCEPT !.pc = "idle", !.answer = Unanswered, !.day = 0]
<1>1. /\ call' = [call EXCEPT ![c] = n] /\ UNCHANGED <<stored, begun>>
      /\ \/ UNCHANGED delivery
         \/ \E d \in Relayed : delivery[d].by = c /\ Outcome(d, "network_error")
  BY DEF Unheard, RouteDies, Lost, Is
<1>2. call \in [Calls -> Run] /\ n.pc = "idle"
  BY DEF RelaysInv, SubmitInv, SubmitTyped, Run
<1> HIDE DEF n
<1>3. \A b \in Calls : call'[b] = call[b] \/ call'[b].pc = "idle"
  BY <1>1, <1>2
<1>4. CASE UNCHANGED delivery
  <2>1. TriedInv'
    BY <1>1, <1>3, <1>4 DEF TriedInv
  <2> QED
    BY <1>1, <1>4, <2>1, OutboxRests
<1>5. ASSUME NEW d \in Relayed, delivery[d].by = c, Outcome(d, "network_error")
      PROVE  TriedInv' /\ [RelaysPromise!Next]_(RelaysPromise!vars)
  <2>1. "network_error" \in Codes /\ delivery[d].by # NoCall
    BY <1>5, NoCallIsNone DEF Codes
  <2> QED
    BY <1>1, <1>3, <1>5, <2>1, OutcomeKept
<1> QED
  BY <1>1, <1>4, <1>5

LEMMA RedriveKept ==
  ASSUME RelaysInv, TriedInv, NEW d \in Relayed, Redrive(d)
  PROVE  TriedInv' /\ [RelaysPromise!Next]_(RelaysPromise!vars)
<1>1. /\ delivery' \in [Relayed -> Delivery] /\ delivery[d].status = "dead"
      /\ delivery'[d].by = NoCall /\ delivery'[d].status = "waiting"
      /\ \A e \in Relayed \ {d} : delivery'[e] = delivery[e]
  BY DEF Redrive, RelaysInv, Delivery
<1>2. UNCHANGED <<stored, call, begun>>
  BY DEF Redrive, submitVars
<1>3. begun[d] # 0
  BY <1>1 DEF TriedInv
<1>4. TriedInv'
  BY <1>1, <1>2 DEF TriedInv
<1>5. RelayState(d) = "dead" /\ RelayState(d)' = "live"
  BY <1>1, <1>2, <1>3 DEF RelayState
<1>6. RelaysPromise!Move(d, RelayState(d), RelayState(d)')
  BY <1>1, <1>2, OutboxMoves DEF RelayState
<1> QED
  BY <1>4, <1>5, <1>6 DEF RelaysPromise!Redrive, RelaysPromise!Next

\* The first attempt creates the delivery, and any other goes on with it.
LEMMA AttemptKept ==
  ASSUME RelaysInv, TriedInv, NEW d \in Relayed, NEW c \in Calls, Attempt(d, c)
  PROVE  TriedInv' /\ [RelaysPromise!Next]_(RelaysPromise!vars)
<1> DEFINE n == [pc |-> "lookup", request |-> d, day |-> today, answer |-> Unanswered]
<1>1. /\ delivery[d].status \in {"waiting", "sending"} /\ UNCHANGED stored
      /\ call' = [call EXCEPT ![c] = n] /\ begun' = [begun EXCEPT ![d] = @ + 1]
      /\ delivery' = [delivery EXCEPT ![d].status = "sending", ![d].attempts = @ + 1, ![d].by = c]
  BY DEF Attempt, Relay, Is
<1>2. n.pc = "lookup" /\ n.request = d
  OBVIOUS
<1> HIDE DEF n
<1>3. /\ delivery \in [Relayed -> Delivery]
      /\ delivery'[d].status = "sending"
      /\ \A e \in Relayed \ {d} : delivery'[e] = delivery[e]
  BY <1>1 DEF RelaysInv, Delivery
<1>4. /\ begun' \in [Relayed -> Nat] /\ begun'[d] # 0
      /\ \A e \in Relayed \ {d} : begun'[e] = begun[e]
  BY <1>1 DEF TriedInv
<1>5. call'[c] = n /\ \A b \in Calls \ {c} : call'[b] = call[b]
  BY <1>1 DEF RelaysInv, SubmitInv, SubmitTyped
<1>6. TriedInv'
  <2>1. ASSUME NEW b \in Calls, call'[b].pc # "idle" PROVE begun'[call'[b].request] # 0
    <3>1. CASE b = c
      BY <1>2, <1>4, <1>5, <3>1
    <3>2. CASE b # c
      <4>1. call'[b] = call[b] /\ begun[call[b].request] # 0 /\ call[b].request \in Relayed
        BY <1>5, <2>1, <3>2 DEF TriedInv, RelaysInv, RunTrue
      <4> QED
        BY <1>4, <4>1
    <3> QED
      BY <3>1, <3>2
  <2> QED
    BY <1>3, <1>4, <2>1 DEF TriedInv
<1>7. /\ RelaysPromise!Move(d, RelayState(d), RelayState(d)')
      /\ RelayState(d)' = RelayState(d) => UNCHANGED RelaysPromise!vars
  BY <1>1, <1>3, <1>4, OutboxMoves DEF RelayState
<1>8. RelayState(d) \in {"none", "live"} /\ RelayState(d)' = "live"
  BY <1>1, <1>3, <1>4 DEF RelayState
<1>9. CASE RelayState(d) = "none"
  BY <1>6, <1>7, <1>8, <1>9 DEF RelaysPromise!Create, RelaysPromise!Next
<1> QED
  BY <1>6, <1>7, <1>8, <1>9

\* The route stores a transaction of a delivery it handles, and that delivery was tried.
LEMMA StoreKept ==
  ASSUME RelaysInv, TriedInv, NEW c \in Calls, Create(c), UNCHANGED <<delivery, begun>>
  PROVE  [RelaysPromise!Next]_(RelaysPromise!vars)
<1>1. PICK d \in Relayed : d = call[c].request /\ begun[d] # 0
  BY DEF Create, RelaysInv, RunTrue, TriedInv
<1>2. \/ UNCHANGED stored
      \/ \E id \in TxIds : stored' = stored \cup {[id |-> id, request |-> d, day |-> call[c].day]}
  BY <1>1 DEF Create
<1>3. CASE UNCHANGED stored
  BY <1>3, OutboxRests
<1>4. ASSUME NEW id \in TxIds, stored' = stored \cup {[id |-> id, request |-> d, day |-> call[c].day]}
      PROVE  RelaysPromise!Next
  <2> DEFINE tx == [id |-> id, request |-> d, day |-> call[c].day]
             accepted == {e \in Relayed : TxsOf(e) # {}}
             state == [e \in Relayed |-> RelayState(e)]
  <2>1. stored' = stored \cup {tx} /\ tx.request = d
    BY <1>4
  <2> HIDE DEF tx
  <2>2. tx \in TxsOf(d)' /\ \A e : e # d => TxsOf(e)' = TxsOf(e)
    BY <2>1 DEF TxsOf
  <2>3. accepted' = accepted \cup {d}
    BY <1>1, <2>2
  <2>4. state[d] # "none"
    BY <1>1, StatusIs DEF RelayState
  <2>5. state' = state
    BY DEF RelayState
  <2> QED
    BY <1>1, <2>3, <2>4, <2>5 DEF RelaysPromise!Accept, RelaysPromise!Next
<1> QED
  BY <1>2, <1>3, <1>4

\* A step of the route: the runs it moves go on with what they handle.
LEMMA RouteTried ==
  ASSUME TriedInv, UNCHANGED <<delivery, begun>>,
         \A c \in Calls : call'[c].pc # "idle" => call[c].pc # "idle" /\ call'[c].request = call[c].request
  PROVE  TriedInv'
BY DEF TriedInv

LEMMA RouteGoesOn ==
  ASSUME RelaysInv, NEW c \in Calls, Lookup(c) \/ Check(c) \/ Create(c) \/ Busy(c) \/ Raced(c)
  PROVE  \A b \in Calls : call'[b].pc # "idle" => call[b].pc # "idle" /\ call'[b].request = call[b].request
<1>1. call \in [Calls -> Run] /\ call[c].pc # "idle"
  BY DEF RelaysInv, SubmitInv, SubmitTyped, Lookup, Check, Create, Busy, Raced
<1>2. ASSUME NEW what, NEW id, Answers(c, what, id)
      PROVE  \A b \in Calls : call'[b].pc # "idle" => call[b].pc # "idle" /\ call'[b].request = call[b].request
  BY <1>1, <1>2 DEF Answers, Is, Run
<1>3. ASSUME NEW pc, Is(c, [call[c] EXCEPT !.pc = pc])
      PROVE  \A b \in Calls : call'[b].pc # "idle" => call[b].pc # "idle" /\ call'[b].request = call[b].request
  BY <1>1, <1>3 DEF Is, Run
<1>4. ASSUME NEW pc, NEW day, Is(c, [call[c] EXCEPT !.pc = pc, !.day = day])
      PROVE  \A b \in Calls : call'[b].pc # "idle" => call[b].pc # "idle" /\ call'[b].request = call[b].request
  BY <1>1, <1>4 DEF Is, Run
<1>5. ASSUME NEW id, Is(c, [call[c] EXCEPT !.pc = "answer", !.answer = [what |-> "stored", tx |-> id]])
      PROVE  \A b \in Calls : call'[b].pc # "idle" => call[b].pc # "idle" /\ call'[b].request = call[b].request
  BY <1>1, <1>5 DEF Is, Run
<1>6. CASE Lookup(c)
  BY <1>2, <1>3, <1>6 DEF Lookup, Replayed
<1>7. CASE Check(c)
  BY <1>2, <1>4, <1>7 DEF Check
<1>8. CASE Create(c)
  BY <1>2, <1>3, <1>5, <1>8 DEF Create
<1>9. CASE Busy(c)
  BY <1>2, <1>9 DEF Busy
<1>10. CASE Raced(c)
  BY <1>2, <1>10 DEF Raced, Replayed
<1> QED
  BY <1>6, <1>7, <1>8, <1>9, <1>10

LEMMA RouteKept ==
  ASSUME RelaysInv, TriedInv, UNCHANGED <<delivery, begun>>,
         \/ Midnight \/ (\E k \in Keys : ClaimExpires(k))
         \/ \E c \in Calls : Lookup(c) \/ Check(c) \/ Create(c) \/ Busy(c) \/ Raced(c)
  PROVE  TriedInv' /\ [RelaysPromise!Next]_(RelaysPromise!vars)
<1>1. CASE Midnight \/ \E k \in Keys : ClaimExpires(k)
  <2>1. UNCHANGED <<stored, call>>
    BY <1>1 DEF Midnight, ClaimExpires
  <2> QED
    BY <2>1, RouteTried, OutboxRests
<1>2. ASSUME NEW c \in Calls, Lookup(c) \/ Check(c) \/ Create(c) \/ Busy(c) \/ Raced(c)
      PROVE  TriedInv' /\ [RelaysPromise!Next]_(RelaysPromise!vars)
  <2>1. TriedInv'
    BY <1>2, RouteGoesOn, RouteTried
  <2>2. CASE Create(c)
    BY <2>1, <2>2, StoreKept
  <2>3. CASE Lookup(c) \/ Check(c) \/ Busy(c) \/ Raced(c)
    <3>1. UNCHANGED stored
      BY <2>3 DEF Lookup, Check, Busy, Raced
    <3> QED
      BY <2>1, <3>1, OutboxRests
  <2> QED
    BY <1>2, <2>2, <2>3
<1> QED
  BY <1>1, <1>2

LEMMA RelaysNextKept ==
  ASSUME RelaysInv, TriedInv, [RelaysNext]_relaysVars
  PROVE  TriedInv' /\ [RelaysPromise!Next]_(RelaysPromise!vars)
<1>1. CASE UNCHANGED relaysVars
  <2>1. UNCHANGED <<stored, delivery, begun, call>>
    BY <1>1 DEF relaysVars, submitVars
  <2> QED
    BY <2>1, RouteTried, OutboxRests
<1>2. ASSUME NEW d \in Relayed, NEW c \in Calls, Attempt(d, c)
      PROVE  TriedInv' /\ [RelaysPromise!Next]_(RelaysPromise!vars)
  BY <1>2, AttemptKept
<1>3. ASSUME NEW d \in Relayed,
             Hears(d) \/ TimesOut(d) \/ \E code \in {"throttled", "unauthorized"} : TurnedAway(d, code)
      PROVE  TriedInv' /\ [RelaysPromise!Next]_(RelaysPromise!vars)
  BY <1>3, AnswerKept
<1>4. ASSUME NEW d \in Relayed, Redrive(d)
      PROVE  TriedInv' /\ [RelaysPromise!Next]_(RelaysPromise!vars)
  BY <1>4, RedriveKept
<1>5. ASSUME NEW c \in Calls, Unheard(c) \/ RouteDies(c)
      PROVE  TriedInv' /\ [RelaysPromise!Next]_(RelaysPromise!vars)
  BY <1>5, RouteEndsKept
<1> QED
  BY <1>1, <1>2, <1>3, <1>4, <1>5, RouteKept DEF RelaysNext

LEMMA RelaysInitKept == RelaysInit => TriedInv /\ RelaysPromise!Init
<1> SUFFICES ASSUME RelaysInit
             PROVE  TriedInv /\ RelaysPromise!Init
  OBVIOUS
<1>1. /\ begun = [d \in Relayed |-> 0] /\ stored = {}
      /\ \A d \in Relayed : delivery[d].by = NoCall /\ delivery[d].status = "waiting"
      /\ \A c \in Calls : call[c].pc = "idle"
  BY DEF RelaysInit, SubmitInit
<1>2. TriedInv
  BY <1>1 DEF TriedInv
<1>3. RelaysPromise!Init
  BY <1>1 DEF RelaysPromise!Init, RelayState, TxsOf
<1> QED
  BY <1>2, <1>3

\* A relay delivery keeps the promise of an outbox: delivered is for good and is only
\* said once the relayer stored a transaction of its own, dead is undone only by a
\* redrive, and nothing is stored for a delivery that was not tried, although senders
\* time out, overlap and die (relay.ts:20-60, sender.ts:50-140).
THEOREM RelaysKeepTheOutbox == RelaysSpec => RelaysOutboxKept
<1>1. RelaysInit => RelaysInv /\ TriedInv /\ RelaysPromise!Init
  BY RelaysInitInv, RelaysInitKept
<1>2. RelaysInv /\ TriedInv /\ [RelaysNext]_relaysVars =>
        RelaysInv' /\ TriedInv' /\ [RelaysPromise!Next]_(RelaysPromise!vars)
  BY RelaysNextInv, RelaysNextKept
<1> QED
  BY <1>1, <1>2, PTL DEF RelaysSpec, RelaysOutboxKept, RelaysPromise!Spec
=============================================================================
