------------------------------- MODULE Submit --------------------------------
(***************************************************************************)
(* The relayer's submission route under its clients.  A client sends a     *)
(* request under an idempotency key, and sends it again, under that key,   *)
(* whenever it got no answer or was told to.  Each call is handled by a    *)
(* Lambda run of its own, and runs overlap: it looks the key up, checks    *)
(* the signer's policy, and then writes the transaction, the claim of the  *)
(* key and the day's spend in one conditional write.                       *)
(*                                                                         *)
(* Answers are lost and runs die between any two of their calls; writes    *)
(* that collide are refused as busy; days pass, and claims of keys expire. *)
(***************************************************************************)
EXTENDS Integers, FiniteSets, FiniteSetsExt

CONSTANTS
  Requests,      \* what clients submit
  Calls,         \* runs of the route that may overlap
  Keys,          \* idempotency keys, of one API key
  NoKey,
  KeyOf,         \* [Requests -> Keys]: two requests share one by mistake
  CostWei,       \* [Requests -> worst-case cost, as worstCaseCostWei has it]
  Refused,       \* requests that a policy, an estimate or a dependency may refuse
  CapWei,        \* dailySpendCapWei
  GWEI,          \* wei in a gwei
  MaxTxs,        \* bound: transactions stored
  MaxDays,       \* bound: days
  MaxLost        \* bound: answers lost, runs that die, writes that collide too often

ASSUME RequestsAssumption ==
  /\ KeyOf \in [Requests -> Keys]
  /\ NoKey \notin Keys
  /\ Refused \subseteq Requests
  /\ CostWei \in [Requests -> Nat]
  /\ CapWei \in Nat /\ GWEI \in Nat \ {0}
  /\ MaxTxs \in Nat /\ MaxDays \in Nat /\ MaxLost \in Nat

TxIds == 1..MaxTxs
Days == 0..MaxDays
NoTx == 0

Outcomes == {"stored", "conflict", "refused", "cap", "busy"}

\* An answer is either a refusal or names a transaction.
Answer == [what : Outcomes, tx : TxIds \cup {NoTx}]

Call == [pc : {"idle", "lookup", "check", "create", "raced", "answer"},
         request : Requests, day : Days, answer : Answer]

VARIABLES
  today,
  stored,    \* [set of ids of stored transactions -> their request and their day]
  claims,    \* [Keys -> the transaction and day of the claim; NoTx once it is gone]
  spentGwei, \* [Days -> reserved]
  call,      \* [Calls -> Call, or what an idle one left]
  answered,  \* history: transactions that a request's client was answered with
  expired,   \* history: keys whose claim has expired
  lost       \* counter of the bounded faults

submitVars == <<today, stored, claims, spentGwei, call, answered, expired, lost>>

Unanswered == [what |-> "busy", tx |-> NoTx]

SubmitInit ==
  /\ today = 0
  /\ stored = {}
  /\ claims = [k \in Keys |-> [tx |-> NoTx, day |-> 0]]
  /\ spentGwei = [d \in Days |-> 0]
  /\ call \in [Calls -> {[pc |-> "idle", request |-> r, day |-> 0, answer |-> Unanswered] :
                           r \in {CHOOSE r \in Requests : TRUE}}]
  /\ answered = [r \in Requests |-> {}]
  /\ expired = {}
  /\ lost = 0

Used == {t.id : t \in stored}
TxOf(id) == CHOOSE t \in stored : t.id = id

\* Mutant: what is left of a gwei is not counted.
CostRoundedDown(wei) == wei \div GWEI

weiToGweiCeil(wei) == (wei + GWEI - 1) \div GWEI

weiToGweiFloor(wei) == wei \div GWEI

CostGwei(r) == weiToGweiCeil(CostWei[r])
CapGwei == weiToGweiFloor(CapWei)

Is(c, next) == call' = [call EXCEPT ![c] = next]
Answers(c, what, id) == Is(c, [call[c] EXCEPT !.pc = "answer", !.answer = [what |-> what, tx |-> id]])

\* relay(): a request goes out for the first time or again, also to a run
\* beside another that handles it still.
Relay(c, r) ==
  /\ call[c].pc = "idle"
  /\ Is(c, [pc |-> "lookup", request |-> r, day |-> today, answer |-> Unanswered])
  /\ UNCHANGED <<today, stored, claims, spentGwei, answered, expired, lost>>

\* replay(): the transaction of the claim, if it was made for this request.
Replayed(c, id) ==
  IF TxOf(id).request = call[c].request THEN Answers(c, "stored", id)
                                        ELSE Answers(c, "conflict", NoTx)

\* getIdempotency
Lookup(c) ==
  /\ call[c].pc = "lookup"
  /\ LET id == claims[KeyOf[call[c].request]].tx
     IN IF id # NoTx THEN Replayed(c, id) ELSE Is(c, [call[c] EXCEPT !.pc = "check"])
  /\ UNCHANGED <<today, stored, claims, spentGwei, answered, expired, lost>>

\* The policy, the dependency and the estimate, which may refuse today what they let
\* pass yesterday, or not be there to ask; then the day is taken and a cost over the
\* whole cap refused.
Check(c) ==
  /\ call[c].pc = "check"
  /\ LET r == call[c].request
     IN \/ r \in Refused /\ Answers(c, "refused", NoTx)
        \/ Answers(c, "busy", NoTx)
        \/ IF CostWei[r] > CapWei \/ CostGwei(r) > CapGwei THEN Answers(c, "cap", NoTx)
           ELSE Is(c, [call[c] EXCEPT !.pc = "create", !.day = today])
  /\ UNCHANGED <<today, stored, claims, spentGwei, answered, expired, lost>>

\* Mutant: the first claim stays, and the transaction is stored all the same.
ClaimedAnyway(k) == FALSE

\* The condition of the put of the idempotency row.
Claimed(k) == claims[k].tx # NoTx

\* The condition of the update of the day's row.
HasRoom(r, day) == spentGwei[day] <= CapGwei - CostGwei(r)

\* createTx: one write of three items, or of none.  The message that follows it
\* is Relayer's Submit; a run that dies before it leaves it to the sweeper.
Create(c) ==
  /\ call[c].pc = "create"
  /\ LET r == call[c].request
         k == KeyOf[r]
         day == call[c].day
     IN IF Claimed(k)
        THEN Is(c, [call[c] EXCEPT !.pc = "raced"]) /\ UNCHANGED <<stored, claims, spentGwei>>
        ELSE IF ~HasRoom(r, day)
        THEN Answers(c, "cap", NoTx) /\ UNCHANGED <<stored, claims, spentGwei>>
        ELSE \E id \in TxIds \ Used :
               /\ \A other \in TxIds \ Used : id <= other
               /\ stored' = stored \cup {[id |-> id, request |-> r, day |-> day]}
               /\ claims' = [claims EXCEPT ![k] = [tx |-> id, day |-> day]]
               /\ spentGwei' = [spentGwei EXCEPT ![day] = @ + CostGwei(r)]
               /\ Is(c, [call[c] EXCEPT !.pc = "answer", !.answer = [what |-> "stored", tx |-> id]])
  /\ UNCHANGED <<today, answered, expired, lost>>

Loses == lost < MaxLost /\ lost' = lost + 1

\* Writes of other transactions kept colliding with this one: StoreBusyError.
Busy(c) ==
  /\ call[c].pc = "create"
  /\ Loses
  /\ Answers(c, "busy", NoTx)
  /\ UNCHANGED <<today, stored, claims, spentGwei, answered, expired>>

\* The other write won the key: its transaction is the answer.  A claim that
\* cannot be read any more is an error, which a client takes like "busy".
Raced(c) ==
  /\ call[c].pc = "raced"
  /\ LET id == claims[KeyOf[call[c].request]].tx
     IN IF id = NoTx THEN Answers(c, "busy", NoTx) ELSE Replayed(c, id)
  /\ UNCHANGED <<today, stored, claims, spentGwei, answered, expired, lost>>

Reaches(c) ==
  /\ call[c].pc = "answer"
  /\ answered' = [answered EXCEPT ![call[c].request] = @ \cup ({call[c].answer.tx} \ {NoTx})]
  /\ Is(c, [call[c] EXCEPT !.pc = "idle", !.answer = Unanswered, !.day = 0])
  /\ UNCHANGED <<today, stored, claims, spentGwei, expired, lost>>

\* The run dies, or its answer does not reach the client in time.
Lost(c) ==
  /\ call[c].pc # "idle"
  /\ Loses
  /\ Is(c, [call[c] EXCEPT !.pc = "idle", !.answer = Unanswered, !.day = 0])
  /\ UNCHANGED <<today, stored, claims, spentGwei, answered, expired>>

Midnight ==
  /\ today < MaxDays
  /\ today' = today + 1
  /\ UNCHANGED <<stored, claims, spentGwei, call, answered, expired, lost>>

\* A claim is kept for a day at least.
ClaimExpires(k) ==
  /\ Claimed(k) /\ claims[k].day < today
  /\ claims' = [claims EXCEPT ![k].tx = NoTx]
  /\ expired' = expired \cup {k}
  /\ UNCHANGED <<today, stored, spentGwei, call, answered, lost>>

SubmitNext ==
  \/ Midnight \/ (\E k \in Keys : ClaimExpires(k))
  \/ \E c \in Calls :
       \/ \E r \in Requests : Relay(c, r)
       \/ Lookup(c) \/ Check(c) \/ Create(c) \/ Busy(c) \/ Raced(c)
       \/ Reaches(c) \/ Lost(c)

SubmitSpec == SubmitInit /\ [][SubmitNext]_submitVars

(***************************************************************************)
(* Properties                                                              *)
(***************************************************************************)
SubmitTypeOK ==
  /\ today \in Days
  /\ stored \subseteq [id : TxIds, request : Requests, day : Days]
  /\ claims \in [Keys -> [tx : TxIds \cup {NoTx}, day : Days]]
  /\ spentGwei \in [Days -> Nat]
  /\ call \in [Calls -> Call]
  /\ answered \in [Requests -> SUBSET TxIds]
  /\ expired \subseteq Keys
  /\ lost \in 0..MaxLost

\* Until its claim expires a key has at most one transaction, the one that its
\* claim names, however many runs race past the lookup (store.ts:160, "a key
\* never points at a tx that was not stored").
ClaimNamesTx ==
  \A k \in Keys \ expired :
    /\ \A t \in stored : KeyOf[t.request] = k => claims[k].tx = t.id
    /\ claims[k].tx # NoTx => \E t \in stored : t.id = claims[k].tx /\ KeyOf[t.request] = k

\* Until then a client is answered with one transaction, its own: "a caller that
\* timed out can call again safely" (client.ts:39).
SameAnswer ==
  \A r \in Requests : KeyOf[r] \notin expired =>
    \A a, b \in answered[r] : a = b /\ \E t \in stored : t.id = a /\ t.request = r

\* Both: a request is safe to send again.
OneTxPerKey == ClaimNamesTx /\ SameAnswer

\* The transactions of a day can cost no more than the cap in wei, although the
\* day's row counts in gwei (policy.ts:125-138).
SpendWithinCap ==
  \A d \in Days :
    MapThenSumSet(LAMBDA t : CostWei[t.request], {t \in stored : t.day = d}) <= CapWei
=============================================================================
