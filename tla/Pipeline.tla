------------------------------ MODULE Pipeline -----------------------------
(***************************************************************************)
(* From a log on one chain to a transaction on another: a rule whose       *)
(* action is a relay.  The three services appear as what they promise      *)
(* each other, which each of them implements: the monitor writes the       *)
(* statuses of MatchPromise, the dispatcher reads them from the table's    *)
(* stream and plans deliveries, which keep the promise of Outbox, and the  *)
(* relayer, as their destination, keeps TxPromise.  Here are the steps by  *)
(* which they act on each other.                                           *)
(***************************************************************************)
EXTENDS Naturals, FiniteSets

CONSTANTS
  MatchIds,
  Finalized,    \* matches of rules that never have the confirmation mode "fast"
  NoDelivery,
  MaxPlanned,   \* bound: deliveries that are planned
  MaxRelayTxs   \* bound: transactions of all deliveries

Events == {"provisional", "final", "dropped"}
Deliveries == MatchIds \X Events   \* of the rule's one action
RelayTxs == 1 .. MaxRelayTxs

ASSUME PipelineAssumption ==
  /\ Finalized \subseteq MatchIds /\ NoDelivery \notin Deliveries
  /\ MaxPlanned \in Nat /\ MaxRelayTxs \in Nat

VARIABLES
  report, settled,     \* MatchPromise
  streamed,            \* changes of status that are in the stream, or were
  state, received,     \* Outbox
  made,                \* [RelayTxs -> the delivery it was made for, or NoDelivery]
  claimed,             \* deliveries whose idempotency key is claimed
  forgotten,           \* history: deliveries whose claim has expired
  status, executed     \* TxPromise

pipelineVars == <<report, settled, streamed, state, received, made, claimed, forgotten, status, executed>>

MonitorDoes == INSTANCE MatchPromise WITH Matches <- MatchIds
ActionsDo == INSTANCE Outbox WITH accepted <- received
RelayerDoes == INSTANCE TxPromise WITH Payloads <- RelayTxs

PipelineInit ==
  /\ MonitorDoes!Init /\ ActionsDo!Init /\ RelayerDoes!Init
  /\ streamed = {}
  /\ made = [t \in RelayTxs |-> NoDelivery]
  /\ claimed = {} /\ forgotten = {}

\* The monitor writes a row, and the stream gets a record of it; or the chain goes on.
Rewritten == {m \in MatchIds : report'[m] # report[m]}

Watch ==
  /\ MonitorDoes!Next
  /\ streamed' = streamed \cup {<<m, report'[m]>> : m \in Rewritten}
  /\ UNCHANGED <<state, received, made, claimed, forgotten, status, executed>>

Planned == {d \in Deliveries : state[d] # "none"}

\* Mutant: every event is planned for every rule.
PlanEvery(d) ==
  /\ d \in streamed /\ Cardinality(Planned) < MaxPlanned
  /\ ActionsDo!Create(d)
  /\ UNCHANGED <<report, settled, streamed, made, claimed, forgotten, status, executed>>

\* The dispatcher reads a record, however late and for the first time or again, and
\* plans what is for a fast rule only if the rule is one.
plan(d) ==
  /\ d \in streamed /\ Cardinality(Planned) < MaxPlanned
  /\ d[2] = "final" \/ d[1] \notin Finalized
  /\ ActionsDo!Create(d)
  /\ UNCHANGED <<report, settled, streamed, made, claimed, forgotten, status, executed>>

\* A sender records how a delivery ended, or an operator redrives it.
Record(d) ==
  /\ ActionsDo!Deliver(d) \/ ActionsDo!Die(d) \/ ActionsDo!Redrive(d)
  /\ UNCHANGED <<report, settled, streamed, made, claimed, forgotten, status, executed>>

Unused == {t \in RelayTxs : made[t] = NoDelivery}

\* Mutant: a transaction for every call.
SendRelayUnclaimed(d, t) ==
  /\ ActionsDo!Accept(d)
  /\ t \in Unused /\ \A other \in Unused : t <= other
  /\ RelayerDoes!Accept(t)
  /\ made' = [made EXCEPT ![t] = d]
  /\ claimed' = claimed \cup {d}
  /\ UNCHANGED <<report, settled, streamed, forgotten>>

\* A sender's call gets through, also one that lost its claim of the delivery by now,
\* and no transaction holds the delivery's key.
SendRelay(d, t) ==
  /\ d \notin claimed
  /\ ActionsDo!Accept(d)
  /\ t \in Unused /\ \A other \in Unused : t <= other
  /\ RelayerDoes!Accept(t)
  /\ made' = [made EXCEPT ![t] = d]
  /\ claimed' = claimed \cup {d}
  /\ UNCHANGED <<report, settled, streamed, forgotten>>

KeyExpires(d) ==
  /\ d \in claimed
  /\ claimed' = claimed \ {d}
  /\ forgotten' = forgotten \cup {d}
  /\ UNCHANGED <<report, settled, streamed, state, received, made, status, executed>>

\* The relayer goes on with what it accepted, on a chain that may take it back.
Send ==
  /\ \/ \E t \in RelayTxs :
          \/ RelayerDoes!Sent(t) \/ RelayerDoes!SeenMined(t) \/ RelayerDoes!SeenReorged(t)
          \/ RelayerDoes!Confirm(t) \/ RelayerDoes!Fail(t) \/ RelayerDoes!Execute(t)
     \/ RelayerDoes!Undo
  /\ UNCHANGED <<report, settled, streamed, state, received, made, claimed, forgotten>>

PipelineNext ==
  \/ Watch \/ Send
  \/ \E d \in Deliveries : plan(d) \/ Record(d) \/ KeyExpires(d) \/ (\E t \in RelayTxs : SendRelay(d, t))

PipelineSpec == PipelineInit /\ [][PipelineNext]_pipelineVars

(***************************************************************************)
(* Properties                                                              *)
(***************************************************************************)
\* What is done on a chain for a match, or reported as done, is done for one that is
\* settled, unless its rule is fast: no transaction answers a log that a reorg takes
\* back (dispatcher.ts:92, "a finalised rule only hears the final record").
ActsOnSettled ==
  \A m \in Finalized : m \notin settled =>
    /\ \A t \in executed : made[t] \in Deliveries /\ made[t][1] # m
    /\ \A e \in Events : state[<<m, e>>] = "none"

\* A finalized match has its action executed once at most, however often the stream,
\* the queue, a sender or an operator repeats it, while the relayer remembers its key
\* (relay.ts:56, "one key per delivery").
ActsOnce ==
  \A m \in Finalized : <<m, "final">> \notin forgotten =>
    \A s, t \in executed : made[s][1] = m /\ made[t][1] = m => s = t
=============================================================================
