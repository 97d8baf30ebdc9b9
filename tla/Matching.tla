------------------------------- MODULE Matching ------------------------------
(***************************************************************************)
(* From the logs of a range to keyed matches.  A provider returns the logs *)
(* of the blocks in any order, some of them twice, and, when a range was   *)
(* read in several requests over a reorganisation, one transaction in two  *)
(* blocks. The key of a match is its transaction, its rule and its place   *)
(* among the transaction's matches, and must come out the same in every    *)
(* scan.                                                                   *)
(***************************************************************************)
EXTENDS Integers, FiniteSets, SequencesExt

CONSTANTS
  Logs,       \* [block, number, index, tx, topic0, address]; `block` is a hash
  RuleSet,    \* [id, topic0, addresses, accepts], `accepts` the logs that decode
              \* and meet the conditions
  MaxLogs     \* bound: logs in an answer

ASSUME MatchingAssumption ==
  /\ \A l \in Logs : l.number \in Nat /\ l.index \in Nat
  /\ \A l, m \in Logs : l.block = m.block /\ l.index = m.index => l = m
  /\ \A r, s \in RuleSet : r.id = s.id => r = s
  /\ MaxLogs \in Nat

VARIABLES
  response, \* the logs of a range as the provider returns them
  keyed     \* history: [key, log] of every scan

matchingVars == <<response, keyed>>

MatchingInit == response = << >> /\ keyed = {}

\* The first of each (block, index).
dedupeLogs(logs) ==
  LET first == {i \in DOMAIN logs :
                  \A j \in 1 .. i - 1 : ~(logs[j].block = logs[i].block /\ logs[j].index = logs[i].index)}
      at(n) == CHOOSE i \in first : Cardinality({j \in first : j < i}) = n - 1
  IN [n \in 1 .. Cardinality(first) |-> logs[at(n)]]

\* What one log matches.
matchLog(log) ==
  {r \in RuleSet : r.topic0 = log.topic0 /\ log.address \in r.addresses /\ log \in r.accepts}

Matched(logs) == {[at |-> i, rule |-> r, log |-> logs[i]] : i \in DOMAIN logs, r \in RuleSet}
Matches(logs) == {m \in Matched(logs) : m.rule \in matchLog(m.log)}

\* By block number and log index; the sort is stable.
SortsBefore(m, n) ==
  \/ m.log.number < n.log.number
  \/ m.log.number = n.log.number /\ m.log.index < n.log.index
  \/ m.log.number = n.log.number /\ m.log.index = n.log.index /\ m.at < n.at

\* Mutant: a transaction's matches are one group whichever block they are from.
SameTx(m, n) == m.log.tx = n.log.tx /\ m.rule = n.rule

SameGroup(m, n) ==
  m.log.block = n.log.block /\ m.log.tx = n.log.tx /\ m.rule = n.rule

assignOrdinals(matches) ==
  {[key |-> [tx |-> m.log.tx, rule |-> m.rule.id,
             ordinal |-> Cardinality({n \in matches : SortsBefore(n, m) /\ SameGroup(n, m)})],
    log |-> m.log] : m \in matches}

Keyed(logs) == assignOrdinals(Matches(dedupeLogs(logs)))

ProviderReturns(log) ==
  /\ Len(response) < MaxLogs
  /\ response' = Append(response, log)
  /\ UNCHANGED keyed

\* Whole blocks: a range never ends within one.
Complete(logs) == \A l \in Logs : l \in ToSet(logs) \/ \A m \in ToSet(logs) : m.block # l.block

\* The scan keys what it read and writes it; another reads the range anew.
Scan ==
  /\ response # << >> /\ Complete(response)
  /\ keyed' = keyed \cup Keyed(response)
  /\ response' = << >>

MatchingNext == Scan \/ \E log \in Logs : ProviderReturns(log)

MatchingSpec == MatchingInit /\ [][MatchingNext]_matchingVars

MatchingTypeOK ==
  /\ response \in Seq(Logs)
  /\ \A k \in keyed : k.log \in Logs /\ k.key.ordinal \in Nat

\* A log has one key for each rule it matches, in every scan; and in one block a
\* key has one log.  Else a final match would not find its provisional row, or
\* two matches would share one (match.ts:10-11, 34).
KeysStable ==
  \A k, n \in keyed :
    /\ k.log = n.log /\ k.key.rule = n.key.rule => k.key = n.key
    /\ k.key = n.key /\ k.log.block = n.log.block => k.log = n.log
=============================================================================
