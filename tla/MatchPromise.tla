---------------------------- MODULE MatchPromise ---------------------------
(***************************************************************************)
(* What the monitor promises whoever acts on its matches: the statuses     *)
(* that it reports of each, against what the chain has settled.  A match   *)
(* is provisional at most once and only to begin with, a provisional one   *)
(* may be given up, and final is said of what is settled and of nothing    *)
(* else, also of a match that was given up, and is never taken back.       *)
(***************************************************************************)
CONSTANT Matches

VARIABLES
  report,    \* [Matches -> {"none", "provisional", "final", "dropped"}]
  settled    \* the matches that are in finalized blocks of the chain

vars == <<report, settled>>

Init ==
  /\ report = [m \in Matches |-> "none"]
  /\ settled = {}

Report(m, from, to) ==
  /\ report[m] \in from
  /\ report' = [report EXCEPT ![m] = to]
  /\ UNCHANGED settled

Provisional(m) == Report(m, {"none"}, "provisional")
Drop(m) == Report(m, {"provisional"}, "dropped")
Final(m) == m \in settled /\ Report(m, {"none", "provisional", "dropped"}, "final")

\* The chain goes on, and what it has settled stays.
Settle ==
  /\ settled' \in SUBSET Matches /\ settled \subseteq settled'
  /\ UNCHANGED report

Next ==
  \/ Settle
  \/ \E m \in Matches : Provisional(m) \/ Drop(m) \/ Final(m)

Spec == Init /\ [][Next]_vars
=============================================================================
