----------------------------- MODULE ChainReader -----------------------------
(***************************************************************************)
(* How the monitor's durable scan reads the logs of a range:               *)
(* getLogsWithHead walks the configured URLs, tries each twice, and reads  *)
(* a node's head together with its logs; readFinalRange then decides       *)
(* whether the logs are the whole range.  Some nodes answer a range past   *)
(* their head with fewer logs instead of an error.                         *)
(*                                                                         *)
(* A URL leads to one node or to a pool of them.  The entries of a batch   *)
(* are served in any order, in a pool each by any of its nodes.  Nodes     *)
(* move on while a request is under way.                                   *)
(***************************************************************************)
EXTENDS Integers, FiniteSets

CONSTANTS
  Urls,        \* how many RPC URLs are configured
  Pooled,      \* those that lead to a pool of nodes
  LastBlock    \* bound: the nodes' blocks

ASSUME ReaderAssumption ==
  /\ Urls \in Nat \ {0} /\ LastBlock \in Nat
  /\ Pooled \subseteq 1..Urls

Nodes(u) == IF u \in Pooled THEN 1..2 ELSE {1}
Unread == -1

Request == [pc : {"idle", "ask", "batch"},
            to : 0..LastBlock, url : 1..Urls + 1, attempt : {1, 2},
            before : {Unread} \cup 0..LastBlock,   \* headBefore
            head : {Unread} \cup 0..LastBlock,     \* the batched head
            logs : {Unread} \cup 0..LastBlock,     \* the head of the node that served the logs
            refused : SUBSET {"range", "method"},  \* rpcErrors, by what they are about
            transport : BOOLEAN, nohead : BOOLEAN]

Quiet == [pc |-> "idle", to |-> 0, url |-> 1, attempt |-> 1, before |-> Unread,
          head |-> Unread, logs |-> Unread, refused |-> {}, transport |-> FALSE, nohead |-> FALSE]

Verdicts == {"none", "logs", "lagging", "halve", "refused", "transport", "nohead", "stopped"}

VARIABLES
  nodeHead,   \* [URL -> [node -> its head]]
  knownHeads, \* [URL -> the highest head it answered in this invocation]
  request,
  answer,     \* [what : what the durable scan makes of the last request,
              \*  url : where it ended, whole : were its logs the whole range's?]
  tried,      \* history: URLs asked for this range
  blamed      \* history: URLs that refused this range

readerVars == <<nodeHead, knownHeads, request, answer, tried, blamed>>

NoAnswer == [what |-> "none", url |-> 1, whole |-> FALSE]

Remembered == [u \in 1..Urls |-> Unread]

ReaderInit ==
  /\ nodeHead = [u \in 1..Urls |-> [n \in {1, 2} |-> 0]]
  /\ knownHeads = Remembered
  /\ request = Quiet
  /\ answer = NoAnswer
  /\ tried = {} /\ blamed = {}

\* resetRememberedHeads
Reset == Remembered

NodeMoves(u, n) ==
  /\ n \in Nodes(u) /\ nodeHead[u][n] < LastBlock
  /\ nodeHead' = [nodeHead EXCEPT ![u][n] = @ + 1]
  /\ UNCHANGED <<knownHeads, request, answer, tried, blamed>>

\* Between two invocations another node may come up behind a URL; a warm
\* reader forgets what it knew (handler.ts).
NextInvocation ==
  /\ request.pc = "idle"
  /\ knownHeads' = Reset
  /\ \E u \in 1..Urls : nodeHead' = [nodeHead EXCEPT ![u] = [n \in {1, 2} |-> 0]]
  /\ answer' = NoAnswer
  /\ tried' = {} /\ blamed' = {}
  /\ UNCHANGED request

Ask(to) ==
  /\ request.pc = "idle"
  /\ request' = [Quiet EXCEPT !.pc = "ask", !.to = to]
  /\ tried' = {} /\ blamed' = {}
  /\ answer' = NoAnswer
  /\ UNCHANGED <<nodeHead, knownHeads>>

Ends(what, whole) ==
  /\ answer' = [what |-> what, url |-> request.url, whole |-> whole]
  /\ request' = Quiet

Higher(a, b) == IF a >= b THEN a ELSE b

\* Mutant: any error of a node makes the range halve.
CauseAnyError(r) == IF r.refused # {} \/ r.nohead THEN "halve" ELSE "transport"

\* The error that getLogsWithHead throws, and what the scan makes of it.
Cause(r) == IF "range" \in r.refused THEN "halve"
            ELSE IF r.refused # {} THEN "refused"
            ELSE IF r.transport THEN "transport" ELSE "nohead"

\* On to the next URL, or to the end of the list.
NextUrl(r) ==
  IF r.url < Urls
  THEN /\ request' = [r EXCEPT !.pc = "ask", !.url = @ + 1, !.attempt = 1,
                               !.before = Unread, !.head = Unread, !.logs = Unread]
       /\ UNCHANGED answer
  ELSE Ends(Cause(r), FALSE)

\* A transport error is tried once more at the same URL.
TryAgain(r) ==
  IF r.attempt = 1
  THEN /\ request' = [r EXCEPT !.pc = "ask", !.attempt = 2,
                               !.before = Unread, !.head = Unread, !.logs = Unread]
       /\ UNCHANGED answer
  ELSE NextUrl(r)

\* A known head at or past the range spares the request for one.
KnownHead ==
  /\ request.pc = "ask" /\ knownHeads[request.url] >= request.to
  /\ request' = [request EXCEPT !.pc = "batch", !.before = knownHeads[request.url]]
  /\ tried' = tried \cup {request.url}
  /\ UNCHANGED <<nodeHead, knownHeads, answer, blamed>>

ReadHeadBefore ==
  /\ request.pc = "ask" /\ knownHeads[request.url] < request.to
  /\ \E n \in Nodes(request.url) :
       LET h == nodeHead[request.url][n]
       IN /\ request' = [request EXCEPT !.pc = "batch", !.before = h]
          /\ knownHeads' = [knownHeads EXCEPT ![request.url] = Higher(@, h)]
  /\ tried' = tried \cup {request.url}
  /\ UNCHANGED <<nodeHead, answer, blamed>>

HeadBeforeFails ==
  /\ request.pc = "ask" /\ knownHeads[request.url] < request.to
  /\ \/ TryAgain([request EXCEPT !.transport = TRUE])
     \/ NextUrl([request EXCEPT !.nohead = TRUE])
  /\ tried' = tried \cup {request.url}
  /\ UNCHANGED <<nodeHead, knownHeads, blamed>>

\* The batch is one HTTP request, yet nothing binds its entries to a node or an order.
ServeHead ==
  /\ request.pc = "batch" /\ request.head = Unread
  /\ \E n \in Nodes(request.url) :
       request' = [request EXCEPT !.head = nodeHead[request.url][n]]
  /\ UNCHANGED <<nodeHead, knownHeads, answer, tried, blamed>>

ServeLogs ==
  /\ request.pc = "batch" /\ request.logs = Unread
  /\ \E n \in Nodes(request.url) :
       request' = [request EXCEPT !.logs = nodeHead[request.url][n]]
  /\ UNCHANGED <<nodeHead, knownHeads, answer, tried, blamed>>

BatchFails ==
  /\ request.pc = "batch"
  /\ \/ TryAgain([request EXCEPT !.transport = TRUE]) /\ UNCHANGED blamed
     \/ NextUrl([request EXCEPT !.nohead = TRUE]) /\ UNCHANGED blamed
     \/ NextUrl([request EXCEPT !.refused = @ \cup {"method"}]) /\ UNCHANGED blamed
     \/ NextUrl([request EXCEPT !.refused = @ \cup {"range"}])
          /\ blamed' = blamed \cup {request.url}
  /\ UNCHANGED <<nodeHead, knownHeads, tried>>

\* Mutant: the head of the batch alone.
PastRangeBatched(r) == r.head >= r.to

PastRange(r) == r.head >= r.to /\ r.before >= r.to

\* readFinalRange takes the logs, or ends the scan as behind a lagging node.
BatchServed ==
  /\ request.pc = "batch" /\ request.head # Unread /\ request.logs # Unread
  /\ knownHeads' = [knownHeads EXCEPT ![request.url] = Higher(@, request.head)]
  /\ IF PastRange(request) THEN Ends("logs", request.logs >= request.to)
                           ELSE Ends("lagging", FALSE)
  /\ UNCHANGED <<nodeHead, tried, blamed>>

\* The deadline or the hard stop.
Stopped ==
  /\ request.pc # "idle"
  /\ Ends("stopped", FALSE)
  /\ UNCHANGED <<nodeHead, knownHeads, tried, blamed>>

ReaderNext ==
  \/ NextInvocation
  \/ \E u \in 1..Urls, n \in {1, 2} : NodeMoves(u, n)
  \/ \E to \in 0..LastBlock : Ask(to)
  \/ KnownHead \/ ReadHeadBefore \/ HeadBeforeFails
  \/ ServeHead \/ ServeLogs \/ BatchFails \/ BatchServed \/ Stopped

ReaderSpec == ReaderInit /\ [][ReaderNext]_readerVars

ReaderTypeOK ==
  /\ nodeHead \in [1..Urls -> [{1, 2} -> 0..LastBlock]]
  /\ knownHeads \in [1..Urls -> {Unread} \cup 0..LastBlock]
  /\ request \in Request
  /\ answer \in [what : Verdicts, url : 1..Urls, whole : BOOLEAN]
  /\ tried \subseteq 1..Urls /\ blamed \subseteq 1..Urls

\* Logs the durable scan takes from a URL that leads to one node are those of the
\* whole range, whether that node served them before or after the head of their
\* batch, and although a remembered head stands in for a new one (cycle.ts:311-313,
\* chain.ts:276-290).  Of a pool it does not hold: a node of it that is ahead may
\* answer both heads, and one that lags the logs.
WholeRange == answer.what = "logs" /\ answer.url \notin Pooled => answer.whole

\* A range is given up only once every URL was asked for it, and it is halved
\* just if one of them refused the range itself: a node that cannot tell its
\* head must not make the scan smaller (chain.ts:283, 314-316).
GivenUpForCause ==
  answer.what \in {"halve", "refused", "transport", "nohead"}
    => tried = 1..Urls /\ (answer.what = "halve" <=> blamed # {})
=============================================================================
