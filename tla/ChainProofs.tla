----------------------------- MODULE ChainProofs -----------------------------
(***************************************************************************)
(* Proofs about ChainReader, Matching and Vault: what a range read of the  *)
(* logs rests on, for every number of URLs, every set of pools among them  *)
(* and every height of the chain; that what is read is keyed alike in      *)
(* every scan; and how far apart the top-ups of an account are.            *)
(***************************************************************************)
EXTENDS ChainReader, Matching, Vault, FiniteSetTheorems, FunctionTheorems, SequenceTheorems,
        WellFoundedInduction, TLAPS

(***************************************************************************)
(* The log reader                                                          *)
(***************************************************************************)

Heads == {Unread} \cup 0..LastBlock

\* Where a request is in the list of URLs, and what the history says of it.
AsksInOrder(r, asked, refusals) ==
  r.pc # "idle" =>
    /\ r.url \in 1..Urls
    /\ 1 .. r.url - 1 \subseteq asked
    /\ r.pc = "batch" \/ r.attempt = 2 => r.url \in asked
    /\ refusals # {} <=> "range" \in r.refused
    /\ r.pc = "ask" => r.head = Unread /\ r.logs = Unread

\* At a single node the head read before bounds the logs, and it has reached the
\* head of the batch.
LogsBounded(r, heads) ==
  r.pc = "batch" /\ r.url \notin Pooled =>
    /\ r.head <= heads[r.url][1]
    /\ r.before <= heads[r.url][1]
    /\ r.logs # Unread => r.before <= r.logs

\* A remembered head of a single node is one it has had.
KnownIsPast == \A u \in 1..Urls \ Pooled : knownHeads[u] <= nodeHead[u][1]

\* A request under way has no answer yet.
AnswerOpen == request.pc # "idle" => answer.what = "none"

ReaderInv ==
  /\ ReaderTypeOK /\ AnswerOpen /\ KnownIsPast
  /\ AsksInOrder(request, tried, blamed) /\ LogsBounded(request, nodeHead)
  /\ WholeRange /\ GivenUpForCause

LEMMA QuietType == Quiet \in Request /\ Quiet.pc = "idle"
BY ReaderAssumption DEF Quiet, Request, Unread

LEMMA HeadType ==
  ASSUME ReaderInv, NEW u \in 1..Urls, NEW n \in {1, 2}
  PROVE  nodeHead[u][n] \in 0..LastBlock /\ nodeHead[u][n] \in Heads
BY DEF ReaderInv, ReaderTypeOK, Heads

LEMMA NodeType == ASSUME NEW u PROVE Nodes(u) \subseteq {1, 2} /\ (u \notin Pooled => Nodes(u) = {1})
BY DEF Nodes

LEMMA NoAnswerType ==
  /\ NoAnswer \in [what : Verdicts, url : 1..Urls, whole : BOOLEAN]
  /\ NoAnswer.what = "none"
BY ReaderAssumption DEF NoAnswer, Verdicts

LEMMA HigherType ==
  ASSUME NEW a \in Heads, NEW b \in Heads
  PROVE  /\ Higher(a, b) \in Heads
         /\ \A c \in Int : a <= c /\ b <= c => Higher(a, b) <= c
BY DEF Higher, Heads, Unread

\* A request that ends leaves nothing to keep but its answer.
LEMMA EndStep ==
  ASSUME ReaderInv, request.pc # "idle", NEW what \in Verdicts, NEW whole \in BOOLEAN,
         Ends(what, whole),
         UNCHANGED nodeHead, knownHeads' \in [1..Urls -> Heads], KnownIsPast',
         tried' \subseteq 1..Urls, blamed' \subseteq 1..Urls,
         what = "logs" /\ request.url \notin Pooled => whole,
         what \in {"halve", "refused", "transport", "nohead"}
           => tried' = 1..Urls /\ (what = "halve" <=> blamed' # {})
  PROVE  ReaderInv'
<1>1. /\ request' = Quiet /\ answer' = [what |-> what, url |-> request.url, whole |-> whole]
      /\ request.url \in 1..Urls
  BY DEF Ends, ReaderInv, AsksInOrder
<1>2. ReaderTypeOK'
  BY <1>1, QuietType DEF ReaderInv, ReaderTypeOK, Heads
<1>3. AsksInOrder(request', tried', blamed') /\ LogsBounded(request', nodeHead')
  BY <1>1, QuietType DEF AsksInOrder, LogsBounded
<1>4. WholeRange' /\ GivenUpForCause' /\ AnswerOpen'
  BY <1>1, QuietType DEF WholeRange, GivenUpForCause, AnswerOpen
<1> QED
  BY <1>2, <1>3, <1>4 DEF ReaderInv

\* A request that goes on has had no answer yet.
LEMMA AskGoesOn ==
  ASSUME ReaderInv, NEW r \in Request, request' = r, UNCHANGED <<nodeHead, answer>>,
         request.pc # "idle" \/ answer.what = "none", knownHeads' \in [1..Urls -> Heads], KnownIsPast',
         tried' \subseteq 1..Urls, blamed' \subseteq 1..Urls,
         AsksInOrder(r, tried', blamed'), LogsBounded(r, nodeHead')
  PROVE  ReaderInv'
<1>1. ReaderTypeOK'
  BY DEF ReaderInv, ReaderTypeOK, Heads
<1>2. WholeRange' /\ GivenUpForCause' /\ AnswerOpen'
  BY DEF ReaderInv, WholeRange, GivenUpForCause, AnswerOpen
<1> QED
  BY <1>1, <1>2 DEF ReaderInv, AsksInOrder, LogsBounded

\* What every step of a request under way starts from.
LEMMA RequestType ==
  ASSUME ReaderInv, request.pc # "idle"
  PROVE  /\ request \in Request /\ request.url \in 1..Urls
         /\ knownHeads \in [1..Urls -> Heads]
         /\ tried \subseteq 1..Urls /\ blamed \subseteq 1..Urls
         /\ 1 .. request.url - 1 \subseteq tried
BY DEF ReaderInv, ReaderTypeOK, AsksInOrder, Request, Heads

(***************************************************************************)
(* The nodes, and requests that begin and end                              *)
(***************************************************************************)
LEMMA NodeMovesInv ==
  ASSUME ReaderInv, NEW u \in 1..Urls, NEW n \in {1, 2}, NodeMoves(u, n)
  PROVE  ReaderInv'
<1>1. nodeHead[u][n] \in 0..LastBlock /\ nodeHead[u][n] + 1 \in 0..LastBlock
  BY HeadType, ReaderAssumption DEF NodeMoves
<1>2. nodeHead' \in [1..Urls -> [{1, 2} -> 0..LastBlock]]
  BY <1>1 DEF NodeMoves, ReaderInv, ReaderTypeOK
<1>3. \A v \in 1..Urls, m \in {1, 2} : nodeHead[v][m] <= nodeHead'[v][m]
  <2> SUFFICES ASSUME NEW v \in 1..Urls, NEW m \in {1, 2}
               PROVE  nodeHead[v][m] <= nodeHead'[v][m]
    OBVIOUS
  <2>1. nodeHead[v][m] \in Int
    BY HeadType, ReaderAssumption
  <2> QED
    BY <1>1, <2>1 DEF NodeMoves, ReaderInv, ReaderTypeOK
<1>4. UNCHANGED <<knownHeads, request, answer, tried, blamed>>
  BY DEF NodeMoves
<1>5. ReaderTypeOK'
  BY <1>2, <1>4 DEF ReaderInv, ReaderTypeOK
<1>6. \A v \in 1..Urls, m \in {1, 2} : nodeHead[v][m] \in Int /\ nodeHead'[v][m] \in Int
  <2> SUFFICES ASSUME NEW v \in 1..Urls, NEW m \in {1, 2}
               PROVE  nodeHead[v][m] \in Int /\ nodeHead'[v][m] \in Int
    OBVIOUS
  <2>1. nodeHead[v] \in [{1, 2} -> 0..LastBlock] /\ nodeHead'[v] \in [{1, 2} -> 0..LastBlock]
    BY <1>2 DEF ReaderInv, ReaderTypeOK
  <2> QED
    BY <2>1, ReaderAssumption
<1>7. KnownIsPast'
  <2> SUFFICES ASSUME NEW v \in 1..Urls \ Pooled
               PROVE  knownHeads[v] <= nodeHead'[v][1]
    BY <1>4 DEF KnownIsPast
  <2>1. knownHeads[v] \in Int /\ knownHeads[v] <= nodeHead[v][1]
    BY ReaderAssumption, SMTT(60) DEF ReaderInv, ReaderTypeOK, KnownIsPast, Unread
  <2> QED
    BY <2>1, <1>3, <1>6
<1>8. LogsBounded(request', nodeHead')
  <2> SUFFICES ASSUME request.pc = "batch"
               PROVE  LogsBounded(request', nodeHead')
    BY <1>4 DEF LogsBounded
  <2>1. request.url \in 1..Urls /\ 1 \in {1, 2}
        /\ request.head \in Int /\ request.before \in Int
    BY RequestType, ReaderAssumption DEF Request, Unread
  <2>2. LogsBounded(request, nodeHead)
    BY DEF ReaderInv
  <2> QED
    BY <1>3, <1>4, <1>6, <2>1, <2>2 DEF LogsBounded
<1> QED
  BY <1>4, <1>5, <1>7, <1>8 DEF ReaderInv, AsksInOrder, AnswerOpen, WholeRange, GivenUpForCause

LEMMA NextInvocationInv == ASSUME ReaderInv, NextInvocation PROVE ReaderInv'
<1>1. nodeHead' \in [1..Urls -> [{1, 2} -> 0..LastBlock]]
  BY ReaderAssumption DEF NextInvocation, ReaderInv, ReaderTypeOK
<1>2. /\ request' = request /\ request.pc = "idle" /\ knownHeads' = [u \in 1..Urls |-> Unread]
      /\ answer' = NoAnswer /\ tried' = {} /\ blamed' = {}
  BY DEF NextInvocation, Reset, Remembered
<1>3. ReaderTypeOK'
  BY <1>1, <1>2, NoAnswerType DEF ReaderInv, ReaderTypeOK
<1>4. KnownIsPast'
  BY <1>1, <1>2, ReaderAssumption DEF KnownIsPast, Unread
<1> QED
  BY <1>2, <1>3, <1>4, NoAnswerType
  DEF ReaderInv, AsksInOrder, LogsBounded, AnswerOpen, WholeRange, GivenUpForCause

LEMMA AskInv == ASSUME ReaderInv, NEW to \in 0..LastBlock, Ask(to) PROVE ReaderInv'
<1> DEFINE r == [Quiet EXCEPT !.pc = "ask", !.to = to]
<1>1. /\ r \in Request /\ r.pc = "ask" /\ r.url = 1 /\ r.attempt = 1 /\ r.refused = {}
      /\ r.head = Unread /\ r.logs = Unread
  <2>1. Quiet.url = 1 /\ Quiet.attempt = 1 /\ Quiet.refused = {}
        /\ Quiet.head = Unread /\ Quiet.logs = Unread
    BY DEF Quiet
  <2> QED
    BY <2>1, QuietType DEF Request
<1>2. /\ request' = r /\ tried' = {} /\ blamed' = {} /\ UNCHANGED <<nodeHead, knownHeads>>
      /\ answer' = NoAnswer
  BY DEF Ask
<1> HIDE DEF r
<1>3. ReaderTypeOK'
  BY <1>1, <1>2, NoAnswerType DEF ReaderInv, ReaderTypeOK
<1>4. AsksInOrder(request', tried', blamed') /\ LogsBounded(request', nodeHead')
  BY <1>1, <1>2, ReaderAssumption DEF AsksInOrder, LogsBounded
<1> QED
  BY <1>2, <1>3, <1>4, NoAnswerType
  DEF ReaderInv, KnownIsPast, AnswerOpen, WholeRange, GivenUpForCause

LEMMA StoppedInv == ASSUME ReaderInv, Stopped PROVE ReaderInv'
<1>1. request.pc # "idle" /\ Ends("stopped", FALSE) /\ UNCHANGED <<nodeHead, knownHeads, tried, blamed>>
  BY DEF Stopped
<1>2. "stopped" \in Verdicts
  BY DEF Verdicts
<1>3. knownHeads \in [1..Urls -> Heads] /\ KnownIsPast'
      /\ tried' \subseteq 1..Urls /\ blamed' \subseteq 1..Urls
  BY <1>1 DEF ReaderInv, ReaderTypeOK, Heads, KnownIsPast
<1> QED
  BY <1>1, <1>2, <1>3, EndStep

(***************************************************************************)
(* Errors: once more, at the next URL, or given up                         *)
(***************************************************************************)
\* A request as it goes on to another attempt or to another URL.
LEMMA AskedAgain ==
  ASSUME NEW r \in Request, NEW url \in 1..Urls, NEW attempt \in {1, 2}
  PROVE  LET n == [r EXCEPT !.pc = "ask", !.url = url, !.attempt = attempt, !.before = Unread,
                            !.head = Unread, !.logs = Unread]
         IN /\ n \in Request /\ n.pc = "ask" /\ n.url = url /\ n.attempt = attempt
            /\ n.refused = r.refused /\ n.head = Unread /\ n.logs = Unread
<1> DEFINE n == [r EXCEPT !.pc = "ask", !.url = url, !.attempt = attempt, !.before = Unread,
                          !.head = Unread, !.logs = Unread]
<1>1. url \in 1..Urls + 1
  BY ReaderAssumption
<1>2. /\ n \in Request /\ n.pc = "ask" /\ n.url = url /\ n.attempt = attempt
      /\ n.refused = r.refused /\ n.head = Unread /\ n.logs = Unread
  BY <1>1 DEF Request
<1> QED
  BY <1>2

LEMMA NextUrlStep ==
  ASSUME ReaderInv, request.pc # "idle", NEW r \in Request, r.url = request.url,
         NextUrl(r), UNCHANGED <<nodeHead, knownHeads>>,
         request.url \in tried', tried' \in {tried, tried \cup {request.url}},
         blamed' \subseteq 1..Urls, blamed' # {} <=> "range" \in r.refused
  PROVE  ReaderInv'
<1>1. /\ request.url \in 1..Urls /\ 1 .. request.url \subseteq tried' /\ tried' \subseteq 1..Urls
      /\ knownHeads' \in [1..Urls -> Heads] /\ KnownIsPast'
  <2>1. knownHeads' \in [1..Urls -> Heads] /\ KnownIsPast'
    BY RequestType DEF ReaderInv, KnownIsPast
  <2>2. /\ request.url \in 1..Urls /\ 1 .. request.url - 1 \subseteq tried
        /\ tried \subseteq 1..Urls
    BY RequestType
  <2>3. 1 .. request.url = (1 .. request.url - 1) \cup {request.url}
    BY <2>2, ReaderAssumption
  <2> QED
    BY <2>1, <2>2, <2>3
<1>2. CASE r.url < Urls
  <2> DEFINE n == [r EXCEPT !.pc = "ask", !.url = r.url + 1, !.attempt = 1, !.before = Unread,
                            !.head = Unread, !.logs = Unread]
  <2>1. request' = n /\ UNCHANGED answer
    BY <1>2 DEF NextUrl
  <2>2. r.url + 1 \in 1..Urls /\ r.url + 1 - 1 = r.url
    BY <1>1, <1>2, ReaderAssumption
  <2>3. /\ n \in Request /\ n.pc = "ask" /\ n.url = r.url + 1 /\ n.attempt = 1
        /\ n.refused = r.refused /\ n.head = Unread /\ n.logs = Unread
    BY <2>2, AskedAgain, ZenonT(60)
  <2> HIDE DEF n
  <2>4. AsksInOrder(n, tried', blamed') /\ LogsBounded(n, nodeHead')
    BY <1>1, <2>2, <2>3 DEF AsksInOrder, LogsBounded
  <2> QED
    BY <1>1, <2>1, <2>3, <2>4, AskGoesOn
<1>3. CASE ~(r.url < Urls)
  <2>1. Ends(Cause(r), FALSE)
    BY <1>3 DEF NextUrl
  <2>2. tried' = 1..Urls
    <3>1. request.url = Urls
      BY <1>1, <1>3, ReaderAssumption
    <3> QED
      BY <1>1, <3>1
  <2>3. Cause(r) \in Verdicts /\ Cause(r) # "logs" /\ (Cause(r) = "halve" <=> blamed' # {})
    BY DEF Cause, Verdicts
  <2> QED
    BY <1>1, <2>1, <2>2, <2>3, EndStep
<1> QED
  BY <1>2, <1>3

Again(r) == [r EXCEPT !.pc = "ask", !.attempt = 2, !.before = Unread, !.head = Unread,
                      !.logs = Unread]

LEMMA AgainType ==
  ASSUME NEW r \in Request
  PROVE  /\ Again(r) \in Request /\ Again(r).pc = "ask" /\ Again(r).url = r.url
         /\ Again(r).attempt = 2 /\ Again(r).refused = r.refused
         /\ Again(r).head = Unread /\ Again(r).logs = Unread
BY DEF Again, Request

LEMMA TryAgainStep ==
  ASSUME ReaderInv, request.pc # "idle", NEW r \in Request, r.url = request.url,
         r.attempt = request.attempt, r.refused = request.refused,
         TryAgain(r), UNCHANGED <<nodeHead, knownHeads, blamed>>,
         request.url \in tried', tried' \in {tried, tried \cup {request.url}}
  PROVE  ReaderInv'
<1>1. /\ request.url \in 1..Urls /\ tried' \subseteq 1..Urls /\ blamed' \subseteq 1..Urls
      /\ 1 .. request.url - 1 \subseteq tried' /\ knownHeads' \in [1..Urls -> Heads]
      /\ KnownIsPast'
  BY RequestType DEF ReaderInv, KnownIsPast
<1>2. blamed' # {} <=> "range" \in r.refused
  BY DEF ReaderInv, AsksInOrder
<1>3. CASE r.attempt = 1
  <2> DEFINE n == Again(r)
  <2>1. request' = n /\ UNCHANGED answer
    BY <1>3 DEF TryAgain, Again
  <2>2. /\ n \in Request /\ n.pc = "ask" /\ n.url = r.url /\ n.attempt = 2
        /\ n.refused = r.refused /\ n.head = Unread /\ n.logs = Unread
    BY AgainType
  <2> HIDE DEF n
  <2>3. AsksInOrder(n, tried', blamed') /\ LogsBounded(n, nodeHead')
    BY <1>1, <1>2, <2>2 DEF AsksInOrder, LogsBounded
  <2> QED
    BY <1>1, <2>1, <2>2, <2>3, AskGoesOn
<1>4. CASE r.attempt # 1
  <2>1. NextUrl(r)
    BY <1>4 DEF TryAgain
  <2> QED
    BY <1>1, <1>2, <2>1, NextUrlStep
<1> QED
  BY <1>3, <1>4

LEMMA WithFlags ==
  ASSUME ReaderInv, request.pc # "idle", NEW S \in SUBSET {"range", "method"}
  PROVE  /\ [request EXCEPT !.transport = TRUE] \in Request
         /\ [request EXCEPT !.nohead = TRUE] \in Request
         /\ [request EXCEPT !.refused = @ \cup S] \in Request
BY RequestType DEF Request

LEMMA HeadBeforeFailsInv == ASSUME ReaderInv, HeadBeforeFails PROVE ReaderInv'
<1>1. request.pc = "ask" /\ tried' = tried \cup {request.url}
      /\ UNCHANGED <<nodeHead, knownHeads, blamed>>
  BY DEF HeadBeforeFails
<1>2. CASE TryAgain([request EXCEPT !.transport = TRUE])
  <2> DEFINE r == [request EXCEPT !.transport = TRUE]
  <2>1. r \in Request /\ r.url = request.url /\ r.attempt = request.attempt
        /\ r.refused = request.refused
    BY <1>1, WithFlags, RequestType DEF Request
  <2>2. TryAgain(r)
    BY <1>2
  <2> HIDE DEF r
  <2> QED
    BY <1>1, <2>1, <2>2, TryAgainStep
<1>3. CASE NextUrl([request EXCEPT !.nohead = TRUE])
  <2> DEFINE r == [request EXCEPT !.nohead = TRUE]
  <2>1. r \in Request /\ r.url = request.url /\ r.refused = request.refused
    BY <1>1, WithFlags, RequestType DEF Request
  <2>2. NextUrl(r)
    BY <1>3
  <2>3. blamed' \subseteq 1..Urls /\ (blamed' # {} <=> "range" \in r.refused)
    BY <1>1, <2>1, RequestType DEF ReaderInv, AsksInOrder
  <2> HIDE DEF r
  <2> QED
    BY <1>1, <2>1, <2>2, <2>3, NextUrlStep
<1> QED
  BY <1>2, <1>3 DEF HeadBeforeFails

LEMMA BatchFailsInv == ASSUME ReaderInv, BatchFails PROVE ReaderInv'
<1>1. request.pc = "batch" /\ UNCHANGED <<nodeHead, knownHeads, tried>>
  BY DEF BatchFails
<1>2. /\ request \in Request /\ request.url \in 1..Urls /\ request.url \in tried
      /\ blamed \subseteq 1..Urls /\ (blamed # {} <=> "range" \in request.refused)
  BY <1>1, RequestType DEF ReaderInv, AsksInOrder
<1>3. CASE TryAgain([request EXCEPT !.transport = TRUE]) /\ UNCHANGED blamed
  <2> DEFINE r == [request EXCEPT !.transport = TRUE]
  <2>1. r \in Request /\ r.url = request.url /\ r.attempt = request.attempt
        /\ r.refused = request.refused
    BY <1>1, <1>2, WithFlags DEF Request
  <2>2. TryAgain(r) /\ UNCHANGED blamed
    BY <1>3
  <2> HIDE DEF r
  <2> QED
    BY <1>1, <1>2, <2>1, <2>2, TryAgainStep
<1>4. CASE NextUrl([request EXCEPT !.nohead = TRUE]) /\ UNCHANGED blamed
  <2> DEFINE r == [request EXCEPT !.nohead = TRUE]
  <2>1. r \in Request /\ r.url = request.url /\ r.refused = request.refused
    BY <1>1, <1>2, WithFlags DEF Request
  <2>2. NextUrl(r) /\ UNCHANGED blamed
    BY <1>4
  <2> HIDE DEF r
  <2> QED
    BY <1>1, <1>2, <2>1, <2>2, NextUrlStep
<1>5. CASE NextUrl([request EXCEPT !.refused = @ \cup {"method"}]) /\ UNCHANGED blamed
  <2> DEFINE r == [request EXCEPT !.refused = @ \cup {"method"}]
  <2>1. r \in Request /\ r.url = request.url /\ r.refused = request.refused \cup {"method"}
    BY <1>1, <1>2, WithFlags DEF Request
  <2>2. NextUrl(r) /\ UNCHANGED blamed
    BY <1>5
  <2> HIDE DEF r
  <2> QED
    BY <1>1, <1>2, <2>1, <2>2, NextUrlStep
<1>6. CASE NextUrl([request EXCEPT !.refused = @ \cup {"range"}])
             /\ blamed' = blamed \cup {request.url}
  <2> DEFINE r == [request EXCEPT !.refused = @ \cup {"range"}]
  <2>1. r \in Request /\ r.url = request.url /\ r.refused = request.refused \cup {"range"}
    BY <1>1, <1>2, WithFlags DEF Request
  <2>2. NextUrl(r) /\ blamed' \subseteq 1..Urls /\ blamed' # {}
    BY <1>2, <1>6
  <2> HIDE DEF r
  <2> QED
    BY <1>1, <1>2, <2>1, <2>2, NextUrlStep
<1> QED
  BY <1>3, <1>4, <1>5, <1>6 DEF BatchFails

(***************************************************************************)
(* The batch                                                               *)
(***************************************************************************)
\* Before the batch: the head read or remembered bounds it.
LEMMA BatchBegins ==
  ASSUME ReaderInv, request.pc = "ask", NEW h \in 0..LastBlock,
         request.url \notin Pooled => h <= nodeHead[request.url][1],
         request' = [request EXCEPT !.pc = "batch", !.before = h],
         knownHeads' \in [1..Urls -> Heads], KnownIsPast',
         tried' = tried \cup {request.url}, UNCHANGED <<nodeHead, answer, blamed>>
  PROVE  ReaderInv'
<1> DEFINE r == [request EXCEPT !.pc = "batch", !.before = h]
<1>1. /\ request \in Request /\ request.url \in 1..Urls
      /\ tried \subseteq 1..Urls /\ blamed \subseteq 1..Urls
      /\ request.head = Unread /\ request.logs = Unread
  BY RequestType DEF ReaderInv, AsksInOrder
<1>2. /\ r \in Request /\ r.pc = "batch" /\ r.url = request.url /\ r.before = h
      /\ r.head = Unread /\ r.logs = Unread /\ r.refused = request.refused
  BY <1>1 DEF Request
<1>3. request' = r
  OBVIOUS
<1> HIDE DEF r
<1>4. AsksInOrder(r, tried', blamed')
  BY <1>1, <1>2 DEF ReaderInv, AsksInOrder
<1>5. r.head <= nodeHead[r.url][1]
  BY <1>1, <1>2, HeadType, ReaderAssumption DEF Unread
<1>6. LogsBounded(r, nodeHead')
  BY <1>1, <1>2, <1>5 DEF LogsBounded, Unread
<1>7. tried' \subseteq 1..Urls /\ blamed' \subseteq 1..Urls
  BY <1>1
<1> QED
  BY <1>2, <1>3, <1>4, <1>6, <1>7, AskGoesOn

LEMMA KnownHeadInv == ASSUME ReaderInv, KnownHead PROVE ReaderInv'
<1>1. request' = [request EXCEPT !.pc = "batch", !.before = knownHeads[request.url]]
  BY DEF KnownHead
<1> DEFINE h == knownHeads[request.url]
<1>2. request.pc = "ask" /\ request.url \in 1..Urls /\ h >= request.to /\ h \in Heads
      /\ request.to \in 0..LastBlock
  BY RequestType DEF KnownHead, Request
<1>3. h \in 0..LastBlock
  BY <1>2, ReaderAssumption DEF Heads, Unread
<1>4. request.url \notin Pooled => h <= nodeHead[request.url][1]
  BY <1>2 DEF ReaderInv, KnownIsPast
<1>5. /\ knownHeads' \in [1..Urls -> Heads] /\ KnownIsPast'
      /\ tried' = tried \cup {request.url} /\ UNCHANGED <<nodeHead, answer, blamed>>
  BY <1>2, RequestType DEF KnownHead, ReaderInv, KnownIsPast
<1>6. request' = [request EXCEPT !.pc = "batch", !.before = h]
  BY <1>1
<1> HIDE DEF h
<1> QED
  BY <1>2, <1>3, <1>4, <1>5, <1>6, BatchBegins

\* A head that a node answers is remembered.
LEMMA Remembers ==
  ASSUME ReaderInv, NEW u \in 1..Urls, NEW h \in Heads, u \notin Pooled => h <= nodeHead[u][1],
         knownHeads' = [knownHeads EXCEPT ![u] = Higher(@, h)], UNCHANGED nodeHead
  PROVE  knownHeads' \in [1..Urls -> Heads] /\ KnownIsPast'
<1>1. knownHeads \in [1..Urls -> Heads] /\ knownHeads[u] \in Heads
  BY DEF ReaderInv, ReaderTypeOK, Heads
<1>2. Higher(knownHeads[u], h) \in Heads
  BY <1>1, HigherType
<1>3. u \notin Pooled => Higher(knownHeads[u], h) <= nodeHead[u][1]
  <2>1. nodeHead[u][1] \in Int
    BY HeadType, ReaderAssumption
  <2> QED
    BY <1>1, <2>1, HigherType DEF ReaderInv, KnownIsPast
<1> QED
  BY <1>1, <1>2, <1>3 DEF ReaderInv, KnownIsPast

LEMMA ReadHeadBeforeInv == ASSUME ReaderInv, ReadHeadBefore PROVE ReaderInv'
<1>1. PICK n \in Nodes(request.url) :
         /\ request' = [request EXCEPT !.pc = "batch", !.before = nodeHead[request.url][n]]
         /\ knownHeads' = [knownHeads EXCEPT ![request.url] = Higher(@, nodeHead[request.url][n])]
  BY DEF ReadHeadBefore
<1> DEFINE h == nodeHead[request.url][n]
<1>2. /\ request.pc = "ask" /\ tried' = tried \cup {request.url}
      /\ UNCHANGED <<nodeHead, answer, blamed>>
  BY DEF ReadHeadBefore
<1>3. request.url \in 1..Urls
  BY <1>2, RequestType
<1>4. h \in 0..LastBlock /\ h \in Heads
  BY <1>3, NodeType, HeadType
<1>5. request.url \notin Pooled => h <= nodeHead[request.url][1]
  BY <1>4, NodeType, ReaderAssumption
<1>6. /\ request' = [request EXCEPT !.pc = "batch", !.before = h]
      /\ knownHeads' = [knownHeads EXCEPT ![request.url] = Higher(@, h)]
  BY <1>1
<1> HIDE DEF h
<1>7. knownHeads' \in [1..Urls -> Heads] /\ KnownIsPast'
  BY <1>2, <1>3, <1>4, <1>5, <1>6, Remembers
<1> QED
  BY <1>2, <1>4, <1>5, <1>6, <1>7, BatchBegins

LEMMA ServeHeadInv == ASSUME ReaderInv, ServeHead PROVE ReaderInv'
<1>1. PICK n \in Nodes(request.url) : request' = [request EXCEPT !.head = nodeHead[request.url][n]]
  BY DEF ServeHead
<1> DEFINE h == nodeHead[request.url][n]
           r == [request EXCEPT !.head = h]
<1>2. /\ request.pc = "batch" /\ request' = r
      /\ UNCHANGED <<nodeHead, knownHeads, answer, tried, blamed>>
  BY <1>1 DEF ServeHead
<1>3. request \in Request /\ request.url \in 1..Urls
      /\ knownHeads \in [1..Urls -> Heads] /\ tried \subseteq 1..Urls /\ blamed \subseteq 1..Urls
  BY <1>2, RequestType
<1>4. h \in 0..LastBlock /\ (request.url \notin Pooled => h = nodeHead[request.url][1])
  BY <1>3, NodeType, HeadType
<1> HIDE DEF h
<1>5. /\ r \in Request /\ r.pc = "batch" /\ r.url = request.url
      /\ r.before = request.before /\ r.head = h /\ r.logs = request.logs
      /\ r.refused = request.refused /\ r.attempt = request.attempt
  BY <1>2, <1>3, <1>4 DEF Request
<1> HIDE DEF r
<1>6. AsksInOrder(r, tried', blamed')
  BY <1>2, <1>5 DEF ReaderInv, AsksInOrder
<1>7. LogsBounded(r, nodeHead')
  BY <1>2, <1>4, <1>5, ReaderAssumption DEF ReaderInv, LogsBounded
<1>8. KnownIsPast'
  BY <1>2 DEF ReaderInv, KnownIsPast
<1> QED
  BY <1>2, <1>3, <1>5, <1>6, <1>7, <1>8, AskGoesOn

LEMMA ServeLogsInv == ASSUME ReaderInv, ServeLogs PROVE ReaderInv'
<1>1. PICK n \in Nodes(request.url) : request' = [request EXCEPT !.logs = nodeHead[request.url][n]]
  BY DEF ServeLogs
<1> DEFINE h == nodeHead[request.url][n]
           r == [request EXCEPT !.logs = h]
<1>2. /\ request.pc = "batch" /\ request' = r
      /\ UNCHANGED <<nodeHead, knownHeads, answer, tried, blamed>>
  BY <1>1 DEF ServeLogs
<1>3. request \in Request /\ request.url \in 1..Urls
      /\ knownHeads \in [1..Urls -> Heads] /\ tried \subseteq 1..Urls /\ blamed \subseteq 1..Urls
  BY <1>2, RequestType
<1>4. h \in 0..LastBlock /\ (request.url \notin Pooled => h = nodeHead[request.url][1])
  BY <1>3, NodeType, HeadType
<1> HIDE DEF h
<1>5. /\ r \in Request /\ r.pc = "batch" /\ r.url = request.url
      /\ r.before = request.before /\ r.head = request.head /\ r.logs = h
      /\ r.refused = request.refused /\ r.attempt = request.attempt
  BY <1>2, <1>3, <1>4 DEF Request
<1> HIDE DEF r
<1>6. AsksInOrder(r, tried', blamed')
  BY <1>2, <1>5 DEF ReaderInv, AsksInOrder
<1>7. LogsBounded(r, nodeHead')
  BY <1>2, <1>4, <1>5 DEF ReaderInv, LogsBounded
<1>8. KnownIsPast'
  BY <1>2 DEF ReaderInv, KnownIsPast
<1> QED
  BY <1>2, <1>3, <1>5, <1>6, <1>7, <1>8, AskGoesOn

\* The step that takes the logs: at a single node the head read before makes them
\* those of the range.
LEMMA BatchServedInv == ASSUME ReaderInv, BatchServed PROVE ReaderInv'
<1>1. /\ request.pc = "batch" /\ request.head # Unread /\ request.logs # Unread
      /\ knownHeads' = [knownHeads EXCEPT ![request.url] = Higher(@, request.head)]
      /\ IF PastRange(request) THEN Ends("logs", request.logs >= request.to)
                               ELSE Ends("lagging", FALSE)
      /\ UNCHANGED <<nodeHead, tried, blamed>>
  BY DEF BatchServed
<1>2. /\ request.url \in 1..Urls /\ request.head \in Heads
      /\ request.before \in Int /\ request.logs \in Int /\ request.to \in Int
      /\ request.head \in Int /\ tried \subseteq 1..Urls /\ blamed \subseteq 1..Urls
  BY <1>1, RequestType, ReaderAssumption DEF Request, Heads, Unread
<1>3. request.url \notin Pooled => request.head <= nodeHead[request.url][1]
  BY <1>1, NodeType DEF ReaderInv, LogsBounded
<1>4. knownHeads' \in [1..Urls -> Heads] /\ KnownIsPast'
  BY <1>1, <1>2, <1>3, Remembers
<1>5. tried' \subseteq 1..Urls /\ blamed' \subseteq 1..Urls
  BY <1>1, <1>2
<1>6. CASE PastRange(request)
  <2>1. request.url \notin Pooled => request.logs >= request.to
    BY <1>1, <1>2, <1>6 DEF ReaderInv, LogsBounded, PastRange
  <2> DEFINE whole == request.logs >= request.to
  <2>2. whole \in BOOLEAN /\ Ends("logs", whole) /\ (request.url \notin Pooled => whole)
    BY <1>1, <1>2, <1>6, <2>1
  <2>3. "logs" \in Verdicts
    BY DEF Verdicts
  <2> HIDE DEF whole
  <2> QED
    BY <1>1, <1>4, <1>5, <2>2, <2>3, EndStep
<1>7. CASE ~PastRange(request)
  <2>1. Ends("lagging", FALSE) /\ "lagging" \in Verdicts
    BY <1>1, <1>7 DEF Verdicts
  <2> QED
    BY <1>1, <1>4, <1>5, <2>1, EndStep
<1> QED
  BY <1>6, <1>7

(***************************************************************************)
(* The invariant and the theorems                                          *)
(***************************************************************************)
LEMMA ReaderInitInv == ReaderInit => ReaderInv
<1> SUFFICES ASSUME ReaderInit
             PROVE  ReaderInv
  OBVIOUS
<1>1. /\ nodeHead = [u \in 1..Urls |-> [n \in {1, 2} |-> 0]]
      /\ knownHeads = [u \in 1..Urls |-> Unread]
      /\ request = Quiet /\ answer = NoAnswer
      /\ tried = {} /\ blamed = {}
  BY DEF ReaderInit, Remembered
<1>2. nodeHead \in [1..Urls -> [{1, 2} -> 0..LastBlock]]
  BY <1>1, ReaderAssumption
<1>3. ReaderTypeOK
  BY <1>1, <1>2, QuietType, NoAnswerType DEF ReaderTypeOK
<1>4. KnownIsPast
  BY <1>1, <1>2, ReaderAssumption DEF KnownIsPast, Unread
<1> QED
  BY <1>1, <1>3, <1>4, QuietType, NoAnswerType
  DEF ReaderInv, AsksInOrder, LogsBounded, AnswerOpen, WholeRange, GivenUpForCause

LEMMA ReaderNextInv == ASSUME ReaderInv, [ReaderNext]_readerVars PROVE ReaderInv'
<1>1. CASE UNCHANGED readerVars
  BY <1>1 DEF readerVars, ReaderInv, ReaderTypeOK, AsksInOrder, LogsBounded, KnownIsPast,
              AnswerOpen, WholeRange, GivenUpForCause
<1>2. CASE ReaderNext
  BY <1>2, NextInvocationInv, NodeMovesInv, AskInv, KnownHeadInv, ReadHeadBeforeInv,
     HeadBeforeFailsInv, ServeHeadInv, ServeLogsInv, BatchFailsInv, BatchServedInv, StoppedInv
  DEF ReaderNext
<1> QED
  BY <1>1, <1>2

LEMMA ReaderSpecInv == ReaderSpec => []ReaderInv
BY ReaderInitInv, ReaderNextInv, PTL DEF ReaderSpec

\* The reader's variables keep their types: a verdict is one the code has, and a
\* remembered head one of the chain's (chain.ts:270-320).
THEOREM ReaderTypes == ReaderSpec => []ReaderTypeOK
<1>1. ReaderInv => ReaderTypeOK
  BY DEF ReaderInv
<1> QED
  BY <1>1, ReaderSpecInv, PTL

\* Logs that the durable scan takes from a URL that leads to one node are those of
\* the whole range, in whatever order that node serves the entries of a batch, for
\* every list of URLs (cycle.ts:311-313).
THEOREM LogsAreWhole == ReaderSpec => []WholeRange
<1>1. ReaderInv => WholeRange
  BY DEF ReaderInv
<1> QED
  BY <1>1, ReaderSpecInv, PTL

\* Every URL is asked before a range is given up, and only a URL that refuses
\* the range makes it smaller (chain.ts:283, 314-316).
THEOREM HalvedForCause == ReaderSpec => []GivenUpForCause
<1>1. ReaderInv => GivenUpForCause
  BY DEF ReaderInv
<1> QED
  BY <1>1, ReaderSpecInv, PTL

(***************************************************************************)
(* The top-up vault                                                        *)
(***************************************************************************)

\* Why the events stay apart: no top-up is later than the account's stored last one,
\* from which the next waits a cooldown, and an account that was reported is below the
\* threshold until it is topped up.
WellNoted(events, last, balance) ==
  \A i \in DOMAIN events :
    /\ events[i].what = "up" => events[i].at <= last
    /\ events[i].what = "low" /\ (\A k \in i + 1 .. Len(events) : events[k].what # "up")
         => balance < threshold

EventsNoted == \A a \in Accounts : WellNoted(emitted[a], lastTopUp[a], balanceOf[a])

VaultInv == VaultTypeOK /\ EventsNoted /\ TopUpsApart

LEMMA VaultInitInv == ASSUME VaultInit PROVE VaultInv
<1>1. /\ timestamp = Epoch /\ pool = 0 /\ funded = 0 /\ balanceOf = [a \in Accounts |-> 0]
      /\ lastTopUp = [a \in Accounts |-> 0] /\ emitted = [a \in Accounts |-> << >>]
  BY DEF VaultInit
<1>2. << >> \in Seq(Event) /\ DOMAIN << >> = {}
  BY EmptySeq
<1>3. VaultTypeOK
  BY <1>1, <1>2, VaultAssumption DEF VaultTypeOK
<1>4. EventsNoted /\ TopUpsApart
  BY <1>1, <1>2 DEF EventsNoted, WellNoted, TopUpsApart, Spaced
<1> QED
  BY <1>3, <1>4 DEF VaultInv

\* What is known of one account.
LEMMA AccountType ==
  ASSUME VaultInv, NEW a \in Accounts
  PROVE  /\ emitted[a] \in Seq(Event) /\ balanceOf[a] \in 0 .. MaxUint /\ lastTopUp[a] \in Nat
         /\ WellNoted(emitted[a], lastTopUp[a], balanceOf[a]) /\ Spaced(emitted[a])
BY DEF VaultInv, VaultTypeOK, EventsNoted, TopUpsApart

\* An event that is apart from each before it keeps all of them apart.
LEMMA AppendSpaced ==
  ASSUME NEW events \in Seq(Event), NEW new \in Event, Spaced(events),
         \A i \in DOMAIN events : ApartAt(Append(events, new), i, Len(events) + 1)
  PROVE  Spaced(Append(events, new))
<1> DEFINE more == Append(events, new)
<1>1. /\ DOMAIN events = 1 .. Len(events) /\ Len(events) \in Nat
      /\ DOMAIN more = 1 .. Len(events) + 1
      /\ \A k \in 1 .. Len(events) : more[k] = events[k]
  BY AppendProperties, LenProperties
<1> HIDE DEF more
<1> SUFFICES ASSUME NEW i \in DOMAIN more, NEW j \in DOMAIN more, i < j
             PROVE  ApartAt(more, i, j)
  BY DEF Spaced, more
<1>2. i \in DOMAIN events
  BY <1>1
<1>3. CASE j = Len(events) + 1
  BY <1>2, <1>3 DEF more
<1>4. CASE j \in DOMAIN events
  <2>1. ApartAt(events, i, j)
    BY <1>2, <1>4 DEF Spaced
  <2>2. \A k \in i .. j : more[k] = events[k]
    BY <1>1, <1>2, <1>4
  <2> QED
    BY <1>1, <1>2, <1>4, <2>1, <2>2 DEF ApartAt
<1> QED
  BY <1>1, <1>3, <1>4

LEMMA SpendsInv ==
  ASSUME VaultInv, NEW a \in Accounts, NEW amount \in 1 .. MaxFunded, spend(a, amount)
  PROVE  VaultInv'
<1> DEFINE remaining == balanceOf[a] - amount
           events == emitted[a]
           new == [what |-> "low", at |-> timestamp]
<1>1. /\ events \in Seq(Event) /\ WellNoted(events, lastTopUp[a], balanceOf[a]) /\ Spaced(events)
      /\ DOMAIN events = 1 .. Len(events) /\ Len(events) \in Nat
      /\ balanceOf[a] \in Nat /\ remaining \in 0 .. MaxUint /\ remaining <= balanceOf[a]
  BY AccountType, LenProperties, VaultAssumption DEF spend
<1>2. new \in Event /\ new.what = "low" /\ threshold \in Nat
  BY VaultAssumption DEF Event, VaultInv, VaultTypeOK
<1> HIDE DEF new, events
<1>3. PICK later : /\ later = IF BalanceLow(balanceOf[a], remaining) THEN Append(events, new) ELSE events
                   /\ emitted' = [emitted EXCEPT ![a] = later]
  BY DEF spend, Emit, VaultInv, VaultTypeOK, events, new
<1>4. later \in Seq(Event) /\ WellNoted(later, lastTopUp[a], remaining) /\ Spaced(later)
  <2>1. CASE ~BalanceLow(balanceOf[a], remaining)
    BY <1>1, <1>2, <1>3, <2>1 DEF WellNoted
  <2>2. CASE BalanceLow(balanceOf[a], remaining)
    <3>1. /\ later = Append(events, new) /\ later \in Seq(Event)
          /\ Len(later) = Len(events) + 1 /\ DOMAIN later = 1 .. Len(events) + 1
          /\ later[Len(events) + 1] = new /\ \A k \in 1 .. Len(events) : later[k] = events[k]
      BY <1>1, <1>2, <1>3, <2>2, AppendProperties, LenProperties
    <3>2. balanceOf[a] >= threshold /\ remaining < threshold
      BY <2>2 DEF BalanceLow
    <3>3. \A i \in DOMAIN events : ApartAt(later, i, Len(events) + 1)
      <4> SUFFICES ASSUME NEW i \in DOMAIN events, events[i].what = "low"
                   PROVE  \E k \in i + 1 .. Len(events) : later[k].what = "up"
        BY <1>1, <1>2, <3>1 DEF ApartAt
      <4>1. PICK k \in i + 1 .. Len(events) : events[k].what = "up"
        BY <1>1, <1>2, <3>2 DEF WellNoted
      <4> QED
        BY <1>1, <3>1, <4>1
    <3>4. WellNoted(later, lastTopUp[a], remaining)
      BY <1>1, <1>2, <3>1, <3>2 DEF WellNoted
    <3> QED
      BY <1>1, <1>2, <3>1, <3>3, <3>4, AppendSpaced
  <2> QED
    BY <2>1, <2>2
<1>5. VaultTypeOK'
  BY <1>1, <1>3, <1>4 DEF spend, VaultInv, VaultTypeOK
<1>6. balanceOf' = [balanceOf EXCEPT ![a] = remaining] /\ UNCHANGED lastTopUp
  BY DEF spend
<1>7. EventsNoted' /\ TopUpsApart'
  BY <1>3, <1>4, <1>6 DEF VaultInv, VaultTypeOK, EventsNoted, TopUpsApart
<1> QED
  BY <1>5, <1>7 DEF VaultInv

LEMMA TopUpInv ==
  ASSUME VaultInv, NEW a \in Accounts, topUp(a)
  PROVE  VaultInv'
<1> DEFINE events == emitted[a]
           new == [what |-> "up", at |-> timestamp]
           balance == balanceOf[a] + topUpAmount
           later == Append(events, new)
<1>1. /\ events \in Seq(Event) /\ WellNoted(events, lastTopUp[a], balanceOf[a]) /\ Spaced(events)
      /\ DOMAIN events = 1 .. Len(events) /\ Len(events) \in Nat
      /\ lastTopUp[a] \in Nat /\ timestamp \in Nat /\ cooldown \in Nat
  BY AccountType, LenProperties, VaultAssumption DEF VaultInv, VaultTypeOK
<1>2. new \in Event /\ new.what = "up" /\ new.at = timestamp
  BY <1>1 DEF Event
<1>3. timestamp >= lastTopUp[a] + cooldown /\ timestamp >= lastTopUp[a]
  BY <1>1 DEF topUp, availableAt
<1>4. /\ emitted' = [emitted EXCEPT ![a] = later] /\ balanceOf' = [balanceOf EXCEPT ![a] = balance]
      /\ lastTopUp' = [lastTopUp EXCEPT ![a] = timestamp]
  BY DEF topUp, Emit
<1> HIDE DEF new, events, balance
<1>5. /\ later \in Seq(Event) /\ Len(later) = Len(events) + 1
      /\ DOMAIN later = 1 .. Len(events) + 1 /\ later[Len(events) + 1] = new
      /\ \A k \in 1 .. Len(events) : later[k] = events[k]
  BY <1>1, <1>2, AppendProperties, LenProperties
<1>6. \A i \in DOMAIN events : events[i].at \in Nat
  <2> SUFFICES ASSUME NEW i \in 1 .. Len(events) PROVE events[i].at \in Nat
    BY <1>1
  <2>1. events[i] \in Event
    BY <1>1, ElementOfSeq
  <2> QED
    BY <2>1 DEF Event
<1>7. Spaced(later)
  <2>1. ASSUME NEW i \in DOMAIN events
        PROVE  events[i].what = "up" => timestamp - events[i].at >= cooldown
    <3>1. events[i].at \in Nat
      BY <1>6
    <3> QED
      BY <1>1, <1>3, <3>1 DEF WellNoted
  <2>2. \A i \in DOMAIN events : ApartAt(later, i, Len(events) + 1)
    BY <1>1, <1>2, <1>5, <2>1 DEF ApartAt
  <2> QED
    BY <1>1, <1>2, <2>2, AppendSpaced
<1> HIDE DEF later
<1>8. WellNoted(later, timestamp, balance)
  <2> SUFFICES ASSUME NEW i \in DOMAIN later
               PROVE  /\ later[i].what = "up" => later[i].at <= timestamp
                      /\ ~(/\ later[i].what = "low"
                           /\ \A k \in i + 1 .. Len(later) : later[k].what # "up")
    BY DEF WellNoted
  <2>1. CASE i = Len(events) + 1
    BY <1>1, <1>2, <1>5, <2>1
  <2>2. CASE i \in DOMAIN events
    <3>1. events[i].at \in Nat
      BY <1>6, <2>2
    <3>2. later[i].what = "up" => later[i].at <= timestamp
      BY <1>1, <1>3, <1>5, <2>2, <3>1 DEF WellNoted
    <3>3. Len(later) \in i + 1 .. Len(later) /\ later[Len(later)].what = "up"
      BY <1>1, <1>2, <1>5, <2>2
    <3> QED
      BY <3>2, <3>3
  <2> QED
    BY <1>1, <1>5, <2>1, <2>2
<1>9. VaultTypeOK'
  BY <1>1, <1>4, <1>5, VaultAssumption DEF topUp, PoolCovers, VaultInv, VaultTypeOK, balance
<1>10. EventsNoted' /\ TopUpsApart'
  BY <1>4, <1>7, <1>8 DEF VaultInv, VaultTypeOK, EventsNoted, TopUpsApart
<1> QED
  BY <1>9, <1>10 DEF VaultInv

LEMMA VaultNextInv == ASSUME VaultInv, [VaultNext]_vaultVars PROVE VaultInv'
<1>1. CASE UNCHANGED vaultVars
  BY <1>1 DEF vaultVars, VaultInv, VaultTypeOK, EventsNoted, TopUpsApart
<1>2. CASE NextBlock
  BY <1>2 DEF NextBlock, VaultInv, VaultTypeOK, EventsNoted, TopUpsApart
<1>3. CASE \E amount \in 1 .. MaxFunded : fund(amount)
  BY <1>3, VaultAssumption DEF fund, VaultInv, VaultTypeOK, EventsNoted, TopUpsApart
<1> QED
  BY <1>1, <1>2, <1>3, SpendsInv, TopUpInv DEF VaultNext

\* No sum or difference of the contract leaves the width of its words: neither the
\* pool nor a balance wraps, whoever funds, spends and tops up in one block
\* (TopUpVault.sol:51-75).
THEOREM VaultTypes == VaultSpec => []VaultTypeOK
BY VaultInitInv, VaultNextInv, PTL DEF VaultSpec, VaultInv

\* Whatever the accounts spend and ask for, any two top-ups of one are a cooldown
\* apart, and no two reports that its balance is low come without a top-up between
\* them (TopUpVault.sol:53-55, 58-67).
THEOREM TopUpsSpaced == VaultSpec => []TopUpsApart
BY VaultInitInv, VaultNextInv, PTL DEF VaultSpec, VaultInv

(***************************************************************************)
(* Places in an order of numbers                                           *)
(***************************************************************************)
\* The members of S before i.
Ahead(S, i) == {j \in S : j < i}

LEMMA AheadIsFinite ==
  ASSUME NEW S \in SUBSET Nat, NEW i \in Nat
  PROVE  IsFiniteSet(Ahead(S, i)) /\ Cardinality(Ahead(S, i)) \in Nat
<1>1. Ahead(S, i) \in SUBSET (0 .. i - 1)
  <2> SUFFICES ASSUME NEW j \in S, j < i
               PROVE  j \in 0 .. i - 1
    BY DEF Ahead
  <2>1. j \in Nat
    OBVIOUS
  <2> QED
    BY <2>1
<1>2. 0 \in Int /\ i - 1 \in Int
  OBVIOUS
<1>3. IsFiniteSet(0 .. i - 1)
  BY <1>2, FS_Interval
<1>4. IsFiniteSet(Ahead(S, i))
  BY <1>1, <1>3, FS_Subset
<1> QED
  BY <1>4, FS_CardinalityType

\* More are before a later one.
LEMMA PlacesGrow ==
  ASSUME NEW S \in SUBSET Nat, NEW i \in S, NEW j \in Nat, i < j
  PROVE  Cardinality(Ahead(S, i)) < Cardinality(Ahead(S, j))
<1>1. i \in Nat
  OBVIOUS
<1>2. Ahead(S, i) \in SUBSET Ahead(S, j)
  <2> SUFFICES ASSUME NEW k \in S, k < i
               PROVE  k < j
    BY DEF Ahead
  <2>1. k \in Nat
    OBVIOUS
  <2> QED
    BY <1>1, <2>1
<1>3. i \in Ahead(S, j) /\ i \notin Ahead(S, i)
  BY <1>1 DEF Ahead
<1>4. Ahead(S, i) # Ahead(S, j)
  BY <1>3
<1>5. IsFiniteSet(Ahead(S, j)) /\ Cardinality(Ahead(S, j)) \in Nat
      /\ Cardinality(Ahead(S, i)) \in Nat
  BY <1>1, AheadIsFinite
<1>6. /\ Cardinality(Ahead(S, i)) <= Cardinality(Ahead(S, j))
      /\ Cardinality(Ahead(S, i)) # Cardinality(Ahead(S, j))
  BY <1>2, <1>4, <1>5, FS_Subset
<1> QED
  BY <1>5, <1>6

\* No two have one place.
LEMMA PlacesDiffer ==
  ASSUME NEW S \in SUBSET Nat, NEW i \in S, NEW j \in S,
         Cardinality(Ahead(S, i)) = Cardinality(Ahead(S, j))
  PROVE  i = j
<1>1. i \in Nat /\ j \in Nat
  OBVIOUS
<1>2. Cardinality(Ahead(S, i)) \in Nat
  BY <1>1, AheadIsFinite
<1>3. ~(i < j)
  BY <1>1, <1>2, PlacesGrow
<1>4. ~(j < i)
  BY <1>1, <1>2, PlacesGrow
<1> QED
  BY <1>1, <1>3, <1>4

\* In a finite set, every place is taken.
LEMMA PlacesAreTaken ==
  ASSUME NEW S \in SUBSET Nat, IsFiniteSet(S), NEW n \in 1 .. Cardinality(S)
  PROVE  \E i \in S : Cardinality(Ahead(S, i)) = n - 1
<1> DEFINE size == Cardinality(S)
           place == [i \in S |-> Cardinality(Ahead(S, i))]
           T == 0 .. size - 1
<1>1. size \in Nat /\ n \in 1 .. size
  BY FS_CardinalityType
<1> HIDE DEF size
<1>2. \A i \in S : Cardinality(Ahead(S, i)) \in T
  <2> TAKE i \in S
  <2>1. Ahead(S, i) \in SUBSET S /\ i \notin Ahead(S, i) /\ i \in Nat
    BY DEF Ahead
  <2>2. Ahead(S, i) # S
    BY <2>1
  <2>3. Cardinality(Ahead(S, i)) \in Nat
    BY <2>1, AheadIsFinite
  <2>4. Cardinality(Ahead(S, i)) <= size /\ Cardinality(Ahead(S, i)) # size
    BY <2>1, <2>2, FS_Subset DEF size
  <2> QED
    BY <1>1, <2>3, <2>4
<1>3. place \in [S -> T]
  BY <1>2
<1>4. \A i, j \in S : place[i] = place[j] => i = j
  BY PlacesDiffer
<1>5. place \in Injection(S, T)
  BY <1>3, <1>4 DEF Injection, IsInjective
<1>6. IsFiniteSet(T) /\ Cardinality(T) = size
  <2>1. 0 \in Int /\ size - 1 \in Int
    BY <1>1
  <2>2. IsFiniteSet(T) /\ Cardinality(T) = IF 0 > size - 1 THEN 0 ELSE (size - 1) - 0 + 1
    BY <2>1, FS_Interval
  <2> QED
    BY <1>1, <2>2
<1>7. place \in Surjection(S, T)
  BY <1>5, <1>6, FS_Injection DEF size
<1>8. n - 1 \in T
  BY <1>1
<1>9. \E i \in S : place[i] = n - 1
  BY <1>7, <1>8 DEF Surjection
<1> QED
  BY <1>9

(***************************************************************************)
(* The matcher                                                             *)
(***************************************************************************)
\* What comes before a match: the logs of its transaction that its rule matches,
\* in its block, whatever was read in whatever order.
Earlier(l, r) ==
  {o \in Logs : /\ o.block = l.block /\ o.tx = l.tx /\ r \in matchLog(o)
                /\ o.number < l.number \/ (o.number = l.number /\ o.index < l.index)}

\* The places of the logs that are the first of their kind.
Firsts(logs) ==
  {i \in DOMAIN logs :
     \A j \in 1 .. i - 1 : ~(logs[j].block = logs[i].block /\ logs[j].index = logs[i].index)}

LEMMA SameLog ==
  ASSUME NEW l \in Logs, NEW m \in Logs, l.block = m.block, l.index = m.index
  PROVE  l = m
BY MatchingAssumption

\* Every log that was read has a first place.
LEMMA FirstOfLog ==
  ASSUME NEW logs \in Seq(Logs), NEW i \in DOMAIN logs
  PROVE  \E j \in Firsts(logs) : logs[j] = logs[i]
<1> DEFINE S == {j \in DOMAIN logs : logs[j] = logs[i]}
           less == OpToRel(<, Nat)
<1>1. DOMAIN logs = 1 .. Len(logs) /\ Len(logs) \in Nat /\ \A j \in DOMAIN logs : logs[j] \in Logs
  OBVIOUS
<1>2. S \in SUBSET Nat /\ i \in S
  BY <1>1
<1>3. \E x \in S : \A y \in S : <<y, x>> \notin less
  <2> HIDE DEF less
  <2>1. IsWellFoundedOn(less, Nat)
    BY NatLessThanWellFounded DEF less
  <2> HIDE DEF S
  <2> QED
    BY <1>2, <2>1, WFMin
<1>4. PICK j \in S : \A y \in S : <<y, j>> \notin less
  BY <1>3
<1>5. \A y \in S : ~(y < j)
  <2> TAKE y \in S
  <2>1. y \in Nat /\ j \in Nat
    BY <1>2
  <2> QED
    BY <1>4, <2>1 DEF OpToRel
<1>6. j \in DOMAIN logs /\ logs[j] = logs[i] /\ j \in 1 .. Len(logs)
  BY <1>1
<1>7. ASSUME NEW k \in 1 .. j - 1, logs[k].block = logs[j].block, logs[k].index = logs[j].index
      PROVE  FALSE
  <2>1. k \in 1 .. Len(logs) /\ k < j
    BY <1>1, <1>6, <1>7
  <2>2. logs[k] = logs[j]
    BY <1>1, <1>6, <1>7, <2>1, SameLog
  <2>3. k \in S
    BY <1>1, <1>6, <2>1, <2>2
  <2> QED
    BY <1>5, <2>1, <2>3
<1>8. j \in Firsts(logs)
  BY <1>6, <1>7 DEF Firsts
<1> QED
  BY <1>6, <1>8

\* No log has two.
LEMMA OneFirst ==
  ASSUME NEW logs \in Seq(Logs), NEW i \in Firsts(logs), NEW j \in Firsts(logs), logs[i] = logs[j]
  PROVE  i = j
<1>1. i \in 1 .. Len(logs) /\ j \in 1 .. Len(logs) /\ Len(logs) \in Nat
  BY DEF Firsts
<1>2. ~(i < j)
  <2> SUFFICES ASSUME i < j
               PROVE  FALSE
    OBVIOUS
  <2>1. i \in 1 .. j - 1
    BY <1>1
  <2> QED
    BY <2>1 DEF Firsts
<1>3. ~(j < i)
  <2> SUFFICES ASSUME j < i
               PROVE  FALSE
    OBVIOUS
  <2>1. j \in 1 .. i - 1
    BY <1>1
  <2> QED
    BY <2>1 DEF Firsts
<1> QED
  BY <1>1, <1>2, <1>3

\* What dedupeLogs keeps: each log once.
LEMMA DedupeKeeps ==
  ASSUME NEW logs \in Seq(Logs)
  PROVE  /\ dedupeLogs(logs) \in Seq(Logs)
         /\ \A n \in DOMAIN dedupeLogs(logs) : dedupeLogs(logs)[n] \in ToSet(logs)
         /\ \A l \in ToSet(logs) : \E n \in DOMAIN dedupeLogs(logs) : dedupeLogs(logs)[n] = l
         /\ \A n, k \in DOMAIN dedupeLogs(logs) :
              dedupeLogs(logs)[n] = dedupeLogs(logs)[k] => n = k
<1> DEFINE F == Firsts(logs)
           at(n) == CHOOSE i \in F : Cardinality(Ahead(F, i)) = n - 1
           size == Cardinality(F)
<1>1. dedupeLogs(logs) = [n \in 1 .. size |-> logs[at(n)]]
  BY DEF dedupeLogs, Firsts, Ahead
<1>2. DOMAIN logs = 1 .. Len(logs) /\ Len(logs) \in Nat /\ \A i \in DOMAIN logs : logs[i] \in Logs
  OBVIOUS
<1>3. F \in SUBSET (1 .. Len(logs)) /\ F \in SUBSET Nat
  BY <1>2 DEF Firsts
<1>4. IsFiniteSet(F) /\ size \in Nat
  <2>1. 1 \in Int /\ Len(logs) \in Int
    BY <1>2
  <2>2. IsFiniteSet(1 .. Len(logs))
    BY <2>1, FS_Interval
  <2>3. IsFiniteSet(F)
    BY <1>3, <2>2, FS_Subset
  <2> QED
    BY <2>3, FS_CardinalityType
<1>5. \A n \in 1 .. size : at(n) \in F /\ Cardinality(Ahead(F, at(n))) = n - 1
  <2> HIDE DEF F
  <2> TAKE n \in 1 .. size
  <2>1. \E i \in F : Cardinality(Ahead(F, i)) = n - 1
    BY <1>3, <1>4, PlacesAreTaken
  <2> QED
    BY <2>1
<1>6. \A i \in F : \E n \in 1 .. size : at(n) = i
  <2> TAKE i \in F
  <2>1. i \in Nat /\ Ahead(F, i) \in SUBSET F /\ i \notin Ahead(F, i)
    BY <1>3 DEF Ahead
  <2>2. Ahead(F, i) # F
    BY <2>1
  <2>3. Cardinality(Ahead(F, i)) \in Nat
    BY <1>3, <2>1, AheadIsFinite
  <2>4. Cardinality(Ahead(F, i)) <= size /\ Cardinality(Ahead(F, i)) # size
    BY <1>4, <2>1, <2>2, FS_Subset
  <2> DEFINE n == Cardinality(Ahead(F, i)) + 1
  <2>5. n \in 1 .. size /\ n - 1 = Cardinality(Ahead(F, i))
    BY <1>4, <2>3, <2>4
  <2>6. at(n) \in F /\ Cardinality(Ahead(F, at(n))) = Cardinality(Ahead(F, i))
    BY <1>5, <2>5
  <2>7. at(n) = i
    BY <1>3, <2>6, PlacesDiffer
  <2> QED
    BY <2>5, <2>7
<1>7. \A n, k \in 1 .. size : at(n) = at(k) => n = k
  <2> TAKE n, k \in 1 .. size
  <2> HAVE at(n) = at(k)
  <2>1. n - 1 = k - 1
    BY <1>5
  <2>2. n \in Int /\ k \in Int
    BY <1>4
  <2> QED
    BY <2>1, <2>2
<1> HIDE DEF at, size
<1> DEFINE d == dedupeLogs(logs)
<1>8. DOMAIN d = 1 .. size /\ \A n \in 1 .. size : d[n] = logs[at(n)]
  BY <1>1
<1> HIDE DEF d
<1>9. \A n \in 1 .. size : at(n) \in DOMAIN logs /\ logs[at(n)] \in Logs
  BY <1>2, <1>3, <1>5
<1>10. d \in Seq(Logs)
  <2>1. d = [n \in 1 .. size |-> logs[at(n)]]
    BY <1>1 DEF d
  <2> QED
    BY <1>4, <1>9, <2>1
<1>11. \A n \in DOMAIN d : d[n] \in ToSet(logs)
  BY <1>8, <1>9 DEF ToSet
<1>12. \A l \in ToSet(logs) : \E n \in DOMAIN d : d[n] = l
  <2> TAKE l \in ToSet(logs)
  <2>1. PICK i \in DOMAIN logs : logs[i] = l
    BY DEF ToSet
  <2>2. PICK j \in F : logs[j] = logs[i]
    BY <2>1, FirstOfLog
  <2>3. PICK n \in 1 .. size : at(n) = j
    BY <1>6, <2>2
  <2> QED
    BY <1>8, <2>1, <2>2, <2>3
<1>13. \A n, k \in DOMAIN d : d[n] = d[k] => n = k
  <2> TAKE n, k \in DOMAIN d
  <2> HAVE d[n] = d[k]
  <2>1. at(n) \in F /\ at(k) \in F /\ logs[at(n)] = logs[at(k)]
    BY <1>5, <1>8
  <2>2. at(n) = at(k)
    BY <2>1, OneFirst
  <2> QED
    BY <1>7, <1>8, <2>2
<1> QED
  BY <1>10, <1>11, <1>12, <1>13 DEF d

\* A key that does not depend on the response it comes from.
KeyFits(k) ==
  \E r \in RuleSet :
    /\ k.log \in Logs /\ r \in matchLog(k.log)
    /\ IsFiniteSet(Earlier(k.log, r))
    /\ k.key = [tx |-> k.log.tx, rule |-> r.id, ordinal |-> Cardinality(Earlier(k.log, r))]

\* The place of a match among the matches of a whole response.
LEMMA OrdinalIsEarlier ==
  ASSUME NEW logs \in Seq(Logs), Complete(logs), NEW m \in Matches(dedupeLogs(logs))
  PROVE  LET G == {n \in Matches(dedupeLogs(logs)) : SortsBefore(n, m) /\ SameGroup(n, m)}
         IN /\ m.log \in Logs /\ m.rule \in matchLog(m.log) /\ m.rule \in RuleSet
            /\ IsFiniteSet(Earlier(m.log, m.rule))
            /\ Cardinality(G) = Cardinality(Earlier(m.log, m.rule))
<1> DEFINE d == dedupeLogs(logs)
           M == Matches(d)
           G == {n \in M : SortsBefore(n, m) /\ SameGroup(n, m)}
           E == Earlier(m.log, m.rule)
           f == [n \in G |-> n.log]
<1>1. /\ d \in Seq(Logs)
      /\ \A n \in DOMAIN d : d[n] \in ToSet(logs) /\ d[n] \in Logs
      /\ \A l \in ToSet(logs) : \E n \in DOMAIN d : d[n] = l
      /\ \A n, k \in DOMAIN d : d[n] = d[k] => n = k
  <2>1. /\ d \in Seq(Logs)
        /\ \A n \in DOMAIN d : d[n] \in ToSet(logs)
        /\ \A l \in ToSet(logs) : \E n \in DOMAIN d : d[n] = l
        /\ \A n, k \in DOMAIN d : d[n] = d[k] => n = k
    BY DedupeKeeps
  <2> HIDE DEF d
  <2>2. \A n \in DOMAIN d : d[n] \in Logs
    BY <2>1
  <2> QED
    BY <2>1, <2>2
<1>2. m \in M
  OBVIOUS
<1> HIDE DEF d
<1>3. ASSUME NEW n \in M
      PROVE  /\ n.at \in DOMAIN d /\ n.rule \in RuleSet /\ n.log = d[n.at]
             /\ n = [at |-> n.at, rule |-> n.rule, log |-> d[n.at]]
             /\ n.rule \in matchLog(n.log)
             /\ n.log \in Logs /\ n.log \in ToSet(logs)
  <2>1. n \in Matched(d) /\ n.rule \in matchLog(n.log)
    BY DEF Matches
  <2>2. PICK i \in DOMAIN d, r \in RuleSet : n = [at |-> i, rule |-> r, log |-> d[i]]
    BY <2>1 DEF Matched
  <2>3. n.at = i /\ n.rule = r /\ n.log = d[i]
    BY <2>2
  <2> QED
    BY <1>1, <2>1, <2>2, <2>3
<1>4. ASSUME NEW i \in DOMAIN d, NEW r \in RuleSet, r \in matchLog(d[i])
      PROVE  [at |-> i, rule |-> r, log |-> d[i]] \in M
  <2> DEFINE n == [at |-> i, rule |-> r, log |-> d[i]]
  <2>1. n \in Matched(d)
    BY DEF Matched
  <2>2. n.rule = r /\ n.log = d[i]
    OBVIOUS
  <2> HIDE DEF n
  <2>3. n \in M
    BY <1>4, <2>1, <2>2 DEF Matches
  <2> QED
    BY <2>3 DEF n
<1> HIDE DEF M
<1>5. ASSUME NEW n \in G, NEW k \in G, n.log = k.log
      PROVE  n = k
  <2>1. n \in M /\ k \in M /\ n.rule = m.rule /\ k.rule = m.rule
    BY DEF SameGroup
  <2>2. d[n.at] = d[k.at] /\ n.at \in DOMAIN d /\ k.at \in DOMAIN d
    BY <1>3, <1>5, <2>1
  <2>3. n.at = k.at
    BY <1>1, <2>2
  <2>4. n = [at |-> n.at, rule |-> m.rule, log |-> d[n.at]]
        /\ k = [at |-> k.at, rule |-> m.rule, log |-> d[k.at]]
    BY <1>3, <2>1
  <2> QED
    BY <2>3, <2>4
<1>6. ASSUME NEW n \in G
      PROVE  n.log \in E
  <2>1. n \in M /\ SortsBefore(n, m) /\ SameGroup(n, m)
    OBVIOUS
  <2>2. n.log.block = m.log.block /\ n.log.tx = m.log.tx /\ n.rule = m.rule
    BY <2>1 DEF SameGroup
  <2>3. /\ n.log \in Logs /\ m.log \in Logs /\ n.rule \in matchLog(n.log)
        /\ n.at \in DOMAIN d /\ m.at \in DOMAIN d /\ n.log = d[n.at] /\ m.log = d[m.at]
    BY <1>2, <1>3, <2>1
  <2>4. ~(n.log.index = m.log.index /\ n.at < m.at)
    <3> SUFFICES ASSUME n.log.index = m.log.index, n.at < m.at
                 PROVE  FALSE
      OBVIOUS
    <3>1. n.log = m.log
      BY <2>2, <2>3, SameLog
    <3>2. n.at = m.at
      BY <1>1, <2>3, <3>1, ZenonT(60)
    <3>3. n.at \in Int
      BY <1>1, <2>3
    <3> QED
      BY <3>2, <3>3
  <2>5. n.log.number < m.log.number \/ (n.log.number = m.log.number /\ n.log.index < m.log.index)
    BY <2>1, <2>4 DEF SortsBefore
  <2> QED
    BY <2>2, <2>3, <2>5 DEF Earlier
<1>7. ASSUME NEW l \in E
      PROVE  l \in ToSet(logs) /\ \E n \in G : n.log = l
  <2>1. /\ l \in Logs /\ l.block = m.log.block /\ l.tx = m.log.tx /\ m.rule \in matchLog(l)
        /\ l.number < m.log.number \/ (l.number = m.log.number /\ l.index < m.log.index)
    BY DEF Earlier
  <2>2. m.log \in ToSet(logs) /\ m.rule \in RuleSet
    BY <1>2, <1>3
  <2>3. l \in ToSet(logs)
    BY <2>1, <2>2 DEF Complete
  <2>4. PICK i \in DOMAIN d : d[i] = l
    BY <1>1, <2>3
  <2> DEFINE n == [at |-> i, rule |-> m.rule, log |-> d[i]]
  <2>5. n \in M
    BY <1>4, <2>1, <2>2, <2>4
  <2>6. n.log = l /\ n.rule = m.rule
    BY <2>4
  <2> HIDE DEF n
  <2>7. SortsBefore(n, m) /\ SameGroup(n, m)
    BY <2>1, <2>6 DEF SortsBefore, SameGroup
  <2> QED
    BY <2>3, <2>5, <2>6, <2>7
<1> HIDE DEF G, E
<1>8. IsFiniteSet(E)
  <2>1. E \in SUBSET ToSet(logs)
    BY <1>7
  <2>2. IsFiniteSet(ToSet(logs))
    <3>1. ToSet(logs) = {logs[i] : i \in DOMAIN logs}
      BY DEF ToSet
    <3>2. DOMAIN logs = 1 .. Len(logs) /\ 1 \in Int /\ Len(logs) \in Int
      OBVIOUS
    <3>3. IsFiniteSet(DOMAIN logs)
      BY <3>2, FS_Interval
    <3> DEFINE g == [i \in DOMAIN logs |-> logs[i]]
    <3>4. g \in Surjection(DOMAIN logs, ToSet(logs))
      BY <3>1 DEF Surjection
    <3> QED
      BY <3>3, <3>4, FS_Surjection
  <2> QED
    BY <2>1, <2>2, FS_Subset
<1>9. f \in Bijection(G, E)
  <2>1. f \in [G -> E] /\ \A n, k \in G : f[n] = f[k] => n = k
    BY <1>5, <1>6
  <2>2. \A l \in E : \E n \in G : f[n] = l
    BY <1>7
  <2> QED
    BY <2>1, <2>2 DEF Bijection, Injection, Surjection, IsInjective
<1>10. Cardinality(G) = Cardinality(E)
  <2>1. ExistsBijection(G, E)
    BY <1>9 DEF ExistsBijection
  <2>2. ExistsBijection(E, G)
    BY <2>1, Fun_ExistsBijSymmetric
  <2> QED
    BY <1>8, <2>2, FS_Bijection
<1>11. /\ m.log \in Logs /\ m.rule \in matchLog(m.log) /\ m.rule \in RuleSet
  BY <1>2, <1>3
<1> QED
  BY <1>8, <1>10, <1>11 DEF G, E, M, d

LEMMA KeyedFits ==
  ASSUME NEW logs \in Seq(Logs), Complete(logs), NEW k \in Keyed(logs)
  PROVE  KeyFits(k)
<1> DEFINE M == Matches(dedupeLogs(logs))
           G(m) == {n \in M : SortsBefore(n, m) /\ SameGroup(n, m)}
<1>1. PICK m \in M :
        k = [key |-> [tx |-> m.log.tx, rule |-> m.rule.id, ordinal |-> Cardinality(G(m))],
             log |-> m.log]
  BY DEF Keyed, assignOrdinals
<1>2. /\ m.log \in Logs /\ m.rule \in matchLog(m.log) /\ m.rule \in RuleSet
      /\ IsFiniteSet(Earlier(m.log, m.rule))
      /\ Cardinality(G(m)) = Cardinality(Earlier(m.log, m.rule))
  BY OrdinalIsEarlier
<1> HIDE DEF M, G
<1>3. k.log = m.log
      /\ k.key = [tx |-> m.log.tx, rule |-> m.rule.id, ordinal |-> Cardinality(G(m))]
  BY <1>1
<1> QED
  BY <1>2, <1>3 DEF KeyFits

\* In one block, one of two logs comes before the other, and has a lower ordinal.
LEMMA LaterIsHigher ==
  ASSUME NEW r \in RuleSet, NEW l \in Logs, NEW o \in Logs, r \in matchLog(l),
         l.block = o.block, l.tx = o.tx,
         l.number < o.number \/ (l.number = o.number /\ l.index < o.index),
         IsFiniteSet(Earlier(o, r))
  PROVE  Cardinality(Earlier(l, r)) # Cardinality(Earlier(o, r))
<1>1. l.number \in Nat /\ o.number \in Nat /\ l.index \in Nat /\ o.index \in Nat
  BY MatchingAssumption
<1>2. ASSUME NEW x \in Earlier(l, r)
      PROVE  x \in Earlier(o, r)
  <2>1. x \in Logs /\ x.block = l.block /\ x.tx = l.tx /\ r \in matchLog(x)
    BY DEF Earlier
  <2>2. x.number < l.number \/ (x.number = l.number /\ x.index < l.index)
    BY DEF Earlier
  <2>3. x.number \in Nat /\ x.index \in Nat
    BY <2>1, MatchingAssumption
  <2>4. x.number < o.number \/ (x.number = o.number /\ x.index < o.index)
    BY <1>1, <2>2, <2>3
  <2> QED
    BY <2>1, <2>4 DEF Earlier
<1>3. l \in Earlier(o, r)
  BY DEF Earlier
<1>4. l \notin Earlier(l, r)
  BY <1>1 DEF Earlier
<1> QED
  BY <1>2, <1>3, <1>4, FS_Subset

MatchingInv == response \in Seq(Logs) /\ \A k \in keyed : KeyFits(k)

LEMMA MatchingInductive == MatchingInv /\ [MatchingNext]_matchingVars => MatchingInv'
<1> SUFFICES ASSUME MatchingInv, [MatchingNext]_matchingVars
             PROVE  MatchingInv'
  OBVIOUS
<1>1. CASE Scan
  <2>1. response \in Seq(Logs) /\ Complete(response)
        /\ keyed' = keyed \cup Keyed(response) /\ response' = << >>
    BY <1>1 DEF Scan, MatchingInv
  <2>2. \A k \in Keyed(response) : KeyFits(k)
    BY <2>1, KeyedFits
  <2> QED
    BY <2>1, <2>2 DEF MatchingInv
<1>2. ASSUME NEW log \in Logs, ProviderReturns(log)
      PROVE  MatchingInv'
  BY <1>2 DEF ProviderReturns, MatchingInv
<1>3. CASE UNCHANGED matchingVars
  BY <1>3 DEF matchingVars, MatchingInv
<1> QED
  BY <1>1, <1>2, <1>3 DEF MatchingNext

LEMMA FitKeysAreStable == MatchingInv => KeysStable
<1> SUFFICES ASSUME MatchingInv, NEW k \in keyed, NEW n \in keyed
             PROVE  /\ k.log = n.log /\ k.key.rule = n.key.rule => k.key = n.key
                    /\ k.key = n.key /\ k.log.block = n.log.block => k.log = n.log
  BY DEF KeysStable
<1>1. PICK r \in RuleSet :
        /\ k.log \in Logs /\ r \in matchLog(k.log) /\ IsFiniteSet(Earlier(k.log, r))
        /\ k.key = [tx |-> k.log.tx, rule |-> r.id, ordinal |-> Cardinality(Earlier(k.log, r))]
  BY DEF MatchingInv, KeyFits
<1>2. PICK s \in RuleSet :
        /\ n.log \in Logs /\ s \in matchLog(n.log) /\ IsFiniteSet(Earlier(n.log, s))
        /\ n.key = [tx |-> n.log.tx, rule |-> s.id, ordinal |-> Cardinality(Earlier(n.log, s))]
  BY DEF MatchingInv, KeyFits
<1>3. /\ k.key.rule = r.id /\ k.key.tx = k.log.tx
      /\ k.key.ordinal = Cardinality(Earlier(k.log, r))
      /\ n.key.rule = s.id /\ n.key.tx = n.log.tx
      /\ n.key.ordinal = Cardinality(Earlier(n.log, s))
  BY <1>1, <1>2
<1>4. k.key.rule = n.key.rule => r = s
  BY <1>3, MatchingAssumption
<1>5. k.log = n.log /\ k.key.rule = n.key.rule => k.key = n.key
  BY <1>1, <1>2, <1>4
<1>6. ASSUME k.key = n.key, k.log.block = n.log.block, k.log # n.log
      PROVE  FALSE
  <2> DEFINE l == k.log
             o == n.log
  <2>1. r = s /\ l.tx = o.tx /\ Cardinality(Earlier(l, r)) = Cardinality(Earlier(o, r))
    BY <1>3, <1>4, <1>6
  <2>2. l \in Logs /\ o \in Logs /\ r \in matchLog(l) /\ r \in matchLog(o)
        /\ IsFiniteSet(Earlier(l, r)) /\ IsFiniteSet(Earlier(o, r))
    BY <1>1, <1>2, <2>1
  <2>3. l.number \in Nat /\ o.number \in Nat /\ l.index \in Nat /\ o.index \in Nat
    BY <2>2, MatchingAssumption
  <2>4. l.index # o.index
    BY <1>6, <2>2, SameLog
  <2> HIDE DEF l, o
  <2>5. \/ l.number < o.number \/ (l.number = o.number /\ l.index < o.index)
        \/ o.number < l.number \/ (o.number = l.number /\ o.index < l.index)
    BY <2>3, <2>4
  <2>6. l.block = o.block
    BY <1>6 DEF l, o
  <2> QED
    BY <2>1, <2>2, <2>5, <2>6, LaterIsHigher
<1> QED
  BY <1>5, <1>6

LEMMA MatchingInitInv == MatchingInit => MatchingInv
BY DEF MatchingInit, MatchingInv

LEMMA MatchingSpecInv == MatchingSpec => []MatchingInv
BY MatchingInitInv, MatchingInductive, PTL DEF MatchingSpec

LEMMA MatchingInvTypes == MatchingInv => MatchingTypeOK
<1> SUFFICES ASSUME MatchingInv, NEW k \in keyed
             PROVE  k.log \in Logs /\ k.key.ordinal \in Nat
  BY DEF MatchingInv, MatchingTypeOK
<1>1. PICK r \in RuleSet :
        /\ k.log \in Logs /\ IsFiniteSet(Earlier(k.log, r))
        /\ k.key = [tx |-> k.log.tx, rule |-> r.id, ordinal |-> Cardinality(Earlier(k.log, r))]
  BY DEF MatchingInv, KeyFits
<1> QED
  BY <1>1, FS_CardinalityType

\* What is keyed is a log of the chain, and its ordinal a number (match.ts:34).
THEOREM MatchingTypes == MatchingSpec => []MatchingTypeOK
BY MatchingInvTypes, MatchingSpecInv, PTL

\* A log has one key for each rule it matches, in every scan, and in one block a key
\* has one log (match.ts:10-11, 34), whatever the order of an answer, whatever it
\* repeats, and whether it holds a transaction in two blocks.
THEOREM OneKeyEach == MatchingSpec => []KeysStable
BY MatchingSpecInv, FitKeysAreStable, PTL
=============================================================================
