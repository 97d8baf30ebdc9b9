------------------------------ MODULE Listing --------------------------------
(***************************************************************************)
(* The listings of the operator API, read page by page by the dashboard    *)
(* while rows come and go.  Rules and pending transactions are listed      *)
(* chain by chain, everything else is one partition of the table or of an  *)
(* index. Each page is a request of its own, and the cursor that the       *)
(* caller hands back is all that goes from one to the next.                *)
(***************************************************************************)
EXTENDS Integers, FiniteSets

CONSTANTS
  Chains,       \* how many chains there are to walk, in their order
  SortKeys,     \* rows of a partition, in the order of its query
  Unreadable,   \* rows <<chain, key>> whose item cannot be read
  Foreign,      \* rows of a signer that the caller may not use
  Limits        \* page sizes that a caller may ask for

ASSUME ListingAssumption ==
  /\ Chains \in Nat \ {0}
  /\ SortKeys \subseteq Nat
  /\ Limits \subseteq Nat \ {0}
  /\ Unreadable \cup Foreign \subseteq (1..Chains) \X SortKeys

Rows == (1..Chains) \X SortKeys
NoStart == -1

\* GET /v1/rules, /v1/relayer/txs, /v1/matches, /v1/deliveries?status=dead,
\* /v1/deliveries?subject= and /v1/relayer/signers.
Routes == {"rules", "txs", "matches", "dead", "subject", "signers"}
Walking == {"rules", "txs"}

\* "aside": in another status than the one that is listed.
Standings == {"absent", "listed", "aside"}

\* Where a page starts: on which chain, and after which of its keys.
Cursors == [at : 0..Chains, after : SortKeys \cup {NoStart}]
First == [at |-> 0, after |-> NoStart]

NoPage == [reading |-> FALSE, limit |-> 0, chains |-> {}, at |-> 0, after |-> NoStart, rows |-> {}]
NoMore == NoPage

VARIABLES
  route,
  chains,     \* those the listing walks: all, or the one that the caller named
  standing,   \* [Rows -> Standings]
  page,       \* the page that a request has filled so far, and where it goes on
  cursor,     \* what the next request will hand back
  seen,       \* how often each row was listed
  steady      \* history: rows that are to be listed ever since the listing began

listingVars == <<route, chains, standing, page, cursor, seen, steady>>

Least(S) == CHOOSE c \in S : \A d \in S : c <= d
LastOf(S) == CHOOSE k \in S : \A j \in S : j <= k

Listed(s) == {r \in Rows : s[r] = "listed"}
Nothing == [r \in Rows |-> "absent"]

ListingInit ==
  /\ route \in Routes
  /\ chains \in IF route \in Walking THEN {1..Chains} \cup {{c} : c \in 1..Chains} ELSE {{1}}
  /\ standing \in [Rows -> IF route = "matches" THEN Standings ELSE Standings \ {"aside"}]
  /\ \A r \in Rows : r[1] \notin chains => standing[r] = "absent"
  /\ page = NoPage
  /\ cursor = First
  /\ seen = [r \in Rows |-> 0]
  /\ steady = Listed(standing)

Done == cursor = NoMore

\* A rule is turned off or on, a transaction settles, a delivery dies or is
\* redriven, a match becomes final.
Changes(r, to) ==
  /\ r[1] \in chains /\ to # standing[r]
  /\ to = "aside" => route = "matches"
  /\ standing' = [standing EXCEPT ![r] = to]
  /\ steady' = steady \ {r}
  /\ UNCHANGED <<route, chains, page, cursor, seen>>

\* The last signer that relays on a chain, of those the caller may use, is gone.
SignerGone(c) ==
  /\ route = "txs" /\ c \in chains
  /\ chains' = chains \ {c}
  /\ steady' = {r \in steady : r[1] # c}
  /\ UNCHANGED <<route, standing, page, cursor, seen>>

(***************************************************************************)
(* Requests                                                                *)
(***************************************************************************)
\* The cursor names the chain that the page before it stopped on.
StartChain == IF cursor = First THEN Least(chains) ELSE cursor.at
CursorHolds == cursor = First \/ cursor.at \in chains

\* A request for the next page, with the cursor of the one before.
RequestPage(limit) ==
  /\ ~page.reading /\ ~Done /\ chains # {} /\ CursorHolds
  /\ page' = [reading |-> TRUE, limit |-> limit, chains |-> chains, at |-> StartChain,
              after |-> cursor.after, rows |-> {}]
  /\ UNCHANGED <<route, chains, standing, cursor, seen, steady>>

\* A cursor of a chain that is not walked any more is refused, and so is a chain
\* that the caller named; the listing starts anew.
Reload ==
  /\ ~page.reading /\ ~Done /\ ~CursorHolds
  /\ cursor' = First
  /\ seen' = [r \in Rows |-> 0]
  /\ steady' = {r \in Listed(standing) : r[1] \in chains}
  /\ UNCHANGED <<route, chains, standing, page>>

\* The request fails, and the dashboard asks with the same cursor again: what
\* the request had read was never shown.
PageFails ==
  /\ page.reading
  /\ page' = NoPage
  /\ UNCHANGED <<route, chains, standing, cursor, seen, steady>>

(***************************************************************************)
(* The queries: rows that are shown, and LastEvaluatedKey                  *)
(***************************************************************************)
Upto(S, n) == {k \in S : Cardinality({j \in S : j < k}) < n}

\* A query that its limit cut off comes with a key, and so may one that just
\* reached the end.
Cut(S, n) ==
  LET keys == Upto(S, n)
  IN {[keys |-> keys, last |-> l] :
        l \in (IF Cardinality(keys) = n THEN {LastOf(keys)} ELSE {})
              \cup (IF keys = S THEN {NoStart} ELSE {})}

\* The table may stop before the limit, when what it read is too large for one answer.
Query(S, n) == UNION {Cut(S, m) : m \in 1..n}

\* Of a sparse index: a row that is in another status is not in it.
Indexed(c, after) == {k \in SortKeys : standing[<<c, k>>] = "listed" /\ k > after}
AnyStatus(c, after) == {k \in SortKeys : standing[<<c, k>>] # "absent" /\ k > after}
Of(c, q) == {<<c, k>> : k \in q.keys}

\* A row that cannot be read is left out, and its neighbours are not.
Readable(rows) == rows \ Unreadable

listRules(c, after, n) ==
  {[rows |-> Readable(Of(c, q)), last |-> q.last] : q \in Query(Indexed(c, after), n)}

listPendingTxs(c, after, n) ==
  {[rows |-> Readable(Of(c, q)), last |-> q.last] : q \in Query(Indexed(c, after), n)}

\* The limit counts rows before the filter by status, which sets some aside.
listMatches(after, n) ==
  {[rows |-> Of(1, q) \cap Listed(standing), last |-> q.last] : q \in Query(AnyStatus(1, after), n)}

listDead(after, n) ==
  {[rows |-> Readable(Of(1, q)), last |-> q.last] : q \in Query(Indexed(1, after), n)}

listBySubject(after, n) ==
  {[rows |-> Readable(Of(1, q)), last |-> q.last] : q \in Query(AnyStatus(1, after), n)}

(***************************************************************************)
(* The handlers                                                            *)
(***************************************************************************)
Stop(rows, next) ==
  /\ page' = NoPage /\ cursor' = next
  /\ seen' = [r \in Rows |-> IF r \in rows THEN seen[r] + 1 ELSE seen[r]]

Left == page.limit - Cardinality(page.rows)
LaterChains == {c \in page.chains : c > page.at}

\* Mutant: the key of the cursor is used on every chain.
StartsSame(p) == p.after

\* Where the walk goes on, on the next chain: at its start.
StartsNext(p) == NoStart

\* The loop over the chains, after one query of it.
ReadOn(shown, last) ==
  LET rows == page.rows \cup shown
      next == Least(LaterChains)
  IN IF last # NoStart THEN Stop(rows, [at |-> page.at, after |-> last])
     ELSE IF LaterChains = {} THEN Stop(rows, NoMore)
     ELSE IF Cardinality(rows) >= page.limit THEN Stop(rows, [at |-> next, after |-> NoStart])
     ELSE /\ page' = [page EXCEPT !.at = next, !.after = StartsNext(page), !.rows = rows]
          /\ UNCHANGED <<cursor, seen>>

ListRules ==
  /\ page.reading /\ route = "rules"
  /\ \E q \in listRules(page.at, page.after, Left) : ReadOn(q.rows, q.last)
  /\ UNCHANGED <<route, chains, standing, steady>>

\* What the caller may not use is dropped from the page that was read: a page may
\* be short although there are more.
ListTxs ==
  /\ page.reading /\ route = "txs"
  /\ \E q \in listPendingTxs(page.at, page.after, Left) : ReadOn(q.rows \ Foreign, q.last)
  /\ UNCHANGED <<route, chains, standing, steady>>

AnswersPage(q) == Stop(q.rows, IF q.last = NoStart THEN NoMore ELSE [at |-> 1, after |-> q.last])

ListMatches ==
  /\ page.reading /\ route = "matches"
  /\ \E q \in listMatches(page.after, page.limit) : AnswersPage(q)
  /\ UNCHANGED <<route, chains, standing, steady>>

ListDead ==
  /\ page.reading /\ route = "dead"
  /\ \E q \in listDead(page.after, page.limit) : AnswersPage(q)
  /\ UNCHANGED <<route, chains, standing, steady>>

ListSubject ==
  /\ page.reading /\ route = "subject"
  /\ \E q \in listBySubject(page.after, page.limit) : AnswersPage(q)
  /\ UNCHANGED <<route, chains, standing, steady>>

\* Of a loop over the index, whatever the size of its pages.
signerPages(after) ==
  {[rows |-> Readable(Of(1, q)), last |-> q.last] :
     q \in UNION {Query(Indexed(1, after), n) : n \in Limits}}

\* All signers that the caller may use, in one answer.
ListSigners ==
  /\ page.reading /\ route = "signers"
  /\ \E q \in signerPages(page.after) :
       LET rows == page.rows \cup (q.rows \ Foreign)
       IN IF q.last = NoStart THEN Stop(rows, NoMore)
          ELSE page' = [page EXCEPT !.after = q.last, !.rows = rows] /\ UNCHANGED <<cursor, seen>>
  /\ UNCHANGED <<route, chains, standing, steady>>

ListingNext ==
  \/ \E r \in Rows, to \in Standings : Changes(r, to)
  \/ \E c \in 1..Chains : SignerGone(c)
  \/ \E n \in Limits : RequestPage(n)
  \/ Reload \/ PageFails
  \/ ListRules \/ ListTxs \/ ListMatches \/ ListDead \/ ListSubject \/ ListSigners

ListingSpec == ListingInit /\ [][ListingNext]_listingVars

ListingTypeOK ==
  /\ route \in Routes /\ chains \subseteq 1..Chains
  /\ standing \in [Rows -> Standings]
  /\ page \in [reading : BOOLEAN, limit : Limits \cup {0}, chains : SUBSET (1..Chains),
               at : 0..Chains, after : SortKeys \cup {NoStart}, rows : SUBSET Rows]
  /\ cursor \in Cursors \cup {NoMore}
  /\ seen \in [Rows -> Nat]
  /\ steady \subseteq Listed(standing)

Hidden == (IF route # "matches" THEN Unreadable ELSE {})
          \cup (IF route \in {"txs", "signers"} THEN Foreign ELSE {})

\* A row that is there all along is listed once when the listing is at its end,
\* whatever the page sizes, whatever came and went beside it and however few of
\* a page's rows are shown; a row that is hidden from the caller never is
\* (rules.ts:126-139, relayer-routes.ts:98-115, matches.ts:44-50).
ListedOnce ==
  /\ Done => \A r \in steady \ Hidden : seen[r] = 1
  /\ \A r \in steady : seen[r] <= 1
  /\ \A r \in Hidden : seen[r] = 0
=============================================================================
