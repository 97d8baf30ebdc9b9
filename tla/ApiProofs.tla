------------------------------ MODULE ApiProofs ------------------------------
(***************************************************************************)
(* Proofs about the operator API: a nonce signs in once and in time, a     *)
(* session or an API key grants what it may, an edit of a rule takes       *)
(* effect, and a listing shows each row once, for every set of nonces,     *)
(* wallets, requests, rules, containers and rows.                          *)
(***************************************************************************)
EXTENDS SignIn, Rules, Listing, FiniteSetTheorems, FunctionTheorems, WellFoundedInduction, TLAPS

(***************************************************************************)
(* Sign-in and sessions                                                    *)
(***************************************************************************)

Moments == Nat \cup {Never}

VerifierType == [pc : {"idle", "consume", "signature"}, message : Message \cup {NoMessage}, at : Nat]

SignInTyped ==
  /\ clock \in Nat
  /\ nonceRow \in [Nonces -> Moments] /\ issuedAt \in [Nonces -> Moments]
  /\ messages \subseteq Message
  /\ verifier \in [Verifiers -> VerifierType]
  /\ minted \in [Nonces -> Nat]

\* A nonce that is stored has not been spent, and is good from when it was issued.
RowFits(n) ==
  nonceRow[n] # Never =>
    /\ minted[n] = 0 /\ issuedAt[n] # Never /\ nonceRow[n] = issuedAt[n] + NONCE_SECONDS
    /\ \A v \in Verifiers : verifier[v].pc = "signature" => verifier[v].message.nonce # n

\* A nonce mints once, and not before it was issued.
MintedFits(n) == minted[n] <= 1 /\ (issuedAt[n] = Never => minted[n] = 0)

\* A request that spent its nonce spent it in time, and nothing was minted yet.
VerifierFits(v) ==
  /\ verifier[v].pc # "idle" =>
       /\ verifier[v].message \in messages /\ verifier[v].message \in Message
       /\ verifier[v].message.wallet \in AllowedWallets
       /\ verifier[v].message.ours /\ verifier[v].at < verifier[v].message.expires
       /\ issuedAt[verifier[v].message.nonce] # Never
  /\ verifier[v].pc = "signature" =>
       /\ minted[verifier[v].message.nonce] = 0
       /\ verifier[v].at < issuedAt[verifier[v].message.nonce] + NONCE_SECONDS

\* Of the requests that overlap, one spent the nonce.
OneSpender ==
  \A v, w \in Verifiers :
    /\ verifier[v].pc = "signature" /\ verifier[w].pc = "signature"
    /\ verifier[v].message.nonce = verifier[w].message.nonce
    => v = w

\* The message a session was minted for.
MintedFor(s, m) ==
  /\ m.genuine /\ m.ours /\ m.wallet = s.wallet /\ m.nonce = s.nonce
  /\ s.issuedAt < m.expires

SessionFits(s) ==
  /\ s \in Session /\ s.wallet \in AllowedWallets
  /\ issuedAt[s.nonce] # Never /\ s.issuedAt < issuedAt[s.nonce] + NONCE_SECONDS
  /\ \E m \in messages : MintedFor(s, m)

\* A session grants only for its own time.
GrantFits ==
  granted.who = "session" =>
    /\ granted.session \in sessions
    /\ granted.at < granted.session.issuedAt + SESSION_SECONDS /\ granted.at \in Nat

SignInInv ==
  /\ SignInTyped
  /\ \A n \in Nonces : RowFits(n) /\ MintedFits(n)
  /\ \A m \in messages : issuedAt[m.nonce] # Never
  /\ \A v \in Verifiers : VerifierFits(v)
  /\ OneSpender
  /\ \A s \in sessions : SessionFits(s)
  /\ GrantFits

LEMMA MomentTypes ==
  ASSUME SignInInv, NEW n \in Nonces
  PROVE  /\ issuedAt[n] \in Int /\ (issuedAt[n] # Never => issuedAt[n] \in Nat)
         /\ nonceRow[n] \in Int /\ (nonceRow[n] # Never => nonceRow[n] \in Nat)
         /\ minted[n] \in Nat
BY DEF SignInInv, SignInTyped, Moments, Never

LEMMA IdleType == IdleVerifier \in VerifierType /\ IdleVerifier.pc = "idle"
BY DEF IdleVerifier, VerifierType

\* A verify request that comes to nothing leaves the others as they were.
LEMMA BackToIdle ==
  ASSUME SignInInv, NEW v \in Verifiers, verifier' = [verifier EXCEPT ![v] = IdleVerifier],
         UNCHANGED <<clock, nonceRow, issuedAt, messages, sessions, minted, granted>>
  PROVE  SignInInv'
<1>1. /\ verifier' \in [Verifiers -> VerifierType] /\ verifier'[v].pc = "idle"
      /\ \A w \in Verifiers \ {v} : verifier'[w] = verifier[w]
  BY IdleType DEF SignInInv, SignInTyped
<1>2. SignInTyped'
  BY <1>1 DEF SignInInv, SignInTyped
<1>3. \A n \in Nonces : RowFits(n)' /\ MintedFits(n)'
  BY <1>1 DEF SignInInv, RowFits, MintedFits
<1>4. \A w \in Verifiers : VerifierFits(w)'
  BY <1>1 DEF SignInInv, VerifierFits
<1>5. OneSpender'
  BY <1>1 DEF SignInInv, OneSpender
<1>6. (\A m \in messages : issuedAt[m.nonce] # Never)' /\ (\A s \in sessions : SessionFits(s))'
      /\ GrantFits'
  BY DEF SignInInv, SessionFits, GrantFits
<1> QED
  BY <1>2, <1>3, <1>4, <1>5, <1>6 DEF SignInInv

(***************************************************************************)
(* Nonces                                                                  *)
(***************************************************************************)
LEMMA TickInv == ASSUME SignInInv, Tick PROVE SignInInv'
<1>1. clock' \in Nat
      /\ UNCHANGED <<nonceRow, issuedAt, messages, verifier, sessions, minted, granted>>
  BY DEF Tick, SignInInv, SignInTyped
<1> QED
  BY <1>1 DEF SignInInv, SignInTyped, RowFits, MintedFits, VerifierFits, OneSpender, SessionFits,
              GrantFits

LEMMA IssueNonceInv == ASSUME SignInInv, NEW n \in Nonces, IssueNonce(n) PROVE SignInInv'
<1>1. /\ issuedAt[n] = Never /\ nonceRow' = [nonceRow EXCEPT ![n] = clock + NONCE_SECONDS]
      /\ issuedAt' = [issuedAt EXCEPT ![n] = clock]
      /\ UNCHANGED <<clock, messages, verifier, sessions, minted, granted>>
  BY DEF IssueNonce
<1>2. clock \in Nat /\ clock + NONCE_SECONDS \in Nat /\ clock # Never
  BY SignInAssumption DEF SignInInv, SignInTyped, Never
<1>3. SignInTyped'
  BY <1>1, <1>2 DEF SignInInv, SignInTyped, Moments
<1>4. /\ issuedAt'[n] = clock /\ nonceRow'[n] = clock + NONCE_SECONDS
      /\ \A k \in Nonces \ {n} : issuedAt'[k] = issuedAt[k] /\ nonceRow'[k] = nonceRow[k]
  BY <1>1 DEF SignInInv, SignInTyped
<1>5. \A v \in Verifiers : verifier[v].pc # "idle" =>
        verifier[v].message.nonce \in Nonces \ {n}
  BY <1>1 DEF SignInInv, VerifierFits, Message
<1>6. ASSUME NEW k \in Nonces PROVE RowFits(k)' /\ MintedFits(k)'
  <2>1. CASE k = n
    BY <1>1, <1>2, <1>4, <1>5, <2>1 DEF SignInInv, RowFits, MintedFits
  <2>2. CASE k # n
    BY <1>1, <1>4, <2>2 DEF SignInInv, RowFits, MintedFits
  <2> QED
    BY <2>1, <2>2
<1>7. \A v \in Verifiers : VerifierFits(v)'
  BY <1>1, <1>4, <1>5 DEF SignInInv, VerifierFits
<1>8. \A s \in sessions : SessionFits(s)'
  BY <1>1, <1>4 DEF SignInInv, SessionFits, Session
<1>9. \A m \in messages : issuedAt'[m.nonce] # Never
  BY <1>1, <1>2, <1>4 DEF SignInInv, SignInTyped, Message
<1>10. OneSpender' /\ GrantFits'
  BY <1>1 DEF SignInInv, OneSpender, GrantFits
<1> QED
  BY <1>1, <1>3, <1>6, <1>7, <1>8, <1>9, <1>10 DEF SignInInv

\* A nonce that is gone from the table is no less spent.
LEMMA RowGone ==
  ASSUME SignInInv, NEW n \in Nonces, nonceRow' = [nonceRow EXCEPT ![n] = Never]
  PROVE  /\ nonceRow' \in [Nonces -> Moments] /\ nonceRow'[n] = Never
         /\ \A k \in Nonces \ {n} : nonceRow'[k] = nonceRow[k]
BY DEF SignInInv, SignInTyped, Moments

LEMMA NonceSweptInv == ASSUME SignInInv, NEW n \in Nonces, NonceSwept(n) PROVE SignInInv'
<1>1. nonceRow' = [nonceRow EXCEPT ![n] = Never]
      /\ UNCHANGED <<clock, issuedAt, messages, verifier, sessions, minted, granted>>
  BY DEF NonceSwept
<1>2. SignInTyped'
  BY <1>1, RowGone DEF SignInInv, SignInTyped
<1>3. \A k \in Nonces : RowFits(k)' /\ MintedFits(k)'
  BY <1>1, RowGone DEF SignInInv, RowFits, MintedFits
<1>4. /\ \A v \in Verifiers : VerifierFits(v)'
      /\ \A m \in messages : issuedAt'[m.nonce] # Never
      /\ \A s \in sessions : SessionFits(s)'
      /\ OneSpender' /\ GrantFits'
  BY <1>1 DEF SignInInv, VerifierFits, OneSpender, SessionFits, GrantFits
<1> QED
  BY <1>1, <1>2, <1>3, <1>4 DEF SignInInv

LEMMA SignInv == ASSUME SignInInv, NEW m \in Message, Sign(m) PROVE SignInInv'
<1>1. issuedAt[m.nonce] # Never /\ messages' = messages \cup {m}
      /\ UNCHANGED <<clock, nonceRow, issuedAt, verifier, sessions, minted, granted>>
  BY DEF Sign
<1> QED
  BY <1>1 DEF SignInInv, SignInTyped, RowFits, MintedFits, VerifierFits, OneSpender, SessionFits,
              GrantFits

(***************************************************************************)
(* Verify requests                                                         *)
(***************************************************************************)
LEMMA VerifyInv ==
  ASSUME SignInInv, NEW v \in Verifiers, NEW m \in messages, Verify(v, m)
  PROVE  SignInInv'
<1>1. PICK at \in clock .. clock + Skew :
        /\ Acceptable(m, at)
        /\ verifier' = [verifier EXCEPT ![v] = [pc |-> "consume", message |-> m, at |-> at]]
  BY DEF Verify
<1> DEFINE new == [pc |-> "consume", message |-> m, at |-> at]
<1>2. UNCHANGED <<clock, nonceRow, issuedAt, messages, sessions, minted, granted>>
  BY DEF Verify
<1>3. /\ at \in Nat /\ m \in Message /\ m.wallet \in AllowedWallets /\ issuedAt[m.nonce] # Never
      /\ m.ours /\ at < m.expires
  BY <1>1, SignInAssumption DEF SignInInv, SignInTyped, Acceptable, Message, Times
<1>4. new \in VerifierType /\ new.pc = "consume" /\ new.message = m /\ new.at = at
  BY <1>3 DEF VerifierType
<1>5. verifier' = [verifier EXCEPT ![v] = new]
  BY <1>1
<1> HIDE DEF new
<1>6. /\ verifier' \in [Verifiers -> VerifierType] /\ verifier'[v] = new
      /\ \A w \in Verifiers \ {v} : verifier'[w] = verifier[w]
  BY <1>4, <1>5 DEF SignInInv, SignInTyped
<1>7. SignInTyped'
  BY <1>2, <1>6 DEF SignInInv, SignInTyped
<1>8. \A n \in Nonces : RowFits(n)' /\ MintedFits(n)'
  BY <1>2, <1>4, <1>6 DEF SignInInv, RowFits, MintedFits
<1>9. \A w \in Verifiers : VerifierFits(w)'
  BY <1>2, <1>3, <1>4, <1>6 DEF SignInInv, VerifierFits
<1>10. OneSpender'
  BY <1>4, <1>6 DEF SignInInv, OneSpender
<1>11. /\ \A k \in messages : issuedAt'[k.nonce] # Never
       /\ \A s \in sessions : SessionFits(s)'
       /\ GrantFits'
  BY <1>2 DEF SignInInv, SessionFits, GrantFits
<1> QED
  BY <1>2, <1>7, <1>8, <1>9, <1>10, <1>11 DEF SignInInv

\* The conditional delete: of two requests one finds the row, and the row says
\* whether the nonce was still good when that request began.
LEMMA ConsumeInv == ASSUME SignInInv, NEW v \in Verifiers, Consume(v) PROVE SignInInv'
<1> DEFINE n == verifier[v].message.nonce
           new == IF InTime(n, verifier[v].at) THEN [verifier[v] EXCEPT !.pc = "signature"]
                                               ELSE IdleVerifier
<1>1. /\ verifier[v].pc = "consume" /\ nonceRow' = [nonceRow EXCEPT ![n] = Never]
      /\ verifier' = [verifier EXCEPT ![v] = new]
      /\ UNCHANGED <<clock, issuedAt, messages, sessions, minted, granted>>
  BY DEF Consume, Deleted
<1>2. /\ verifier[v] \in VerifierType /\ verifier[v].message \in Message /\ n \in Nonces
      /\ verifier[v].message.wallet \in AllowedWallets /\ issuedAt[n] # Never
      /\ verifier[v].message \in messages
      /\ verifier[v].message.ours /\ verifier[v].at < verifier[v].message.expires
  BY <1>1 DEF SignInInv, SignInTyped, VerifierFits, Message
<1>3. /\ new \in VerifierType /\ new.pc \in {"idle", "signature"}
      /\ new.pc = "signature" =>
           InTime(n, verifier[v].at) /\ new.message = verifier[v].message /\ new.at = verifier[v].at
  BY <1>2, IdleType DEF VerifierType
<1>4. new.pc = "signature" =>
        /\ new.message \in Message /\ new.message.nonce = n
        /\ new.message.wallet \in AllowedWallets
        /\ minted[n] = 0 /\ new.at < issuedAt[n] + NONCE_SECONDS
        /\ \A w \in Verifiers : verifier[w].pc = "signature" => verifier[w].message.nonce # n
  BY <1>2, <1>3 DEF SignInInv, RowFits, InTime
<1> HIDE DEF n, new
<1>5. /\ verifier' \in [Verifiers -> VerifierType] /\ verifier'[v] = new
      /\ \A w \in Verifiers \ {v} : verifier'[w] = verifier[w]
  BY <1>1, <1>3 DEF SignInInv, SignInTyped
<1>6. /\ nonceRow' \in [Nonces -> Moments] /\ nonceRow'[n] = Never
      /\ \A k \in Nonces \ {n} : nonceRow'[k] = nonceRow[k]
  BY <1>1, <1>2, RowGone
<1>7. SignInTyped'
  BY <1>1, <1>5, <1>6 DEF SignInInv, SignInTyped
<1>8. \A k \in Nonces : RowFits(k)' /\ MintedFits(k)'
  BY <1>1, <1>3, <1>4, <1>5, <1>6 DEF SignInInv, RowFits, MintedFits
<1>9. \A w \in Verifiers : VerifierFits(w)'
  BY <1>1, <1>2, <1>3, <1>4, <1>5 DEF SignInInv, VerifierFits
<1>10. OneSpender'
  BY <1>3, <1>4, <1>5 DEF SignInInv, OneSpender
<1>11. /\ \A k \in messages : issuedAt'[k.nonce] # Never
       /\ \A s \in sessions : SessionFits(s)'
       /\ GrantFits'
  BY <1>1 DEF SignInInv, SessionFits, GrantFits
<1> QED
  BY <1>1, <1>7, <1>8, <1>9, <1>10, <1>11 DEF SignInInv

LEMMA MintInv == ASSUME SignInInv, NEW v \in Verifiers, Mint(v) PROVE SignInInv'
<1> DEFINE m == verifier[v].message
           s == [wallet |-> m.wallet, nonce |-> m.nonce, issuedAt |-> verifier[v].at]
<1>1. /\ verifier[v].pc = "signature" /\ verifier' = [verifier EXCEPT ![v] = IdleVerifier]
      /\ UNCHANGED <<clock, nonceRow, issuedAt, messages, granted>>
      /\ \/ /\ m.genuine /\ sessions' = sessions \cup {s}
            /\ minted' = [minted EXCEPT ![m.nonce] = @ + 1]
         \/ UNCHANGED <<sessions, minted>>
  BY DEF Mint, Proven
<1>2. CASE UNCHANGED <<sessions, minted>>
  BY <1>1, <1>2, BackToIdle
<1>3. CASE /\ m.genuine /\ sessions' = sessions \cup {s}
           /\ minted' = [minted EXCEPT ![m.nonce] = @ + 1]
  <2> DEFINE n == m.nonce
  <2>1. /\ m \in Message /\ n \in Nonces /\ m.wallet \in AllowedWallets /\ m.wallet \in Wallets
        /\ issuedAt[n] # Never
        /\ minted[n] = 0 /\ verifier[v].at < issuedAt[n] + NONCE_SECONDS /\ verifier[v].at \in Nat
        /\ m \in messages /\ m.ours /\ verifier[v].at < m.expires
    BY <1>1 DEF SignInInv, SignInTyped, VerifierFits, VerifierType, Message
  <2>2. SessionFits(s)
    BY <1>3, <2>1 DEF SessionFits, Session, MintedFor
  <2>3. nonceRow[n] = Never
    BY <1>1, <2>1 DEF SignInInv, RowFits
  <2>4. \A w \in Verifiers \ {v} : verifier[w].pc = "signature" => verifier[w].message.nonce # n
    BY <1>1 DEF SignInInv, OneSpender
  <2>5. /\ verifier' \in [Verifiers -> VerifierType] /\ verifier'[v].pc = "idle"
        /\ \A w \in Verifiers \ {v} : verifier'[w] = verifier[w]
    BY <1>1, IdleType DEF SignInInv, SignInTyped
  <2>6. /\ minted' \in [Nonces -> Nat] /\ minted'[n] = 1
        /\ \A k \in Nonces \ {n} : minted'[k] = minted[k]
    BY <1>3, <2>1 DEF SignInInv, SignInTyped
  <2> HIDE DEF m, s, n
  <2>7. SignInTyped'
    BY <1>1, <2>5, <2>6 DEF SignInInv, SignInTyped
  <2>8. \A k \in Nonces : RowFits(k)' /\ MintedFits(k)'
    BY <1>1, <2>1, <2>3, <2>5, <2>6 DEF SignInInv, RowFits, MintedFits
  <2>9. ASSUME NEW w \in Verifiers PROVE VerifierFits(w)'
    <3>1. CASE w = v
      BY <2>5, <3>1 DEF VerifierFits
    <3>2. CASE w # v
      <4>1. verifier[w].pc # "idle" => verifier[w].message.nonce \in Nonces
        BY DEF SignInInv, VerifierFits, Message
      <4> QED
        BY <1>1, <2>4, <2>5, <2>6, <3>2, <4>1 DEF SignInInv, VerifierFits
    <3> QED
      BY <3>1, <3>2
  <2>10. OneSpender'
    BY <2>5 DEF SignInInv, OneSpender
  <2>11. \A t \in sessions' : SessionFits(t)'
    BY <1>1, <1>3, <2>2 DEF SignInInv, SessionFits
  <2>12. (\A k \in messages : issuedAt'[k.nonce] # Never) /\ GrantFits'
    BY <1>1, <1>3 DEF SignInInv, GrantFits
  <2> QED
    BY <1>1, <2>7, <2>8, <2>9, <2>10, <2>11, <2>12 DEF SignInInv
<1> QED
  BY <1>1, <1>2, <1>3

LEMMA VerifyDiesInv == ASSUME SignInInv, NEW v \in Verifiers, VerifyDies(v) PROVE SignInInv'
BY BackToIdle DEF VerifyDies

(***************************************************************************)
(* The authorizer                                                          *)
(***************************************************************************)
LEMMA GrantStep ==
  ASSUME SignInInv, GrantFits',
         UNCHANGED <<clock, nonceRow, issuedAt, messages, verifier, sessions, minted>>
  PROVE  SignInInv'
BY DEF SignInInv, SignInTyped, RowFits, MintedFits, VerifierFits, OneSpender, SessionFits

LEMMA AuthorizeSessionInv ==
  ASSUME SignInInv, NEW s \in sessions, AuthorizeSession(s)
  PROVE  SignInInv'
<1>1. PICK at \in clock .. clock + Skew :
        granted' = IF Valid(s, at) THEN [who |-> "session", session |-> s, at |-> at]
                   ELSE Refusal
  BY DEF AuthorizeSession
<1>2. UNCHANGED <<clock, nonceRow, issuedAt, messages, verifier, sessions, minted>>
  BY DEF AuthorizeSession
<1>3. CASE Valid(s, at)
  <2>1. at \in Nat /\ s.issuedAt \in Nat /\ SESSION_SECONDS \in Nat
    BY SignInAssumption DEF SignInInv, SignInTyped, SessionFits, Session
  <2>2. at < s.issuedAt + SESSION_SECONDS /\ at \in Nat
    BY <1>3, <2>1 DEF Valid
  <2>3. granted'.who = "session" /\ granted'.session = s /\ granted'.at = at
    BY <1>1, <1>3
  <2> QED
    BY <1>2, <2>2, <2>3, GrantStep DEF GrantFits
<1>4. CASE ~Valid(s, at)
  <2>1. granted'.who = "nobody"
    BY <1>1, <1>4 DEF Refusal
  <2> QED
    BY <1>2, <2>1, GrantStep DEF GrantFits
<1> QED
  BY <1>3, <1>4

LEMMA AuthorizeOtherInv ==
  ASSUME SignInInv, NEW cookie \in BOOLEAN, NEW key \in BOOLEAN, AuthorizeOther(cookie, key)
  PROVE  SignInInv'
<1>1. UNCHANGED <<clock, nonceRow, issuedAt, messages, verifier, sessions, minted>>
  BY DEF AuthorizeOther
<1>2. granted'.who # "session"
  BY DEF AuthorizeOther, Refusal
<1> QED
  BY <1>1, <1>2, GrantStep DEF GrantFits

(***************************************************************************)
(* The theorems                                                            *)
(***************************************************************************)
LEMMA SignInInitInv == SignInInit => SignInInv
<1> SUFFICES ASSUME SignInInit
             PROVE  SignInInv
  OBVIOUS
<1>1. /\ clock = 0 /\ nonceRow = [n \in Nonces |-> Never] /\ issuedAt = [n \in Nonces |-> Never]
      /\ messages = {} /\ verifier = [v \in Verifiers |-> IdleVerifier]
      /\ sessions = {} /\ minted = [n \in Nonces |-> 0] /\ granted.who = "nobody"
  BY DEF SignInInit, Refusal
<1>2. SignInTyped
  BY <1>1, IdleType DEF SignInTyped, Moments
<1>3. \A n \in Nonces : RowFits(n) /\ MintedFits(n)
  BY <1>1 DEF RowFits, MintedFits
<1>4. (\A v \in Verifiers : VerifierFits(v)) /\ OneSpender
  BY <1>1, IdleType DEF VerifierFits, OneSpender
<1>5. GrantFits
  BY <1>1 DEF GrantFits
<1> QED
  BY <1>1, <1>2, <1>3, <1>4, <1>5 DEF SignInInv

LEMMA SignInNextInv == ASSUME SignInInv, [SignInNext]_signInVars PROVE SignInInv'
<1>1. CASE UNCHANGED signInVars
  BY <1>1 DEF signInVars, SignInInv, SignInTyped, RowFits, MintedFits, VerifierFits, OneSpender,
              SessionFits, GrantFits
<1>2. CASE SignInNext
  BY <1>2, TickInv, IssueNonceInv, NonceSweptInv, SignInv, VerifyInv, ConsumeInv, MintInv,
     VerifyDiesInv, AuthorizeSessionInv, AuthorizeOtherInv
  DEF SignInNext
<1> QED
  BY <1>1, <1>2

LEMMA SignInSpecInv == SignInSpec => []SignInInv
BY SignInInitInv, SignInNextInv, PTL DEF SignInSpec

\* A nonce mints one session at most, for an allowed wallet and before it is
\* over, whatever requests overlap and however far clocks differ
\* (auth-routes.ts:34, store.ts:228).
THEOREM NonceSignsInOnce == SignInSpec => []NonceSpentOnce
<1>1. SignInInv => NonceSpentOnce
  BY DEF SignInInv, MintedFits, SessionFits, NonceSpentOnce
<1> QED
  BY <1>1, SignInSpecInv, PTL

\* What the API grants a session goes back to a message that an allowed wallet
\* signed for this site, and ends with a session's time after that message's and
\* its nonce's, whatever requests overlap and however far clocks differ
\* (auth-routes.ts:34-51, authorizer.ts:29).
THEOREM GrantsTraced == SignInSpec => []GrantTraced
<1>1. ASSUME SignInInv, granted.who = "session" PROVE GrantTraced
  <2> DEFINE s == granted.session
  <2>1. /\ s \in sessions /\ SessionFits(s)
        /\ granted.at < s.issuedAt + SESSION_SECONDS /\ granted.at \in Nat
    BY <1>1 DEF SignInInv, GrantFits
  <2>2. PICK m \in messages : MintedFor(s, m)
    BY <2>1 DEF SessionFits
  <2>3. /\ s.issuedAt \in Nat /\ m.expires \in Nat /\ issuedAt[s.nonce] \in Int
        /\ SESSION_SECONDS \in Nat /\ NONCE_SECONDS \in Nat
    BY <1>1, <2>1, <2>2, MomentTypes, SignInAssumption
    DEF SessionFits, Session, SignInInv, SignInTyped, Message, Times
  <2>4. /\ granted.at < m.expires + SESSION_SECONDS
        /\ granted.at < issuedAt[m.nonce] + NONCE_SECONDS + SESSION_SECONDS
    BY <2>1, <2>2, <2>3 DEF SessionFits, MintedFor
  <2> QED
    BY <2>1, <2>2, <2>4 DEF GrantTraced, SessionFits, MintedFor
<1>2. SignInInv => GrantTraced
  BY <1>1 DEF GrantTraced
<1> QED
  BY <1>2, SignInSpecInv, PTL

(***************************************************************************)
(* The types of sign-in                                                    *)
(***************************************************************************)
LEMMA RunTyped ==
  ASSUME SignInTypeOK, NEW v \in Verifiers
  PROVE  /\ verifier[v].message \in Message /\ verifier[v].at \in Nat
         /\ verifier[v].message.nonce \in Nonces /\ verifier[v].message.wallet \in Wallets
         /\ [verifier[v] EXCEPT !.pc = "signature"]
              \in [pc : {"idle", "consume", "signature"}, message : Message, at : Nat]
BY DEF SignInTypeOK, Message

\* A clock's reading: ahead of the time by the skew at most.
LEMMA AheadTyped ==
  ASSUME SignInTypeOK, NEW at \in clock .. clock + Skew
  PROVE  at \in Nat
BY SignInAssumption DEF SignInTypeOK, Times

LEMMA SignInInitTyped == ASSUME Nonces # {}, Wallets # {}, SignInInit PROVE SignInTypeOK
<1>1. (CHOOSE n \in Nonces : TRUE) \in Nonces /\ (CHOOSE w \in Wallets : TRUE) \in Wallets
  OBVIOUS
<1>2. NoMessage \in Message /\ NoMessage.nonce \in Nonces /\ NoMessage.wallet \in Wallets
  BY <1>1, SignInAssumption DEF NoMessage, Message, Times
<1>3. NoSession \in Session
  BY <1>2 DEF NoSession, Session
<1>4. 0 \in Times
  BY SignInAssumption DEF Times
<1> QED
  BY <1>2, <1>3, <1>4 DEF SignInInit, SignInTypeOK, IdleVerifier, Refusal, Requester

LEMMA SignInNextTyped ==
  ASSUME SignInTypeOK, Nonces # {}, Wallets # {}, [SignInNext]_signInVars
  PROVE  SignInTypeOK'
<1> DEFINE RunType == [pc : {"idle", "consume", "signature"}, message : Message, at : Nat]
<1>1. NoMessage \in Message /\ NoSession \in Session /\ IdleVerifier \in RunType
  <2>1. (CHOOSE n \in Nonces : TRUE) \in Nonces /\ (CHOOSE w \in Wallets : TRUE) \in Wallets
    OBVIOUS
  <2> QED
    BY <2>1, SignInAssumption DEF NoMessage, Message, Times, NoSession, Session, IdleVerifier
<1>2. CASE UNCHANGED signInVars
  BY <1>2 DEF signInVars, SignInTypeOK
<1>3. CASE Tick
  BY <1>3, SignInAssumption DEF Tick, SignInTypeOK, Times
<1>4. ASSUME NEW n \in Nonces, IssueNonce(n) \/ NonceSwept(n) PROVE SignInTypeOK'
  BY <1>4, SignInAssumption DEF IssueNonce, NonceSwept, SignInTypeOK, Times
<1>5. ASSUME NEW m \in Message, Sign(m) PROVE SignInTypeOK'
  BY <1>5 DEF Sign, SignInTypeOK
<1>6. ASSUME NEW v \in Verifiers, NEW m \in messages, Verify(v, m) PROVE SignInTypeOK'
  <2>1. PICK at \in clock .. clock + Skew :
          verifier' = [verifier EXCEPT ![v] = [pc |-> "consume", message |-> m, at |-> at]]
    BY <1>6 DEF Verify
  <2>2. [pc |-> "consume", message |-> m, at |-> at] \in RunType
    BY AheadTyped DEF SignInTypeOK
  <2> QED
    BY <1>6, <2>1, <2>2 DEF Verify, SignInTypeOK
<1>7. ASSUME NEW v \in Verifiers, Consume(v) PROVE SignInTypeOK'
  <2>1. verifier' \in [Verifiers -> RunType]
    BY <1>1, <1>7, RunTyped DEF Consume, SignInTypeOK
  <2>2. nonceRow' \in [Nonces -> Nat \cup {Never}]
    BY <1>7, RunTyped DEF Consume, Deleted, SignInTypeOK
  <2> QED
    BY <1>7, <2>1, <2>2 DEF Consume, SignInTypeOK
<1>8. ASSUME NEW v \in Verifiers, Mint(v) PROVE SignInTypeOK'
  <2>1. verifier' \in [Verifiers -> RunType]
    BY <1>1, <1>8 DEF Mint, SignInTypeOK
  <2>2. sessions' \subseteq Session
    BY <1>8, RunTyped DEF Mint, SignInTypeOK, Session
  <2>3. minted' \in [Nonces -> Nat]
    BY <1>8, RunTyped DEF Mint, SignInTypeOK
  <2> QED
    BY <1>8, <2>1, <2>2, <2>3 DEF Mint, SignInTypeOK
<1>9. ASSUME NEW v \in Verifiers, VerifyDies(v) PROVE SignInTypeOK'
  BY <1>1, <1>9 DEF VerifyDies, SignInTypeOK
<1>10. ASSUME NEW s \in sessions, AuthorizeSession(s) PROVE SignInTypeOK'
  <2>1. PICK at \in clock .. clock + Skew :
          granted' = IF Valid(s, at)
                       THEN [who |-> "session", session |-> s, at |-> at]
                       ELSE Refusal
    BY <1>10 DEF AuthorizeSession
  <2>2. granted' \in [who : Requester, session : Session, at : Nat]
    BY <1>1, <2>1, AheadTyped DEF SignInTypeOK, Requester, Refusal
  <2> QED
    BY <1>10, <2>2 DEF AuthorizeSession, SignInTypeOK
<1>11. ASSUME NEW cookie \in BOOLEAN, NEW key \in BOOLEAN, AuthorizeOther(cookie, key) PROVE SignInTypeOK'
  BY <1>1, <1>11 DEF AuthorizeOther, SignInTypeOK, Requester, Refusal, Times
<1> QED
  BY <1>2, <1>3, <1>4, <1>5, <1>6, <1>7, <1>8, <1>9, <1>10, <1>11 DEF SignInNext

\* What sign-in stores and grants keeps its types: a session is a wallet's for a nonce,
\* and a row's time is a number (auth-routes.ts:20-70, authorizer.ts:20-50).
THEOREM SignInTypes == ASSUME Nonces # {}, Wallets # {} PROVE SignInSpec => []SignInTypeOK
<1>1. SignInInit => SignInTypeOK
  BY SignInInitTyped
<1>2. SignInTypeOK /\ [SignInNext]_signInVars => SignInTypeOK'
  BY SignInNextTyped
<1> QED
  BY <1>1, <1>2, PTL DEF SignInSpec

(***************************************************************************)
(* Edits of rules                                                          *)
(***************************************************************************)

EditUnderWay == [body : Bodies, active : Flags, found : BOOLEAN]
Entry == [readAt : Nat, value : Views]
Reading == [since : Nat, read : BOOLEAN, value : Views]

RulesTyped ==
  /\ minute \in Nat /\ edits \in Nat
  /\ rule \in StoredRules \cup {Nought}
  /\ edit \in [Editors -> EditUnderWay \cup {NoEdit}]
  /\ entry \in [Caches -> Entry \cup {NoEntry}]
  /\ reading \in [Caches -> Reading \cup {NoRead}]
  /\ lastHeld \in [Views -> Nat \cup {Nought}]
  /\ overlapped \in BOOLEAN

\* What the rule is now it is held at this moment, and nothing is held later.
HeldFits ==
  /\ lastHeld[ViewOf(rule)] = minute
  /\ \A v \in Views : lastHeld[v] # Nought => lastHeld[v] <= minute

\* A read under way is young, and what it has read was held since it began.
ReadingFits(c) ==
  /\ reading[c] # NoRead => reading[c].since <= minute /\ minute - reading[c].since <= MaxLoad
  /\ reading[c].read =>
       /\ reading[c] # NoRead
       /\ lastHeld[reading[c].value] # Nought
       /\ lastHeld[reading[c].value] >= reading[c].since

\* A cached view was held a read before it was cached.
EntryFits(c) ==
  entry[c] # NoEntry =>
    /\ entry[c].readAt <= minute
    /\ lastHeld[entry[c].value] # Nought
    /\ entry[c].readAt - lastHeld[entry[c].value] <= MaxLoad

\* Without overlap one edit is under way, and the rule is as that edit found it.
EditsApart ==
  ~overlapped =>
    /\ said = (IF rule = Nought THEN Nought ELSE rule.active)
    /\ \A e, f \in Editors : edit[e] # NoEdit /\ edit[f] # NoEdit => e = f
    /\ \A e \in Editors : edit[e] # NoEdit => rule # Nought /\ edit[e].found = rule.active

\* Before the first edit, none is under way.
NoneYet == edits = 0 => \A e \in Editors : edit[e] = NoEdit

Cached == \A c \in Caches : ReadingFits(c) /\ EntryFits(c)

RulesInv == RulesTyped /\ HeldFits /\ Cached /\ EditsApart /\ NoneYet

LEMMA ViewType ==
  ASSUME NEW stored \in StoredRules \cup {Nought}
  PROVE  ViewOf(stored) \in Views
BY DEF ViewOf, Views, StoredRules

LEMMA NoughtApart ==
  /\ \A x \in Int : x # Nought
  /\ \A x \in Bodies : x # Nought
  /\ \A x \in BOOLEAN : x # Nought
  /\ Nought \in Views
BY RulesAssumption DEF Views

LEMMA CacheTypes ==
  ASSUME RulesInv, NEW c \in Caches
  PROVE  /\ entry[c] # NoEntry => entry[c] \in Entry /\ entry[c].value \in Views /\ entry[c].readAt \in Nat
         /\ reading[c] # NoRead => /\ reading[c] \in Reading /\ reading[c].value \in Views
                                   /\ reading[c].since \in Nat /\ reading[c].read \in BOOLEAN
         /\ minute \in Nat
BY DEF RulesInv, RulesTyped, Entry, Reading

LEMMA HeldType ==
  ASSUME RulesInv, NEW v \in Views, lastHeld[v] # Nought
  PROVE  lastHeld[v] \in Nat
BY DEF RulesInv, RulesTyped

LEMMA InvTakesEffect == RulesInv => EditsTakeEffect
<1> SUFFICES ASSUME RulesInv
             PROVE  LastWordStands /\ PlansAreRecent
  BY DEF EditsTakeEffect
<1>1. LastWordStands
  BY DEF RulesInv, EditsApart, LastWordStands
<1>2. ASSUME NEW c \in Caches, Fresh(c)
      PROVE  minute - lastHeld[entry[c].value] <= TTL + MaxLoad
  <2>1. /\ entry[c].value \in Views /\ entry[c].readAt \in Nat /\ minute \in Nat
        /\ minute - entry[c].readAt < TTL
    BY <1>2, CacheTypes DEF Fresh
  <2>2. lastHeld[entry[c].value] # Nought /\ entry[c].readAt - lastHeld[entry[c].value] <= MaxLoad
    BY <1>2 DEF Fresh, RulesInv, Cached, EntryFits
  <2>3. lastHeld[entry[c].value] \in Nat
    BY <2>1, <2>2, HeldType
  <2> QED
    BY <2>1, <2>2, <2>3, RulesAssumption
<1>3. ASSUME NEW c \in Caches, reading[c].read
      PROVE  minute - lastHeld[reading[c].value] <= MaxLoad
  <2>1. /\ reading[c] # NoRead
        /\ lastHeld[reading[c].value] # Nought /\ lastHeld[reading[c].value] >= reading[c].since
        /\ minute - reading[c].since <= MaxLoad
    BY <1>3 DEF RulesInv, Cached, ReadingFits
  <2>2. reading[c].value \in Views /\ reading[c].since \in Nat /\ minute \in Nat
    BY <2>1, CacheTypes
  <2>3. lastHeld[reading[c].value] \in Nat
    BY <2>1, <2>2, HeldType
  <2> QED
    BY <2>1, <2>2, <2>3, RulesAssumption
<1> QED
  BY <1>1, <1>2, <1>3 DEF PlansAreRecent

(***************************************************************************)
(* Edits                                                                   *)
(***************************************************************************)
\* A change of the stored rule is held from now on, and what was held stays so.
LEMMA StoresHeld ==
  ASSUME RulesInv, NEW next \in StoredRules \cup {Nought}, Stores(next), UNCHANGED minute
  PROVE  /\ rule' = next /\ lastHeld' \in [Views -> Nat \cup {Nought}] /\ HeldFits'
         /\ \A v \in Views : lastHeld[v] # Nought => lastHeld'[v] # Nought /\ lastHeld'[v] >= lastHeld[v]
<1> DEFINE u == ViewOf(rule)
           w == ViewOf(next)
<1>1. u \in Views /\ w \in Views
  BY ViewType DEF RulesInv, RulesTyped
<1>2. rule' = next /\ lastHeld' = [lastHeld EXCEPT ![u] = minute, ![w] = minute]
  BY DEF Stores
<1>3. minute \in Nat /\ minute # Nought /\ lastHeld \in [Views -> Nat \cup {Nought}]
      /\ \A v \in Views : lastHeld[v] # Nought => lastHeld[v] <= minute
  BY NoughtApart DEF RulesInv, RulesTyped, HeldFits
<1>4. ViewOf(rule') = w
  BY <1>2
<1> HIDE DEF u, w
<1>5. /\ lastHeld' \in [Views -> Nat \cup {Nought}]
      /\ lastHeld'[w] = minute
      /\ \A v \in Views : lastHeld'[v] = IF v = u \/ v = w THEN minute ELSE lastHeld[v]
  BY <1>1, <1>2, <1>3
<1>6. HeldFits'
  BY <1>3, <1>4, <1>5 DEF HeldFits
<1>7. ASSUME NEW v \in Views, lastHeld[v] # Nought
      PROVE  lastHeld'[v] # Nought /\ lastHeld'[v] >= lastHeld[v]
  BY <1>3, <1>5, <1>7
<1> QED
  BY <1>2, <1>5, <1>6, <1>7

\* ... so that what is cached or being read stays as recent as it was.
LEMMA CachedStays ==
  ASSUME RulesInv, UNCHANGED <<minute, entry, reading>>,
         lastHeld' \in [Views -> Nat \cup {Nought}],
         \A v \in Views : lastHeld[v] # Nought => lastHeld'[v] # Nought /\ lastHeld'[v] >= lastHeld[v]
  PROVE  Cached'
<1> SUFFICES ASSUME NEW c \in Caches
             PROVE  ReadingFits(c)' /\ EntryFits(c)'
  BY DEF Cached
<1>1. ReadingFits(c) /\ EntryFits(c)
  BY DEF RulesInv, Cached
<1>2. EntryFits(c)'
  <2> SUFFICES ASSUME entry[c] # NoEntry
               PROVE  EntryFits(c)'
    BY DEF EntryFits
  <2> DEFINE v == entry[c].value
  <2>1. v \in Views /\ entry[c].readAt \in Nat /\ lastHeld[v] # Nought
        /\ entry[c].readAt - lastHeld[v] <= MaxLoad /\ entry[c].readAt <= minute
    BY <1>1, CacheTypes DEF EntryFits
  <2>2. lastHeld[v] \in Nat /\ lastHeld'[v] \in Nat /\ lastHeld'[v] >= lastHeld[v]
        /\ lastHeld'[v] # Nought
    BY <2>1, HeldType
  <2>3. entry[c].readAt - lastHeld'[v] <= MaxLoad
    BY <2>1, <2>2, RulesAssumption
  <2> QED
    BY <2>1, <2>2, <2>3 DEF EntryFits
<1>3. ReadingFits(c)'
  <2>1. CASE ~reading[c].read
    BY <1>1, <2>1 DEF ReadingFits
  <2>2. CASE reading[c].read
    <3> DEFINE v == reading[c].value
    <3>1. reading[c] # NoRead /\ v \in Views /\ reading[c].since \in Nat /\ lastHeld[v] # Nought
          /\ lastHeld[v] >= reading[c].since
      BY <1>1, <2>2, CacheTypes DEF ReadingFits
    <3>2. lastHeld[v] \in Nat /\ lastHeld'[v] \in Nat /\ lastHeld'[v] >= lastHeld[v]
          /\ lastHeld'[v] # Nought
      BY <3>1, HeldType
    <3>3. lastHeld'[v] >= reading[c].since
      BY <3>1, <3>2
    <3> QED
      BY <1>1, <2>2, <3>1, <3>2, <3>3 DEF ReadingFits
  <2> QED
    BY <2>1, <2>2
<1> QED
  BY <1>2, <1>3

\* Stores with the rest of the state: what an edit leaves to show.
LEMMA StoresStep ==
  ASSUME RulesInv, NEW next \in StoredRules \cup {Nought}, Stores(next),
         UNCHANGED <<minute, entry, reading>>, edits' \in Nat, overlapped' \in BOOLEAN,
         edit' \in [Editors -> EditUnderWay \cup {NoEdit}], EditsApart', NoneYet'
  PROVE  RulesInv'
<1>1. /\ rule' = next /\ lastHeld' \in [Views -> Nat \cup {Nought}] /\ HeldFits'
      /\ \A v \in Views : lastHeld[v] # Nought => lastHeld'[v] # Nought /\ lastHeld'[v] >= lastHeld[v]
  BY StoresHeld
<1>2. Cached'
  BY <1>1, CachedStays
<1>3. RulesTyped'
  BY <1>1 DEF RulesInv, RulesTyped
<1> QED
  BY <1>1, <1>2, <1>3 DEF RulesInv

LEMMA EditTypes ==
  ASSUME RulesInv
  PROVE  /\ edits \in Nat /\ overlapped \in BOOLEAN
         /\ edit \in [Editors -> EditUnderWay \cup {NoEdit}]
         /\ (rule # Nought => rule \in StoredRules /\ rule.active \in BOOLEAN)
BY DEF RulesInv, RulesTyped, StoredRules

\* Nothing stored is no rule.
LEMMA StoredIsARule == \A r \in StoredRules : r # Nought
BY RulesAssumption

LEMMA CreateRuleInv ==
  ASSUME RulesInv, NEW body \in Bodies \cup Invalid, CreateRule(body)
  PROVE  RulesInv'
<1> DEFINE next == [body |-> body, active |-> TRUE]
<1>1. /\ edits = 0 /\ edits' = edits + 1 /\ overlapped' = overlapped /\ body \in Bodies
      /\ Stores(next) /\ said' = TRUE /\ UNCHANGED <<minute, edit, entry, reading>>
  BY DEF CreateRule, Begins, Passes
<1>2. next \in StoredRules /\ next.active = TRUE
  BY <1>1 DEF StoredRules
<1>3. next # Nought
  BY <1>2, StoredIsARule
<1> HIDE DEF next
<1>4. rule' = next /\ \A e \in Editors : edit'[e] = NoEdit
  BY <1>1 DEF Stores, RulesInv, NoneYet
<1>5. EditsApart' /\ NoneYet'
  BY <1>1, <1>2, <1>3, <1>4 DEF EditsApart, NoneYet
<1>6. edits' \in Nat /\ overlapped' \in BOOLEAN
      /\ edit' \in [Editors -> EditUnderWay \cup {NoEdit}]
  BY <1>1, EditTypes
<1> QED
  BY <1>1, <1>2, <1>5, <1>6, StoresStep

LEMMA DeleteRuleInv == ASSUME RulesInv, DeleteRule PROVE RulesInv'
<1>1. /\ edits' = edits + 1 /\ overlapped' = (overlapped \/ Editing # {})
      /\ Stores(Nought) /\ said' = Nought /\ UNCHANGED <<minute, edit, entry, reading>>
  BY DEF DeleteRule, Begins
<1>2. ~overlapped' => \A e \in Editors : edit'[e] = NoEdit
  BY <1>1 DEF Editing
<1>3. rule' = Nought
  BY <1>1 DEF Stores
<1>4. EditsApart'
  BY <1>1, <1>2, <1>3 DEF EditsApart
<1>5. edits' \in Nat /\ edits' # 0 /\ overlapped' \in BOOLEAN
      /\ edit' \in [Editors -> EditUnderWay \cup {NoEdit}]
  BY <1>1, EditTypes
<1>6. NoneYet'
  BY <1>5 DEF NoneYet
<1> QED
  BY <1>1, <1>4, <1>5, <1>6, StoresStep

\* Steps of an edit that leave the stored rule as it is.
LEMMA EditStep ==
  ASSUME RulesInv, UNCHANGED <<minute, rule, entry, reading, lastHeld>>, edits' \in Nat,
         overlapped' \in BOOLEAN, edit' \in [Editors -> EditUnderWay \cup {NoEdit}],
         EditsApart', NoneYet'
  PROVE  RulesInv'
<1>1. RulesTyped' /\ HeldFits'
  BY DEF RulesInv, RulesTyped, HeldFits
<1>2. Cached'
  BY DEF RulesInv, Cached, ReadingFits, EntryFits
<1> QED
  BY <1>1, <1>2 DEF RulesInv

LEMMA ReadForPatchInv ==
  ASSUME RulesInv, NEW e \in Editors, NEW body \in Bodies \cup Invalid, NEW active \in Flags,
         ReadForPatch(e, body, active)
  PROVE  RulesInv'
<1>1. /\ edit[e] = NoEdit /\ edits' = edits + 1 /\ overlapped' = (overlapped \/ Editing # {})
      /\ UNCHANGED <<minute, rule, entry, reading, lastHeld, said>>
  BY DEF ReadForPatch, Begins
<1>2. edits' \in Nat /\ edits' # 0 /\ overlapped' \in BOOLEAN
  BY <1>1, EditTypes
<1>3. NoneYet'
  BY <1>2 DEF NoneYet
<1>4. CASE edit' = edit
  <2>1. EditsApart'
    BY <1>1, <1>4 DEF RulesInv, EditsApart
  <2> QED
    BY <1>1, <1>2, <1>3, <1>4, <2>1, EditTypes, EditStep
<1>5. CASE rule # Nought /\ body \in Bodies
           /\ edit' = [edit EXCEPT ![e] = [body |-> body, active |-> active, found |-> rule.active]]
  <2> DEFINE new == [body |-> body, active |-> active, found |-> rule.active]
  <2>1. new \in EditUnderWay /\ new.found = rule.active
    BY <1>1, <1>5, EditTypes DEF EditUnderWay
  <2>2. edit' = [edit EXCEPT ![e] = new]
    BY <1>5
  <2> HIDE DEF new
  <2>3. /\ edit' \in [Editors -> EditUnderWay \cup {NoEdit}] /\ edit'[e] = new
        /\ \A f \in Editors \ {e} : edit'[f] = edit[f]
    BY <2>1, <2>2, EditTypes
  <2>4. ~overlapped' => ~overlapped /\ \A f \in Editors \ {e} : edit'[f] = NoEdit
    <3>1. ~overlapped' => ~overlapped /\ Editing = {}
      BY <1>1
    <3>2. Editing = {} => \A f \in Editors \ {e} : edit[f] = NoEdit
      BY DEF Editing
    <3> QED
      BY <2>3, <3>1, <3>2
  <2>5. EditsApart'
    BY <1>1, <1>5, <2>1, <2>3, <2>4 DEF RulesInv, EditsApart
  <2> QED
    BY <1>1, <1>2, <1>3, <2>3, <2>5, EditStep
<1> QED
  BY <1>4, <1>5 DEF ReadForPatch, Passes

\* The edit is over.
LEMMA EditOver ==
  ASSUME RulesInv, NEW e \in Editors, edit' = [edit EXCEPT ![e] = NoEdit]
  PROVE  /\ edit' \in [Editors -> EditUnderWay \cup {NoEdit}] /\ edit'[e] = NoEdit
         /\ \A f \in Editors \ {e} : edit'[f] = edit[f]
BY EditTypes

LEMMA PatchDiesInv == ASSUME RulesInv, NEW e \in Editors, PatchDies(e) PROVE RulesInv'
<1>1. edit' = [edit EXCEPT ![e] = NoEdit]
      /\ UNCHANGED <<minute, rule, entry, reading, lastHeld, said, overlapped, edits>>
  BY DEF PatchDies
<1>2. EditsApart' /\ NoneYet'
  BY <1>1, EditOver DEF RulesInv, EditsApart, NoneYet
<1> QED
  BY <1>1, <1>2, EditOver, EditTypes, EditStep

LEMMA PutPatchedInv == ASSUME RulesInv, NEW e \in Editors, PutPatched(e) PROVE RulesInv'
<1> DEFINE next == [body |-> edit[e].body, active |-> ActiveAfter(e)]
<1>1. /\ edit[e] # NoEdit /\ Stores(next) /\ edit' = [edit EXCEPT ![e] = NoEdit]
      /\ said' = IF edit[e].active = Nought THEN said ELSE edit[e].active
      /\ UNCHANGED <<minute, entry, reading, overlapped, edits>>
  BY DEF PutPatched
<1>2. edit[e] \in EditUnderWay
  BY <1>1, EditTypes
<1>3. /\ next \in StoredRules /\ next # Nought /\ next.active = ActiveAfter(e)
  <2>1. edit[e].body \in Bodies /\ ActiveAfter(e) \in BOOLEAN
    <3>1. /\ edit[e].body \in Bodies /\ edit[e].active \in BOOLEAN \cup {Nought}
          /\ edit[e].found \in BOOLEAN
      BY <1>2 DEF EditUnderWay, Flags
    <3>2. CASE edit[e].active = Nought
      BY <3>1, <3>2 DEF ActiveAfter
    <3>3. CASE edit[e].active # Nought
      BY <3>1, <3>3 DEF ActiveAfter
    <3> QED
      BY <3>1, <3>2, <3>3
  <2>2. next \in StoredRules
    BY <2>1 DEF StoredRules
  <2> QED
    BY <2>2, StoredIsARule
<1> HIDE DEF next
<1>4. rule' = next
  BY <1>1 DEF Stores
<1>5. ~overlapped => /\ said = edit[e].found
                     /\ \A f \in Editors : edit'[f] = NoEdit
  BY <1>1, EditOver DEF RulesInv, EditsApart
<1>6. EditsApart'
  BY <1>1, <1>3, <1>4, <1>5 DEF EditsApart, ActiveAfter
<1>7. NoneYet'
  BY <1>1, EditOver DEF RulesInv, NoneYet
<1> QED
  BY <1>1, <1>3, <1>6, <1>7, EditOver, EditTypes, StoresStep

(***************************************************************************)
(* The dispatchers                                                         *)
(***************************************************************************)
\* Steps of one dispatcher.
LEMMA CacheStep ==
  ASSUME RulesInv, UNCHANGED <<minute, rule, edit, lastHeld, said, overlapped, edits>>,
         entry' \in [Caches -> Entry \cup {NoEntry}], reading' \in [Caches -> Reading \cup {NoRead}],
         Cached'
  PROVE  RulesInv'
BY DEF RulesInv, RulesTyped, HeldFits, EditsApart, NoneYet

\* One dispatcher has a new entry, or a new reading.
LEMMA EntryStep ==
  ASSUME RulesInv, NEW c \in Caches, NEW e \in Entry \cup {NoEntry}, NEW r \in Reading \cup {NoRead},
         entry' = [entry EXCEPT ![c] = e], reading' = [reading EXCEPT ![c] = r],
         UNCHANGED <<minute, rule, edit, lastHeld, said, overlapped, edits>>,
         EntryFits(c)', ReadingFits(c)'
  PROVE  RulesInv'
<1>1. /\ entry' \in [Caches -> Entry \cup {NoEntry}] /\ reading' \in [Caches -> Reading \cup {NoRead}]
      /\ \A d \in Caches \ {c} : entry'[d] = entry[d] /\ reading'[d] = reading[d]
  BY DEF RulesInv, RulesTyped
<1>2. Cached'
  BY <1>1 DEF RulesInv, Cached, EntryFits, ReadingFits
<1> QED
  BY <1>1, <1>2, CacheStep

LEMMA CacheFunctions ==
  ASSUME RulesInv
  PROVE  entry \in [Caches -> Entry \cup {NoEntry}] /\ reading \in [Caches -> Reading \cup {NoRead}]
BY DEF RulesInv, RulesTyped

LEMMA PlanFromCacheInv ==
  ASSUME RulesInv, NEW c \in Caches, PlanFromCache(c)
  PROVE  RulesInv'
<1>1. entry' = entry
  BY CacheFunctions DEF PlanFromCache, AfterHit
<1>2. UNCHANGED <<minute, rule, edit, reading, lastHeld, said, overlapped, edits>>
  BY DEF PlanFromCache
<1>3. Cached'
  BY <1>1, <1>2 DEF RulesInv, Cached, EntryFits, ReadingFits
<1> QED
  BY <1>1, <1>2, <1>3, CacheFunctions, CacheStep

LEMMA BegunType ==
  ASSUME NEW m \in Nat
  PROVE  LET r == [NoRead EXCEPT !.since = m]
         IN r \in Reading /\ r.since = m /\ ~r.read
BY NoughtApart DEF NoRead, Reading

LEMMA StartReadInv == ASSUME RulesInv, NEW c \in Caches, StartRead(c) PROVE RulesInv'
<1> DEFINE r == [reading[c] EXCEPT !.since = minute]
<1>1. /\ reading[c] = NoRead /\ reading' = [reading EXCEPT ![c] = r]
      /\ UNCHANGED <<minute, rule, edit, entry, lastHeld, said, overlapped, edits>>
  BY DEF StartRead
<1>2. minute \in Nat /\ entry = [entry EXCEPT ![c] = entry[c]]
      /\ entry[c] \in Entry \cup {NoEntry}
  BY CacheFunctions, CacheTypes
<1>3. r = [NoRead EXCEPT !.since = minute]
  BY <1>1
<1> HIDE DEF r
<1>4. r \in Reading /\ r.since = minute /\ ~r.read
  BY <1>2, <1>3, BegunType
<1>5. reading'[c] = r
  BY <1>1, CacheFunctions
<1>6. ReadingFits(c)'
  BY <1>1, <1>2, <1>4, <1>5, RulesAssumption DEF ReadingFits
<1>7. EntryFits(c)'
  BY <1>1 DEF RulesInv, Cached, EntryFits
<1> QED
  BY <1>1, <1>2, <1>4, <1>6, <1>7, EntryStep

LEMMA ItemReadInv == ASSUME RulesInv, NEW c \in Caches, ItemRead(c) PROVE RulesInv'
<1> DEFINE v == ViewOf(rule)
           r == [reading[c] EXCEPT !.read = TRUE, !.value = v]
<1>1. /\ reading[c] # NoRead
      /\ reading' = [reading EXCEPT ![c].read = TRUE, ![c].value = v]
      /\ UNCHANGED <<minute, rule, edit, entry, lastHeld, said, overlapped, edits>>
  BY DEF ItemRead
<1>2. entry = [entry EXCEPT ![c] = entry[c]] /\ entry[c] \in Entry \cup {NoEntry}
  BY CacheFunctions
<1>3. v \in Views /\ lastHeld[v] = minute /\ minute \in Nat /\ minute # Nought
  BY ViewType, NoughtApart DEF RulesInv, RulesTyped, HeldFits
<1> HIDE DEF v
<1>4. reading[c] \in Reading /\ reading[c].since <= minute /\ minute - reading[c].since <= MaxLoad
  BY <1>1, CacheTypes DEF RulesInv, Cached, ReadingFits
<1>5. r \in Reading /\ r.since = reading[c].since /\ r.value = v
  BY <1>3, <1>4 DEF Reading
<1>6. reading' = [reading EXCEPT ![c] = r]
  BY <1>1, CacheFunctions
<1> HIDE DEF r
<1>7. reading'[c] = r /\ r # NoRead
  <2>1. r.since # NoRead.since
    BY <1>5, NoughtApart DEF Reading, NoRead
  <2> QED
    BY <1>6, <2>1, CacheFunctions
<1>8. ReadingFits(c)'
  BY <1>1, <1>3, <1>4, <1>5, <1>7 DEF ReadingFits
<1>9. EntryFits(c)'
  BY <1>1 DEF RulesInv, Cached, EntryFits
<1> QED
  BY <1>1, <1>2, <1>5, <1>6, <1>8, <1>9, EntryStep

LEMMA NoReadFits == ~NoRead.read /\ NoRead.since = Nought
BY DEF NoRead

LEMMA PlanFromReadInv == ASSUME RulesInv, NEW c \in Caches, PlanFromRead(c) PROVE RulesInv'
<1> DEFINE v == reading[c].value
           e == [readAt |-> minute, value |-> v]
<1>1. /\ reading[c].read /\ entry' = [entry EXCEPT ![c] = e]
      /\ reading' = [reading EXCEPT ![c] = NoRead]
      /\ UNCHANGED <<minute, rule, edit, lastHeld, said, overlapped, edits>>
  BY DEF PlanFromRead
<1>2. /\ reading[c] # NoRead /\ lastHeld[v] # Nought /\ lastHeld[v] >= reading[c].since
      /\ minute - reading[c].since <= MaxLoad
  BY <1>1 DEF RulesInv, Cached, ReadingFits
<1>3. v \in Views /\ reading[c].since \in Nat /\ minute \in Nat /\ lastHeld[v] \in Nat
  BY <1>2, CacheTypes, HeldType
<1>4. e \in Entry /\ e.readAt = minute /\ e.value = v
  BY <1>3 DEF Entry
<1> HIDE DEF v, e
<1>5. entry'[c] = e /\ reading'[c] = NoRead
  BY <1>1, CacheFunctions
<1>6. minute - lastHeld[v] <= MaxLoad
  BY <1>2, <1>3, RulesAssumption
<1>7. EntryFits(c)' /\ ReadingFits(c)'
  BY <1>1, <1>2, <1>3, <1>4, <1>5, <1>6, NoReadFits DEF EntryFits, ReadingFits
<1> QED
  BY <1>1, <1>4, <1>7, EntryStep

LEMMA ReadFailsInv == ASSUME RulesInv, NEW c \in Caches, ReadFails(c) PROVE RulesInv'
<1>1. /\ reading' = [reading EXCEPT ![c] = NoRead]
      /\ UNCHANGED <<minute, rule, edit, entry, lastHeld, said, overlapped, edits>>
  BY DEF ReadFails
<1>2. entry = [entry EXCEPT ![c] = entry[c]] /\ entry[c] \in Entry \cup {NoEntry}
      /\ reading'[c] = NoRead
  BY <1>1, CacheFunctions
<1>3. EntryFits(c)' /\ ReadingFits(c)'
  BY <1>1, <1>2, NoReadFits DEF RulesInv, Cached, EntryFits, ReadingFits
<1> QED
  BY <1>1, <1>2, <1>3, EntryStep

LEMMA NewContainerInv == ASSUME RulesInv, NEW c \in Caches, NewContainer(c) PROVE RulesInv'
<1>1. /\ entry' = [entry EXCEPT ![c] = NoEntry] /\ reading' = [reading EXCEPT ![c] = NoRead]
      /\ UNCHANGED <<minute, rule, edit, lastHeld, said, overlapped, edits>>
  BY DEF NewContainer
<1>2. entry'[c] = NoEntry /\ reading'[c] = NoRead
  BY <1>1, CacheFunctions
<1>3. EntryFits(c)' /\ ReadingFits(c)'
  BY <1>2, NoReadFits DEF EntryFits, ReadingFits
<1> QED
  BY <1>1, <1>3, EntryStep

LEMMA RulesTickInv == ASSUME RulesInv, RulesTick PROVE RulesInv'
<1> DEFINE u == ViewOf(rule)
<1>1. /\ minute' = minute + 1 /\ lastHeld' = [lastHeld EXCEPT ![u] = minute + 1]
      /\ \A c \in Caches : reading[c] # NoRead => minute - reading[c].since < MaxLoad
      /\ UNCHANGED <<rule, edit, entry, reading, said, overlapped, edits>>
  BY DEF RulesTick
<1>2. u \in Views /\ minute \in Nat /\ minute + 1 \in Nat /\ minute + 1 # Nought
  BY ViewType, NoughtApart DEF RulesInv, RulesTyped
<1>3. ViewOf(rule') = u
  BY <1>1
<1> HIDE DEF u
<1>4. /\ lastHeld' \in [Views -> Nat \cup {Nought}] /\ lastHeld'[u] = minute + 1
      /\ \A v \in Views \ {u} : lastHeld'[v] = lastHeld[v]
  BY <1>1, <1>2 DEF RulesInv, RulesTyped
<1>5. RulesTyped'
  BY <1>1, <1>2, <1>4 DEF RulesInv, RulesTyped
<1>6. \A v \in Views : lastHeld[v] # Nought =>
        /\ lastHeld'[v] # Nought /\ lastHeld[v] \in Nat /\ lastHeld'[v] \in Nat
        /\ lastHeld'[v] >= lastHeld[v]
  <2> SUFFICES ASSUME NEW v \in Views, lastHeld[v] # Nought
               PROVE  /\ lastHeld'[v] # Nought /\ lastHeld[v] \in Nat /\ lastHeld'[v] \in Nat
                      /\ lastHeld'[v] >= lastHeld[v]
    OBVIOUS
  <2>1. lastHeld[v] \in Nat /\ lastHeld[v] <= minute
    BY HeldType DEF RulesInv, HeldFits
  <2> QED
    BY <1>2, <1>4, <2>1
<1>7. HeldFits'
  <2>1. ASSUME NEW v \in Views, lastHeld'[v] # Nought
        PROVE  lastHeld'[v] <= minute + 1
    <3>1. CASE v = u
      BY <1>2, <1>4, <3>1
    <3>2. CASE v # u
      <4>1. lastHeld[v] \in Nat /\ lastHeld[v] <= minute
        BY <1>4, <2>1, <3>2, HeldType DEF RulesInv, HeldFits
      <4> QED
        BY <1>2, <1>4, <3>2, <4>1
    <3> QED
      BY <3>1, <3>2
  <2> QED
    BY <1>1, <1>3, <1>4, <2>1 DEF HeldFits
<1>8. ASSUME NEW c \in Caches PROVE EntryFits(c)'
  <2> SUFFICES ASSUME entry[c] # NoEntry
               PROVE  EntryFits(c)'
    BY <1>1 DEF EntryFits
  <2> DEFINE v == entry[c].value
  <2>1. v \in Views /\ entry[c].readAt \in Nat /\ entry[c].readAt <= minute
        /\ lastHeld[v] # Nought /\ entry[c].readAt - lastHeld[v] <= MaxLoad
    BY CacheTypes DEF RulesInv, Cached, EntryFits
  <2>2. lastHeld'[v] # Nought /\ entry[c].readAt - lastHeld'[v] <= MaxLoad
        /\ entry[c].readAt <= minute + 1
    BY <1>2, <1>6, <2>1, RulesAssumption
  <2> QED
    BY <1>1, <2>2 DEF EntryFits
<1>9. ASSUME NEW c \in Caches PROVE ReadingFits(c)'
  <2>1. reading'[c] = reading[c] /\ minute' = minute + 1
    BY <1>1
  <2>2. ASSUME reading'[c] # NoRead
        PROVE  reading'[c].since <= minute' /\ minute' - reading'[c].since <= MaxLoad
    <3>1. /\ reading[c].since \in Nat /\ reading[c].since <= minute
          /\ minute - reading[c].since < MaxLoad
      BY <1>1, <2>1, <2>2, CacheTypes DEF RulesInv, Cached, ReadingFits
    <3> QED
      BY <1>2, <2>1, <3>1, RulesAssumption
  <2>3. ASSUME reading'[c].read
        PROVE  /\ reading'[c] # NoRead /\ lastHeld'[reading'[c].value] # Nought
               /\ lastHeld'[reading'[c].value] >= reading'[c].since
    <3>1. /\ reading[c] # NoRead /\ lastHeld[reading[c].value] # Nought
          /\ lastHeld[reading[c].value] >= reading[c].since
      BY <2>1, <2>3 DEF RulesInv, Cached, ReadingFits
    <3>2. reading[c].value \in Views /\ reading[c].since \in Nat
      BY <3>1, CacheTypes
    <3> QED
      BY <1>6, <2>1, <3>1, <3>2
  <2> QED
    BY <2>2, <2>3 DEF ReadingFits
<1>10. Cached'
  BY <1>8, <1>9 DEF Cached
<1>11. EditsApart' /\ NoneYet'
  BY <1>1 DEF RulesInv, EditsApart, NoneYet
<1> QED
  BY <1>5, <1>7, <1>10, <1>11 DEF RulesInv

(***************************************************************************)
(* The theorem                                                             *)
(***************************************************************************)
LEMMA RulesInitInv == RulesInit => RulesInv
<1> SUFFICES ASSUME RulesInit
             PROVE  RulesInv
  OBVIOUS
<1>1. /\ minute = 0 /\ edits = 0 /\ overlapped = FALSE /\ rule \in StoredRules \cup {Nought}
      /\ edit = [e \in Editors |-> NoEdit] /\ entry = [c \in Caches |-> NoEntry]
      /\ reading = [c \in Caches |-> NoRead]
      /\ said = (IF rule = Nought THEN Nought ELSE rule.active)
      /\ lastHeld = [v \in Views |-> IF v = ViewOf(rule) THEN 0 ELSE Nought]
  BY DEF RulesInit
<1>2. RulesTyped
  BY <1>1 DEF RulesTyped
<1>3. HeldFits
  BY <1>1, ViewType DEF HeldFits
<1>4. Cached
  BY <1>1, NoReadFits DEF Cached, ReadingFits, EntryFits
<1>5. EditsApart /\ NoneYet
  BY <1>1 DEF EditsApart, NoneYet
<1> QED
  BY <1>2, <1>3, <1>4, <1>5 DEF RulesInv

LEMMA RulesNextInv == ASSUME RulesInv, [RulesNext]_rulesVars PROVE RulesInv'
<1>1. CASE UNCHANGED rulesVars
  BY <1>1 DEF rulesVars, RulesInv, RulesTyped, HeldFits, Cached, ReadingFits, EntryFits,
              EditsApart, NoneYet
<1>2. CASE RulesNext
  BY <1>2, RulesTickInv, DeleteRuleInv, CreateRuleInv, ReadForPatchInv, PutPatchedInv, PatchDiesInv,
     PlanFromCacheInv, StartReadInv, ItemReadInv, PlanFromReadInv, ReadFailsInv, NewContainerInv
  DEF RulesNext
<1> QED
  BY <1>1, <1>2

(***************************************************************************)
(* The types of rules                                                      *)
(***************************************************************************)
LEMMA RulesParts ==
  ASSUME RulesTypeOK
  PROVE  /\ ViewOf(rule) \in Views
         /\ rule # Nought => rule \in StoredRules /\ rule.active \in BOOLEAN
         /\ minute \in 0 .. MaxClock
         /\ \A e \in Editors : edit[e] # NoEdit =>
              edit[e].body \in Bodies /\ ActiveAfter(e) \in BOOLEAN /\ edit[e].active \in Flags
         /\ \A c \in Caches : reading[c] # NoRead =>
              reading[c] \in [since : 0 .. MaxClock, read : BOOLEAN, value : Views]
BY DEF RulesTypeOK, ViewOf, Views, StoredRules, ActiveAfter, Flags

\* Whatever is stored, its view is noted as held now.
LEMMA StoresTyped ==
  ASSUME RulesTypeOK, NEW next \in StoredRules \cup {Nought}, Stores(next)
  PROVE  rule' \in StoredRules \cup {Nought} /\ lastHeld' \in [Views -> 0 .. MaxClock \cup {Nought}]
<1>1. ViewOf(next) \in Views
  BY DEF ViewOf, Views, StoredRules
<1> QED
  BY <1>1, RulesParts DEF Stores, RulesTypeOK

LEMMA EditsTyped ==
  ASSUME RulesTypeOK,
         \/ DeleteRule
         \/ \E b \in Bodies \cup Invalid : CreateRule(b)
         \/ \E e \in Editors :
              \/ \E b \in Bodies \cup Invalid, a \in Flags : ReadForPatch(e, b, a)
              \/ PutPatched(e) \/ PatchDies(e)
  PROVE  RulesTypeOK'
<1>1. ASSUME NEW overlap \in BOOLEAN, Begins(overlap)
      PROVE  edits' \in 0 .. MaxEdits /\ overlapped' \in BOOLEAN
  BY <1>1, RulesAssumption DEF Begins, RulesTypeOK
<1>2. CASE DeleteRule
  BY <1>1, <1>2, StoresTyped DEF DeleteRule, RulesTypeOK, Flags
<1>3. ASSUME NEW b \in Bodies \cup Invalid, CreateRule(b) PROVE RulesTypeOK'
  <2>1. [body |-> b, active |-> TRUE] \in StoredRules
    BY <1>3 DEF CreateRule, Passes, StoredRules
  <2>2. overlapped \in BOOLEAN
    BY DEF RulesTypeOK
  <2> QED
    BY <1>1, <1>3, <2>1, <2>2, StoresTyped DEF CreateRule, RulesTypeOK, Flags
<1>4. ASSUME NEW e \in Editors, NEW b \in Bodies \cup Invalid, NEW a \in Flags, ReadForPatch(e, b, a)
      PROVE  RulesTypeOK'
  <2>1. (overlapped \/ Editing # {}) \in BOOLEAN
    OBVIOUS
  <2>2. edit' \in [Editors -> [body : Bodies, active : Flags, found : BOOLEAN] \cup {NoEdit}]
    BY <1>4, RulesParts DEF ReadForPatch, Passes, RulesTypeOK
  <2> QED
    BY <1>1, <1>4, <2>1, <2>2 DEF ReadForPatch, RulesTypeOK
<1>5. ASSUME NEW e \in Editors, PutPatched(e) PROVE RulesTypeOK'
  <2>1. [body |-> edit[e].body, active |-> ActiveAfter(e)] \in StoredRules
    BY <1>5, RulesParts DEF PutPatched, StoredRules
  <2>2. said' \in Flags
    BY <1>5, RulesParts DEF PutPatched, RulesTypeOK
  <2> QED
    BY <1>5, <2>1, <2>2, StoresTyped DEF PutPatched, RulesTypeOK
<1>6. ASSUME NEW e \in Editors, PatchDies(e) PROVE RulesTypeOK'
  BY <1>6 DEF PatchDies, RulesTypeOK
<1> QED
  BY <1>2, <1>3, <1>4, <1>5, <1>6

LEMMA CachesTyped ==
  ASSUME RulesTypeOK, NEW c \in Caches,
         \/ PlanFromCache(c) \/ StartRead(c) \/ ItemRead(c) \/ PlanFromRead(c)
         \/ ReadFails(c) \/ NewContainer(c)
  PROVE  RulesTypeOK'
<1> DEFINE Reads == [since : 0 .. MaxClock, read : BOOLEAN, value : Views]
           Held == [readAt : 0 .. MaxClock, value : Views]
<1>1. CASE PlanFromCache(c)
  BY <1>1 DEF PlanFromCache, AfterHit, RulesTypeOK
<1>2. CASE StartRead(c)
  <2> DEFINE r == [reading[c] EXCEPT !.since = minute]
  <2>1. reading[c] = NoRead /\ reading' = [reading EXCEPT ![c] = r]
    BY <1>2 DEF StartRead
  <2>2. r = [NoRead EXCEPT !.since = minute]
    BY <2>1
  <2>3. minute \in 0 .. MaxClock /\ Nought \in Views
    BY RulesParts DEF Views
  <2>4. r \in Reads
    <3> HIDE DEF r
    <3> QED
      BY <2>2, <2>3 DEF NoRead
  <2> QED
    BY <1>2, <2>1, <2>4 DEF StartRead, RulesTypeOK
<1>3. CASE ItemRead(c)
  <2>1. reading[c] \in Reads
    BY <1>3, RulesParts DEF ItemRead
  <2>2. [reading[c] EXCEPT !.read = TRUE, !.value = ViewOf(rule)] \in Reads
    BY <2>1, RulesParts
  <2>3. reading' = [reading EXCEPT ![c] = [reading[c] EXCEPT !.read = TRUE, !.value = ViewOf(rule)]]
    BY <1>3 DEF ItemRead, RulesTypeOK
  <2> QED
    BY <1>3, <2>2, <2>3 DEF ItemRead, RulesTypeOK
<1>4. CASE PlanFromRead(c)
  <2>1. reading[c] # NoRead
    BY <1>4 DEF PlanFromRead, NoRead
  <2>2. [readAt |-> minute, value |-> reading[c].value] \in Held
    BY <2>1, RulesParts
  <2> QED
    BY <1>4, <2>2 DEF PlanFromRead, RulesTypeOK
<1>5. CASE ReadFails(c) \/ NewContainer(c)
  BY <1>5 DEF ReadFails, NewContainer, RulesTypeOK
<1> QED
  BY <1>1, <1>2, <1>3, <1>4, <1>5

LEMMA RulesInitTyped == ASSUME RulesInit PROVE RulesTypeOK
<1>1. 0 \in 0 .. MaxClock /\ 0 \in 0 .. MaxEdits
  BY RulesAssumption
<1>2. said \in Flags
  BY DEF RulesInit, StoredRules, Flags
<1>3. lastHeld \in [Views -> 0 .. MaxClock \cup {Nought}]
  BY <1>1 DEF RulesInit
<1> QED
  BY <1>1, <1>2, <1>3 DEF RulesInit, RulesTypeOK

LEMMA RulesNextTyped == ASSUME RulesTypeOK, [RulesNext]_rulesVars PROVE RulesTypeOK'
<1>1. CASE UNCHANGED rulesVars
  BY <1>1 DEF rulesVars, RulesTypeOK
<1>2. CASE RulesTick
  <2>1. minute + 1 \in 0 .. MaxClock
    BY <1>2, RulesAssumption DEF RulesTick, RulesTypeOK
  <2> QED
    BY <1>2, <2>1, RulesParts DEF RulesTick, RulesTypeOK
<1> QED
  BY <1>1, <1>2, EditsTyped, CachesTyped DEF RulesNext

\* A stored rule is whole, whichever edits overlap: its body passed the checks or is of an
\* older schema, and no put leaves its flag unsaid (rules.ts:150-200, lookup.ts:40-70).
THEOREM RulesTypes == RulesSpec => []RulesTypeOK
<1>1. RulesTypeOK /\ [RulesNext]_rulesVars => RulesTypeOK'
  BY RulesNextTyped
<1> QED
  BY RulesInitTyped, <1>1, PTL DEF RulesSpec

\* Without overlapping edits the rule is what the last edit said, and no
\* dispatcher plans with a body that is older than its TTL and a read
\* (rules.ts:166-190, lookup.ts:25-27).
THEOREM EditsReachPlans == RulesSpec => []EditsTakeEffect
BY RulesInitInv, RulesNextInv, InvTakesEffect, PTL DEF RulesSpec

(***************************************************************************)
(* Listings                                                                *)
(***************************************************************************)
\* The members of S before i.
Below(S, i) == {j \in S : j < i}

LEMMA BelowIsFinite ==
  ASSUME NEW S \in SUBSET Nat, NEW i \in Nat
  PROVE  IsFiniteSet(Below(S, i)) /\ Cardinality(Below(S, i)) \in Nat
<1>1. \A j \in Below(S, i) : j \in Nat /\ j <= i
  <2> SUFFICES ASSUME NEW j \in S, j < i
               PROVE  j \in Nat /\ j <= i
    BY DEF Below
  <2>1. j \in Nat
    OBVIOUS
  <2> QED
    BY <2>1
<1>2. Below(S, i) \in SUBSET Nat
  BY <1>1
<1>3. IsFiniteSet(Below(S, i))
  BY <1>1, <1>2, FS_BoundedSetOfNaturals
<1> QED
  BY <1>3, FS_CardinalityType

LEMMA PlacesBelowGrow ==
  ASSUME NEW S \in SUBSET Nat, NEW i \in S, NEW j \in Nat, i < j
  PROVE  Cardinality(Below(S, i)) < Cardinality(Below(S, j))
<1>1. i \in Nat
  OBVIOUS
<1>2. Below(S, i) \in SUBSET Below(S, j)
  <2> SUFFICES ASSUME NEW k \in S, k < i
               PROVE  k < j
    BY DEF Below
  <2>1. k \in Nat
    OBVIOUS
  <2> QED
    BY <1>1, <2>1
<1>3. i \in Below(S, j) /\ i \notin Below(S, i)
  BY <1>1 DEF Below
<1>4. Below(S, i) # Below(S, j)
  BY <1>3
<1>5. IsFiniteSet(Below(S, j)) /\ Cardinality(Below(S, j)) \in Nat
      /\ Cardinality(Below(S, i)) \in Nat
  BY <1>1, BelowIsFinite
<1>6. /\ Cardinality(Below(S, i)) <= Cardinality(Below(S, j))
      /\ Cardinality(Below(S, i)) # Cardinality(Below(S, j))
  BY <1>2, <1>4, <1>5, FS_Subset
<1> QED
  BY <1>5, <1>6

\* What a query reads is a beginning of its partition, of n keys at most, and if it
\* is n of them one is the last.
LEMMA UptoIsBeginning ==
  ASSUME NEW S \in SUBSET Nat, NEW n \in Nat \ {0}
  PROVE  /\ Upto(S, n) \subseteq S /\ IsFiniteSet(Upto(S, n))
         /\ \A k \in Upto(S, n), j \in S : j < k => j \in Upto(S, n)
         /\ Cardinality(Upto(S, n)) = n =>
              \E k \in Upto(S, n) : \A j \in Upto(S, n) : j <= k
<1> DEFINE U == Upto(S, n)
           T == 0 .. n - 1
           place == [k \in U |-> Cardinality(Below(S, k))]
<1>1. \A k \in U : k \in S /\ k \in Nat /\ Cardinality(Below(S, k)) < n
  BY DEF Upto, Below
<1>2. \A k \in S : Cardinality(Below(S, k)) < n => k \in U
  BY DEF Upto, Below
<1> HIDE DEF U
<1>3. \A k \in S : k \in Nat /\ Cardinality(Below(S, k)) \in Nat
  BY BelowIsFinite
<1>4. \A k \in U, j \in S : j < k => j \in U
  <2> TAKE k \in U, j \in S
  <2> HAVE j < k
  <2>1. Cardinality(Below(S, j)) < Cardinality(Below(S, k))
    BY <1>1, PlacesBelowGrow
  <2>2. Cardinality(Below(S, j)) \in Nat /\ Cardinality(Below(S, k)) \in Nat
        /\ Cardinality(Below(S, k)) < n
    BY <1>1, <1>3
  <2>3. Cardinality(Below(S, j)) < n
    BY <2>1, <2>2
  <2> QED
    BY <1>2, <2>3
<1>5. place \in [U -> T]
  BY <1>1, <1>3
<1>6. ASSUME NEW k \in U, NEW j \in U, place[k] = place[j]
      PROVE  k = j
  <2>1. k \in S /\ j \in S /\ k \in Nat /\ j \in Nat /\ Cardinality(Below(S, k)) \in Nat
        /\ Cardinality(Below(S, k)) = Cardinality(Below(S, j))
    BY <1>1, <1>3, <1>6
  <2>2. ~(k < j) /\ ~(j < k)
    BY <2>1, PlacesBelowGrow
  <2> QED
    BY <2>1, <2>2
<1>7. place \in Injection(U, T)
  BY <1>5, <1>6 DEF Injection, IsInjective
<1>8. IsFiniteSet(T) /\ Cardinality(T) = n
  <2>1. 0 \in Int /\ n - 1 \in Int
    OBVIOUS
  <2>2. IsFiniteSet(T) /\ Cardinality(T) = IF 0 > n - 1 THEN 0 ELSE (n - 1) - 0 + 1
    BY <2>1, FS_Interval
  <2> QED
    BY <2>2
<1>9. IsFiniteSet(U)
  BY <1>7, <1>8, FS_Injection
<1>10. ASSUME Cardinality(U) = n
       PROVE  \E k \in U : \A j \in U : j <= k
  <2>1. place \in Surjection(U, T)
    BY <1>7, <1>8, <1>10, FS_Injection
  <2>2. n - 1 \in T
    OBVIOUS
  <2>3. PICK k \in U : place[k] = n - 1
    BY <2>1, <2>2 DEF Surjection
  <2>4. ASSUME NEW j \in U
        PROVE  j <= k
    <3>1. /\ k \in S /\ j \in S /\ k \in Nat /\ j \in Nat
          /\ Cardinality(Below(S, k)) = n - 1 /\ Cardinality(Below(S, j)) < n
          /\ Cardinality(Below(S, j)) \in Nat
      BY <1>1, <1>3, <2>3
    <3>2. k < j => Cardinality(Below(S, k)) < Cardinality(Below(S, j))
      BY <3>1, PlacesBelowGrow
    <3>3. ~(k < j)
      BY <3>1, <3>2
    <3> QED
      BY <3>1, <3>3
  <2> QED
    BY <2>4
<1> QED
  BY <1>1, <1>4, <1>9, <1>10 DEF U

\* A query's answer: all that is left, or a beginning up to its last key.
PageAnswers(q, S) ==
  /\ q.keys \subseteq S /\ IsFiniteSet(q.keys)
  /\ \/ q.last = NoStart /\ q.keys = S
     \/ /\ q.last \in q.keys
        /\ \A k \in q.keys : k <= q.last
        /\ \A k \in S : k <= q.last => k \in q.keys

LEMMA CutAnswers ==
  ASSUME NEW S \in SUBSET SortKeys, NEW n \in Nat \ {0}, NEW q \in Cut(S, n)
  PROVE  PageAnswers(q, S)
<1> DEFINE keys == Upto(S, n)
<1>1. S \in SUBSET Nat
  BY ListingAssumption
<1>2. /\ keys \subseteq S /\ IsFiniteSet(keys)
      /\ \A k \in keys, j \in S : j < k => j \in keys
      /\ Cardinality(keys) = n => \E k \in keys : \A j \in keys : j <= k
  BY <1>1, UptoIsBeginning
<1>3. PICK l \in (IF Cardinality(keys) = n THEN {LastOf(keys)} ELSE {})
                 \cup (IF keys = S THEN {NoStart} ELSE {}) :
        q = [keys |-> keys, last |-> l]
  BY DEF Cut
<1> HIDE DEF keys
<1>4. q.keys = keys /\ q.last = l
  BY <1>3
<1>5. CASE l = NoStart /\ keys = S
  BY <1>2, <1>4, <1>5 DEF PageAnswers
<1>6. CASE Cardinality(keys) = n /\ l = LastOf(keys)
  <2>1. l \in keys /\ \A j \in keys : j <= l
    BY <1>2, <1>6 DEF LastOf
  <2>2. ASSUME NEW k \in S, k <= l
        PROVE  k \in keys
    <3>1. k \in Nat /\ l \in Nat
      BY <1>1, <1>2, <2>1
    <3>2. k < l \/ k = l
      BY <2>2, <3>1
    <3> QED
      BY <1>2, <2>1, <3>2
  <2> QED
    BY <1>2, <1>4, <2>1, <2>2 DEF PageAnswers
<1> QED
  BY <1>3, <1>5, <1>6

LEMMA QueryAnswers ==
  ASSUME NEW S \in SUBSET SortKeys, NEW n \in Nat \ {0}, NEW q \in Query(S, n)
  PROVE  PageAnswers(q, S)
<1>1. PICK m \in 1..n : q \in Cut(S, m)
  BY DEF Query
<1>2. m \in Nat \ {0}
  BY <1>1
<1> QED
  BY <1>1, <1>2, CutAnswers

\* A row before, or at, the key `after` of the chain `at`, in the order of a walk.
Passed(r, at, after) == r[1] < at \/ (r[1] = at /\ r[2] <= after)

\* A row that the pages shown so far have gone by.
GoneBy(r) == Done \/ Passed(r, cursor.at, cursor.after)

\* What a listing has to show: rows that stay, and that the caller may see.
Due == steady \ Hidden

\* Each row is shown once at most, and not before the pages come to it; what stays
\* is shown when they have.
SeenFits ==
  /\ \A r \in Rows : seen[r] <= 1 /\ (seen[r] # 0 => GoneBy(r) /\ r \notin Hidden)
  /\ \A r \in Due : GoneBy(r) => seen[r] = 1

\* With `rows` the pages come to the key `after` of the chain `at`.
ComesTo(rows, at, after) ==
  /\ \A r \in rows : Passed(r, at, after)
  /\ \A r \in Rows : GoneBy(r) => Passed(r, at, after)
  /\ \A r \in Due : Passed(r, at, after) => GoneBy(r) \/ r \in rows

\* Rows that are not shown yet, and that the caller may see.
Unseen(rows) == \A r \in rows : r \in Rows \ Hidden /\ ~GoneBy(r)

\* A page is between the cursor it began with and the place it has come to.
PageFits ==
  page.reading =>
    /\ ~Done
    /\ page.limit \in Limits /\ chains \subseteq page.chains /\ page.at \in page.chains
    /\ route \notin Walking => page.at = 1 /\ page.chains = {1}
    /\ IsFiniteSet(page.rows)
    /\ route \in Walking => Cardinality(page.rows) < page.limit
    /\ route \notin Walking \cup {"signers"} => page.rows = {}
    /\ Unseen(page.rows) /\ ComesTo(page.rows, page.at, page.after)

ListingInv ==
  /\ ListingTypeOK
  /\ route \notin Walking => chains = {1}
  /\ \A r \in steady : r[1] \in chains
  /\ SeenFits /\ PageFits

LEMMA CursorsAreNotTheEnd ==
  /\ \A a, b : [at |-> a, after |-> b] # NoMore
  /\ First # NoMore /\ First.at = 0 /\ First.after = NoStart
  /\ ~NoPage.reading
<1>1. \A a, b : DOMAIN [at |-> a, after |-> b] = {"at", "after"}
  OBVIOUS
<1>2. "reading" \in DOMAIN NoMore
  BY DEF NoMore, NoPage
<1>3. "reading" \notin {"at", "after"}
  OBVIOUS
<1>4. \A a, b : [at |-> a, after |-> b] # NoMore
  BY <1>1, <1>2, <1>3
<1> QED
  BY <1>4 DEF First, NoPage

LEMMA RowParts == \A r \in Rows : r[1] \in 1 .. Chains /\ r[2] \in SortKeys /\ r = <<r[1], r[2]>>
BY DEF Rows

LEMMA ListingNumbers ==
  /\ Chains \in Nat /\ NoStart = -1
  /\ \A k \in SortKeys : k \in Nat
  /\ \A k \in SortKeys \cup {NoStart} : k \in Int /\ k >= NoStart
BY ListingAssumption DEF NoStart

\* A page is shown, and the listing goes on at its cursor, or is at its end.
LEMMA StopKeepsInv ==
  ASSUME ListingInv, page.reading, NEW rows, NEW next, Stop(rows, next),
         UNCHANGED <<route, chains, standing, steady>>, Unseen(rows),
         \/ next = NoMore /\ \A r \in Due : GoneBy(r) \/ r \in rows
         \/ \E c \in 1 .. Chains, k \in SortKeys \cup {NoStart} :
              next = [at |-> c, after |-> k] /\ ComesTo(rows, c, k)
  PROVE  ListingInv'
<1>1. /\ page' = NoPage /\ cursor' = next /\ ~page'.reading
      /\ seen' = [r \in Rows |-> IF r \in rows THEN seen[r] + 1 ELSE seen[r]]
  BY CursorsAreNotTheEnd DEF Stop
<1>2. ListingTypeOK /\ SeenFits /\ ~Done
  BY DEF ListingInv, PageFits
<1>3. next \in Cursors \cup {NoMore}
  BY ListingNumbers DEF Cursors
<1>4. ListingTypeOK'
  <2>1. seen' \in [Rows -> Nat]
    BY <1>1, <1>2 DEF ListingTypeOK
  <2>2. NoPage \in [reading : BOOLEAN, limit : Limits \cup {0}, chains : SUBSET (1..Chains),
                    at : 0..Chains, after : SortKeys \cup {NoStart}, rows : SUBSET Rows]
    BY ListingNumbers DEF NoPage
  <2>3. steady' \subseteq Listed(standing')
    BY <1>2 DEF ListingTypeOK
  <2> QED
    BY <1>1, <1>2, <1>3, <2>1, <2>2, <2>3 DEF ListingTypeOK
<1>5. Due' = Due /\ Hidden' = Hidden /\ Due \subseteq Rows
  BY <1>2 DEF Due, Hidden, ListingTypeOK, Listed
<1>6. /\ \A r \in rows : GoneBy(r)'
      /\ \A r \in Rows : GoneBy(r) => GoneBy(r)'
      /\ \A r \in Due : GoneBy(r)' => GoneBy(r) \/ r \in rows
  <2>1. CASE next = NoMore /\ \A r \in Due : GoneBy(r) \/ r \in rows
    BY <1>1, <2>1 DEF GoneBy, Done
  <2>2. ASSUME NEW c \in 1 .. Chains, NEW k \in SortKeys \cup {NoStart},
               next = [at |-> c, after |-> k], ComesTo(rows, c, k)
        PROVE  /\ \A r \in rows : GoneBy(r)'
               /\ \A r \in Rows : GoneBy(r) => GoneBy(r)'
               /\ \A r \in Due : GoneBy(r)' => GoneBy(r) \/ r \in rows
    <3>1. cursor' # NoMore /\ cursor'.at = c /\ cursor'.after = k
      BY <1>1, <2>2, CursorsAreNotTheEnd
    <3>2. \A r : GoneBy(r)' <=> Passed(r, c, k)
      BY <3>1 DEF GoneBy, Done, NoMore, NoPage, Passed
    <3> QED
      BY <2>2, <3>2 DEF ComesTo
  <2> QED
    BY <2>1, <2>2
<1>7. \A r \in Rows : seen[r] \in Nat /\ seen'[r] = IF r \in rows THEN seen[r] + 1 ELSE seen[r]
  BY <1>1, <1>2 DEF ListingTypeOK
<1>8. \A r \in rows : r \in Rows \ Hidden /\ ~GoneBy(r) /\ seen[r] = 0
  BY <1>2 DEF Unseen, SeenFits
<1>9. ASSUME NEW r \in Rows
      PROVE  seen'[r] <= 1 /\ (seen'[r] # 0 => GoneBy(r)' /\ r \notin Hidden)
  <2>1. CASE r \in rows
    BY <1>6, <1>7, <1>8, <2>1
  <2>2. CASE r \notin rows
    BY <1>2, <1>6, <1>7, <2>2 DEF SeenFits
  <2> QED
    BY <2>1, <2>2
<1>10. ASSUME NEW r \in Due, GoneBy(r)'
       PROVE  seen'[r] = 1
  <2>1. r \in Rows /\ (GoneBy(r) \/ r \in rows)
    BY <1>5, <1>6, <1>10
  <2>2. CASE r \in rows
    BY <1>7, <1>8, <2>1, <2>2
  <2>3. CASE r \notin rows
    BY <1>2, <1>7, <2>1, <2>3 DEF SeenFits
  <2> QED
    BY <2>2, <2>3
<1>11. SeenFits'
  BY <1>5, <1>9, <1>10 DEF SeenFits
<1>12. PageFits'
  BY <1>1 DEF PageFits
<1> QED
  BY <1>4, <1>11, <1>12 DEF ListingInv

\* The page goes on, and has come further.
LEMMA PageKeepsInv ==
  ASSUME ListingInv, page.reading, NEW rows, NEW at \in page.chains, NEW after \in SortKeys \cup {NoStart},
         page' = [page EXCEPT !.at = at, !.after = after, !.rows = rows],
         UNCHANGED <<route, chains, standing, steady, cursor, seen>>,
         IsFiniteSet(rows), Unseen(rows), ComesTo(rows, at, after),
         route \in Walking => Cardinality(rows) < page.limit,
         route \notin Walking => route = "signers"
  PROVE  ListingInv'
<1>1. ListingTypeOK /\ SeenFits /\ PageFits
  BY DEF ListingInv
<1>2. /\ page'.reading = page.reading /\ page'.limit = page.limit /\ page'.chains = page.chains
      /\ page'.at = at /\ page'.after = after /\ page'.rows = rows
      /\ page' \in [reading : BOOLEAN, limit : Limits \cup {0}, chains : SUBSET (1..Chains),
                    at : 0..Chains, after : SortKeys \cup {NoStart}, rows : SUBSET Rows]
  <2>1. rows \in SUBSET Rows
    BY DEF Unseen
  <2>2. page \in [reading : BOOLEAN, limit : Limits \cup {0}, chains : SUBSET (1..Chains),
                  at : 0..Chains, after : SortKeys \cup {NoStart}, rows : SUBSET Rows]
    BY <1>1 DEF ListingTypeOK
  <2>3. at \in 0 .. Chains
    BY <2>2
  <2> QED
    BY <2>1, <2>2, <2>3
<1>3. ListingTypeOK'
  BY <1>1, <1>2 DEF ListingTypeOK
<1>4. Due' = Due /\ Hidden' = Hidden /\ Done' = Done /\ \A r : GoneBy(r)' <=> GoneBy(r)
  BY DEF Due, Hidden, Done, NoMore, NoPage, GoneBy, Passed
<1>5. SeenFits'
  BY <1>1, <1>4 DEF SeenFits
<1>6. Unseen(rows)' /\ ComesTo(rows, at, after)'
  BY <1>4 DEF Unseen, ComesTo
<1>7. PageFits'
  BY <1>1, <1>2, <1>4, <1>6 DEF PageFits
<1> QED
  BY <1>3, <1>5, <1>7 DEF ListingInv

\* A step beside the listing, after which there may be less to show.
LEMMA AsideKeepsInv ==
  ASSUME ListingInv, UNCHANGED <<route, page, cursor, seen>>, steady' \subseteq steady,
         chains' \subseteq chains, route \notin Walking => chains' = chains,
         \A r \in steady' : r[1] \in chains', ListingTypeOK'
  PROVE  ListingInv'
<1>1. Due' \subseteq Due /\ Hidden' = Hidden /\ Done' = Done /\ \A r : GoneBy(r)' <=> GoneBy(r)
  BY DEF Due, Hidden, Done, NoMore, NoPage, GoneBy, Passed
<1>2. SeenFits'
  BY <1>1 DEF SeenFits, ListingInv
<1>3. PageFits'
  BY <1>1 DEF PageFits, ListingInv, Unseen, ComesTo
<1> QED
  BY <1>2, <1>3 DEF ListingInv

LEMMA LeastIsLeast ==
  ASSUME NEW S \in SUBSET Nat, S # {}
  PROVE  Least(S) \in S /\ \A y \in S : Least(S) <= y
<1> DEFINE less == OpToRel(<, Nat)
<1>1. PICK x \in S : \A y \in S : ~(<<y, x>> \in less)
  <2>1. IsWellFoundedOn(less, Nat)
    BY NatLessThanWellFounded DEF less
  <2>2. IsWellFoundedOn(less, S)
    BY <2>1, IsWellFoundedOnSubset
  <2>3. PICK s \in S : TRUE
    OBVIOUS
  <2> HIDE DEF less
  <2> QED
    BY <2>2, <2>3, WFMin
<1>2. \A y \in S : x <= y
  <2> TAKE y \in S
  <2>1. x \in Nat /\ y \in Nat
    OBVIOUS
  <2>2. ~(y < x)
    BY <1>1, <2>1 DEF OpToRel
  <2> QED
    BY <2>1, <2>2
<1> QED
  BY <1>2 DEF Least

\* What a query found on the chain `at` after the key `after`, up to its last key,
\* and what of it is shown.
ShownFits(shown, at, after, last) ==
  /\ IsFiniteSet(shown)
  /\ last # NoStart => last \in SortKeys /\ last > after
  /\ \A r \in shown : /\ r \in Rows \ Hidden /\ r[1] = at /\ r[2] > after
                      /\ last # NoStart => r[2] <= last
  /\ \A r \in Due :
       r[1] = at /\ r[2] > after /\ (last = NoStart \/ r[2] <= last) => r \in shown

\* A filter that drops what is hidden, and nothing that is due, shows what it should.
LEMMA ShownIsRight ==
  ASSUME ListingTypeOK, NEW at \in 1 .. Chains, NEW after \in SortKeys \cup {NoStart},
         NEW S \in SUBSET SortKeys, \A k \in S : k > after,
         \A r \in Due : r[1] = at /\ r[2] > after => r[2] \in S,
         NEW q, PageAnswers(q, S), NEW shown \in SUBSET Of(at, q),
         \A r \in shown : r \notin Hidden, \A r \in Of(at, q) : r \in Due => r \in shown
  PROVE  ShownFits(shown, at, after, q.last)
<1>1. q.keys \subseteq S /\ IsFiniteSet(q.keys)
  BY DEF PageAnswers
<1>2. Due \subseteq Rows
  BY DEF Due, ListingTypeOK, Listed
<1>3. IsFiniteSet(shown)
  <2> DEFINE row == [k \in q.keys |-> <<at, k>>]
  <2>1. row \in Surjection(q.keys, Of(at, q))
    BY DEF Of, Surjection
  <2>2. IsFiniteSet(Of(at, q))
    BY <1>1, <2>1, FS_Surjection
  <2> QED
    BY <2>2, FS_Subset
<1>4. \A r \in shown : r[1] = at /\ r[2] \in q.keys /\ r = <<at, r[2]>>
  BY DEF Of
<1>5. \A r \in shown : r \in Rows \ Hidden /\ r[1] = at /\ r[2] > after
  BY <1>1, <1>4 DEF Rows
<1>6. \A r \in Due : r[1] = at /\ r[2] \in q.keys => r \in shown
  <2> TAKE r \in Due
  <2> HAVE r[1] = at /\ r[2] \in q.keys
  <2>1. r = <<at, r[2]>>
    BY <1>2, RowParts
  <2>2. r \in Of(at, q)
    BY <2>1 DEF Of
  <2> QED
    BY <2>2
<1>7. CASE q.last = NoStart /\ q.keys = S
  BY <1>3, <1>5, <1>6, <1>7 DEF ShownFits
<1>8. CASE /\ q.last \in q.keys
           /\ \A k \in q.keys : k <= q.last
           /\ \A k \in S : k <= q.last => k \in q.keys
  <2>1. q.last \in SortKeys /\ q.last > after /\ q.last # NoStart
    <3>1. q.last \in S
      BY <1>1, <1>8
    <3>2. q.last \in Nat
      BY <3>1, ListingNumbers
    <3> QED
      BY <3>1, <3>2, ListingNumbers
  <2>2. \A r \in Due : r[1] = at /\ r[2] > after /\ r[2] <= q.last => r \in shown
    BY <1>6, <1>8
  <2>3. \A r \in shown : r[2] <= q.last
    BY <1>4, <1>8
  <2> QED
    BY <1>3, <1>5, <2>1, <2>2, <2>3 DEF ShownFits
<1> QED
  BY <1>7, <1>8 DEF PageAnswers

\* With the rows of a query the page has come to its last key, or to the end of its
\* chain.
LEMMA PageMovesOn ==
  ASSUME ListingInv, page.reading, NEW shown, NEW last,
         ShownFits(shown, page.at, page.after, last)
  PROVE  LET rows == page.rows \cup shown
         IN  /\ IsFiniteSet(rows) /\ Unseen(rows)
             /\ last # NoStart => last \in SortKeys /\ ComesTo(rows, page.at, last)
             /\ last = NoStart =>
                  /\ \A r \in rows : r[1] <= page.at
                  /\ \A r \in Rows : GoneBy(r) => r[1] <= page.at
                  /\ \A r \in Due : r[1] <= page.at => GoneBy(r) \/ r \in rows
<1> DEFINE rows == page.rows \cup shown
           at == page.at
           after == page.after
<1>1. /\ ~Done /\ IsFiniteSet(page.rows) /\ Unseen(page.rows) /\ ComesTo(page.rows, at, after)
      /\ Due \subseteq Rows
      /\ page.at \in 0 .. Chains /\ page.after \in SortKeys \cup {NoStart}
  BY DEF ListingInv, PageFits, ListingTypeOK, Due, Listed
<1>2. at \in Nat /\ after \in Int
  BY <1>1, ListingNumbers
<1>3. \A r \in Rows : r[1] \in Nat /\ r[2] \in Nat
  BY RowParts, ListingNumbers
<1>4. /\ IsFiniteSet(shown)
      /\ last # NoStart => last \in SortKeys /\ last > after
      /\ \A r \in shown : /\ r \in Rows \ Hidden /\ r[1] = at /\ r[2] > after
                          /\ last # NoStart => r[2] <= last
      /\ \A r \in Due :
           r[1] = at /\ r[2] > after /\ (last = NoStart \/ r[2] <= last) => r \in shown
  BY DEF ShownFits
<1>5. /\ \A r \in page.rows : r \in Rows \ Hidden /\ ~GoneBy(r) /\ Passed(r, at, after)
      /\ \A r \in Rows : GoneBy(r) => Passed(r, at, after)
      /\ \A r \in Due : Passed(r, at, after) => GoneBy(r) \/ r \in page.rows
  BY <1>1 DEF Unseen, ComesTo
<1> HIDE DEF at, after
<1>6. IsFiniteSet(rows)
  BY <1>1, <1>4, FS_Union
<1>7. Unseen(rows)
  <2>1. \A r \in shown : ~Passed(r, at, after)
    BY <1>2, <1>3, <1>4 DEF Passed
  <2> QED
    BY <1>4, <1>5, <2>1 DEF Unseen
<1>8. ASSUME last # NoStart
      PROVE  last \in SortKeys /\ ComesTo(rows, at, last)
  <2>1. last \in SortKeys /\ last \in Nat /\ last > after
    BY <1>4, <1>8, ListingNumbers
  <2>2. \A r \in Rows : Passed(r, at, after) => Passed(r, at, last)
    BY <1>2, <1>3, <2>1 DEF Passed
  <2>3. \A r \in shown : Passed(r, at, last)
    BY <1>4, <1>8 DEF Passed
  <2>4. ASSUME NEW r \in Due, Passed(r, at, last)
        PROVE  GoneBy(r) \/ r \in rows
    <3>1. r \in Rows /\ r[1] \in Nat /\ r[2] \in Nat
      BY <1>1, <1>3
    <3>2. Passed(r, at, after) \/ (r[1] = at /\ r[2] > after /\ r[2] <= last)
      BY <1>2, <2>1, <2>4, <3>1 DEF Passed
    <3> QED
      BY <1>4, <1>5, <3>2
  <2> QED
    BY <1>5, <2>1, <2>2, <2>3, <2>4 DEF ComesTo
<1>9. ASSUME last = NoStart
      PROVE  /\ \A r \in rows : r[1] <= at
             /\ \A r \in Rows : GoneBy(r) => r[1] <= at
             /\ \A r \in Due : r[1] <= at => GoneBy(r) \/ r \in rows
  <2>1. \A r \in Rows : Passed(r, at, after) => r[1] <= at
    BY <1>2, <1>3 DEF Passed
  <2>2. \A r \in shown : r[1] <= at
    BY <1>2, <1>4
  <2>3. ASSUME NEW r \in Due, r[1] <= at
        PROVE  GoneBy(r) \/ r \in rows
    <3>1. r \in Rows /\ r[1] \in Nat /\ r[2] \in Nat
      BY <1>1, <1>3
    <3>2. Passed(r, at, after) \/ (r[1] = at /\ r[2] > after)
      BY <1>2, <2>3, <3>1 DEF Passed
    <3> QED
      BY <1>4, <1>5, <1>9, <3>2
  <2> QED
    BY <1>5, <2>1, <2>2, <2>3
<1> QED
  BY <1>6, <1>7, <1>8, <1>9 DEF at

\* At the end of the last chain nothing that is due is left.
LEMMA NothingLeft ==
  ASSUME ListingInv, page.reading, NEW rows, LaterChains = {},
         \A r \in Due : r[1] <= page.at => GoneBy(r) \/ r \in rows
  PROVE  \A r \in Due : GoneBy(r) \/ r \in rows
<1> TAKE r \in Due
<1>1. r[1] \in page.chains /\ r \in Rows
  BY DEF ListingInv, PageFits, Due, ListingTypeOK, Listed
<1>2. r[1] \in Nat /\ page.at \in Nat
  BY <1>1, RowParts DEF ListingInv, ListingTypeOK
<1>3. r[1] <= page.at
  BY <1>1, <1>2 DEF LaterChains
<1> QED
  BY <1>3

\* From the end of one chain to the start of the next.
LEMMA NextChain ==
  ASSUME ListingInv, page.reading, NEW rows \in SUBSET Rows, LaterChains # {},
         \A r \in rows : r[1] <= page.at,
         \A r \in Rows : GoneBy(r) => r[1] <= page.at,
         \A r \in Due : r[1] <= page.at => GoneBy(r) \/ r \in rows
  PROVE  Least(LaterChains) \in page.chains /\ ComesTo(rows, Least(LaterChains), NoStart)
<1> DEFINE next == Least(LaterChains)
<1>1. page.at \in Nat /\ page.chains \subseteq 1 .. Chains
  BY DEF ListingInv, ListingTypeOK
<1>2. LaterChains \in SUBSET Nat
  BY <1>1 DEF LaterChains
<1>3. next \in LaterChains /\ \A c \in LaterChains : next <= c
  BY <1>2, LeastIsLeast
<1>4. next \in Nat /\ next \in page.chains /\ next > page.at
  BY <1>2, <1>3 DEF LaterChains
<1> HIDE DEF next
<1>5. \A r \in Rows : r[1] \in Nat /\ r[2] \in Nat
  BY RowParts, ListingNumbers
<1>6. \A r \in Rows : Passed(r, next, NoStart) <=> r[1] < next
  BY <1>4, <1>5, ListingNumbers DEF Passed
<1>7. \A r \in Rows : r[1] <= page.at => Passed(r, next, NoStart)
  BY <1>1, <1>4, <1>5, <1>6
<1>8. ASSUME NEW r \in Due, Passed(r, next, NoStart)
      PROVE  r[1] <= page.at
  <2>1. r \in Rows /\ r[1] \in page.chains
    BY DEF ListingInv, PageFits, Due, ListingTypeOK, Listed
  <2>2. r[1] < next /\ r[1] \in Nat
    BY <1>5, <1>6, <1>8, <2>1
  <2>3. r[1] \notin LaterChains
    BY <1>3, <1>4, <2>2
  <2> QED
    BY <1>1, <2>1, <2>2, <2>3 DEF LaterChains
<1>9. ComesTo(rows, next, NoStart)
  BY <1>7, <1>8 DEF ComesTo
<1> QED
  BY <1>4, <1>9 DEF next

\* The rows that an index holds of a chain are those that may be shown of it.
LEMMA IndexHolds ==
  ASSUME ListingTypeOK, NEW at \in 1 .. Chains, NEW after \in SortKeys \cup {NoStart}
  PROVE  /\ Indexed(at, after) \in SUBSET SortKeys /\ AnyStatus(at, after) \in SUBSET SortKeys
         /\ \A k \in Indexed(at, after) \cup AnyStatus(at, after) : k > after
         /\ \A r \in Due : r[1] = at /\ r[2] > after =>
              r[2] \in Indexed(at, after) /\ r[2] \in AnyStatus(at, after)
<1>1. ASSUME NEW r \in Due, r[1] = at, r[2] > after
      PROVE  r[2] \in Indexed(at, after) /\ r[2] \in AnyStatus(at, after)
  <2>1. r \in Rows /\ standing[r] = "listed"
    BY DEF Due, ListingTypeOK, Listed
  <2>2. r[2] \in SortKeys /\ r = <<at, r[2]>>
    BY <1>1, <2>1, RowParts
  <2> QED
    BY <1>1, <2>1, <2>2 DEF Indexed, AnyStatus
<1> QED
  BY <1>1 DEF Indexed, AnyStatus

LEMMA PageNumbers ==
  ASSUME ListingInv, page.reading
  PROVE  /\ page.at \in 1 .. Chains /\ page.at \in page.chains
         /\ page.after \in SortKeys \cup {NoStart}
         /\ page.limit \in Nat \ {0}
         /\ route \in Walking => Left \in Nat \ {0}
         /\ route \notin Walking => page.at = 1
<1>1. /\ page.at \in page.chains /\ page.chains \subseteq 1 .. Chains
      /\ page.after \in SortKeys \cup {NoStart}
      /\ page.limit \in Nat \ {0}
      /\ route \notin Walking => page.at = 1
  BY ListingAssumption DEF ListingInv, PageFits, ListingTypeOK
<1>2. ASSUME route \in Walking
      PROVE  Left \in Nat \ {0}
  <2>1. IsFiniteSet(page.rows) /\ Cardinality(page.rows) < page.limit
    BY <1>2 DEF ListingInv, PageFits
  <2>2. Cardinality(page.rows) \in Nat
    BY <2>1, FS_CardinalityType
  <2> QED
    BY <1>1, <2>1, <2>2 DEF Left
<1> QED
  BY <1>1, <1>2

\* One query of the walk over the chains.
LEMMA ReadOnKeepsInv ==
  ASSUME ListingInv, page.reading, route \in Walking, NEW shown, NEW last, ReadOn(shown, last),
         UNCHANGED <<route, chains, standing, steady>>,
         ShownFits(shown, page.at, page.after, last)
  PROVE  ListingInv'
<1> DEFINE rows == page.rows \cup shown
           next == Least(LaterChains)
<1>1. /\ IsFiniteSet(rows) /\ Unseen(rows)
      /\ last # NoStart => last \in SortKeys /\ ComesTo(rows, page.at, last)
      /\ last = NoStart =>
           /\ \A r \in rows : r[1] <= page.at
           /\ \A r \in Rows : GoneBy(r) => r[1] <= page.at
           /\ \A r \in Due : r[1] <= page.at => GoneBy(r) \/ r \in rows
  BY PageMovesOn
<1>2. page.at \in 1 .. Chains /\ page.chains \subseteq 1 .. Chains /\ page.limit \in Nat
  BY PageNumbers DEF ListingInv, ListingTypeOK
<1>3. rows \in SUBSET Rows
  BY <1>1 DEF Unseen
<1>4. /\ last # NoStart => Stop(rows, [at |-> page.at, after |-> last])
      /\ last = NoStart /\ LaterChains = {} => Stop(rows, NoMore)
      /\ last = NoStart /\ LaterChains # {} /\ Cardinality(rows) >= page.limit =>
           Stop(rows, [at |-> next, after |-> NoStart])
      /\ last = NoStart /\ LaterChains # {} /\ ~(Cardinality(rows) >= page.limit) =>
           /\ page' = [page EXCEPT !.at = next, !.after = NoStart, !.rows = rows]
           /\ UNCHANGED <<cursor, seen>>
  BY DEF ReadOn, StartsNext
<1> HIDE DEF rows
<1>5. CASE last # NoStart
  BY <1>1, <1>2, <1>4, <1>5, StopKeepsInv
<1>6. CASE last = NoStart /\ LaterChains = {}
  <2>1. \A r \in Due : GoneBy(r) \/ r \in rows
    BY <1>1, <1>6, NothingLeft
  <2> QED
    BY <1>1, <1>4, <1>6, <2>1, StopKeepsInv
<1>7. CASE last = NoStart /\ LaterChains # {}
  <2>1. next \in page.chains /\ ComesTo(rows, next, NoStart)
    BY <1>1, <1>3, <1>7, NextChain
  <2>2. next \in 1 .. Chains /\ NoStart \in SortKeys \cup {NoStart}
    BY <1>2, <2>1
  <2> HIDE DEF next
  <2>3. CASE Cardinality(rows) >= page.limit
    BY <1>1, <1>4, <1>7, <2>1, <2>2, <2>3, StopKeepsInv
  <2>4. CASE ~(Cardinality(rows) >= page.limit)
    <3>1. Cardinality(rows) < page.limit
      BY <1>1, <1>2, <2>4, FS_CardinalityType
    <3> QED
      BY <1>1, <1>4, <1>7, <2>1, <2>2, <2>4, <3>1, PageKeepsInv
  <2> QED
    BY <2>3, <2>4
<1> QED
  BY <1>5, <1>6, <1>7

\* A page of a partition, in one query.
LEMMA AnswersKeepsInv ==
  ASSUME ListingInv, page.reading, route \notin Walking \cup {"signers"}, NEW q, AnswersPage(q),
         UNCHANGED <<route, chains, standing, steady>>,
         ShownFits(q.rows, page.at, page.after, q.last)
  PROVE  ListingInv'
<1>1. page.rows = {} /\ page.at = 1 /\ page.chains = {1} /\ 1 \in 1 .. Chains
  BY PageNumbers DEF ListingInv, PageFits
<1>2. q.rows = page.rows \cup q.rows
  BY <1>1
<1>3. /\ Unseen(q.rows)
      /\ q.last # NoStart => q.last \in SortKeys /\ ComesTo(q.rows, 1, q.last)
      /\ q.last = NoStart => \A r \in Due : r[1] <= page.at => GoneBy(r) \/ r \in q.rows
  BY <1>1, <1>2, PageMovesOn
<1>4. CASE q.last # NoStart
  BY <1>1, <1>3, <1>4, StopKeepsInv DEF AnswersPage
<1>5. CASE q.last = NoStart
  <2>1. LaterChains = {}
    BY <1>1 DEF LaterChains
  <2>2. \A r \in Due : GoneBy(r) \/ r \in q.rows
    BY <1>3, <1>5, <2>1, NothingLeft
  <2> QED
    BY <1>3, <1>5, <2>2, StopKeepsInv DEF AnswersPage
<1> QED
  BY <1>4, <1>5

(***************************************************************************)
(* The handlers                                                            *)
(***************************************************************************)
LEMMA ListRulesInv == ASSUME ListingInv, ListRules PROVE ListingInv'
<1>1. page.reading /\ route = "rules" /\ UNCHANGED <<route, chains, standing, steady>>
  BY DEF ListRules
<1>2. ListingTypeOK /\ Hidden = Unreadable /\ route \in Walking
  BY <1>1 DEF ListingInv, Hidden, Walking
<1>3. PICK q \in Query(Indexed(page.at, page.after), Left) :
        ReadOn(Readable(Of(page.at, q)), q.last)
  BY <1>1 DEF ListRules, listRules
<1>4. /\ page.at \in 1 .. Chains /\ page.after \in SortKeys \cup {NoStart} /\ Left \in Nat \ {0}
  BY <1>1, <1>2, PageNumbers
<1>5. PageAnswers(q, Indexed(page.at, page.after))
  BY <1>2, <1>4, IndexHolds, QueryAnswers
<1>6. /\ Readable(Of(page.at, q)) \subseteq Of(page.at, q)
      /\ \A r \in Readable(Of(page.at, q)) : r \notin Hidden
      /\ \A r \in Of(page.at, q) : r \in Due => r \in Readable(Of(page.at, q))
  BY <1>2 DEF Readable, Due
<1>7. ShownFits(Readable(Of(page.at, q)), page.at, page.after, q.last)
  BY <1>2, <1>4, <1>5, <1>6, IndexHolds, ShownIsRight
<1> QED
  BY <1>1, <1>2, <1>3, <1>7, ReadOnKeepsInv

LEMMA ListTxsInv == ASSUME ListingInv, ListTxs PROVE ListingInv'
<1>1. page.reading /\ route = "txs" /\ UNCHANGED <<route, chains, standing, steady>>
  BY DEF ListTxs
<1>2. ListingTypeOK /\ Hidden = Unreadable \cup Foreign /\ route \in Walking
  BY <1>1 DEF ListingInv, Hidden, Walking
<1>3. PICK q \in Query(Indexed(page.at, page.after), Left) :
        ReadOn(Readable(Of(page.at, q)) \ Foreign, q.last)
  <2>1. PICK p \in listPendingTxs(page.at, page.after, Left) : ReadOn(p.rows \ Foreign, p.last)
    BY <1>1 DEF ListTxs
  <2>2. PICK q \in Query(Indexed(page.at, page.after), Left) :
          p = [rows |-> Readable(Of(page.at, q)), last |-> q.last]
    BY <2>1 DEF listPendingTxs
  <2>3. p.rows = Readable(Of(page.at, q)) /\ p.last = q.last
    BY <2>2
  <2> QED
    BY <2>1, <2>3
<1> DEFINE shown == Readable(Of(page.at, q)) \ Foreign
<1>4. /\ page.at \in 1 .. Chains /\ page.after \in SortKeys \cup {NoStart} /\ Left \in Nat \ {0}
  BY <1>1, <1>2, PageNumbers
<1>5. PageAnswers(q, Indexed(page.at, page.after))
  BY <1>2, <1>4, IndexHolds, QueryAnswers
<1>6. /\ shown \subseteq Of(page.at, q)
      /\ \A r \in shown : r \notin Hidden
      /\ \A r \in Of(page.at, q) : r \in Due => r \in shown
  BY <1>2 DEF Readable, Due
<1>7. ShownFits(shown, page.at, page.after, q.last)
  BY <1>2, <1>4, <1>5, <1>6, IndexHolds, ShownIsRight
<1> QED
  BY <1>1, <1>2, <1>3, <1>7, ReadOnKeepsInv

LEMMA ListMatchesInv == ASSUME ListingInv, ListMatches PROVE ListingInv'
<1>1. page.reading /\ route = "matches" /\ UNCHANGED <<route, chains, standing, steady>>
  BY DEF ListMatches
<1>2. ListingTypeOK /\ Hidden = {} /\ route \notin Walking \cup {"signers"} /\ page.at = 1
  BY <1>1, PageNumbers DEF ListingInv, Hidden, Walking
<1>3. PICK q \in Query(AnyStatus(1, page.after), page.limit) :
        AnswersPage([rows |-> Of(1, q) \cap Listed(standing), last |-> q.last])
  BY <1>1 DEF ListMatches, listMatches
<1> DEFINE shown == Of(1, q) \cap Listed(standing)
<1>4. /\ 1 \in 1 .. Chains /\ page.after \in SortKeys \cup {NoStart} /\ page.limit \in Nat \ {0}
  BY <1>1, <1>2, PageNumbers
<1>5. PageAnswers(q, AnyStatus(1, page.after))
  BY <1>2, <1>4, IndexHolds, QueryAnswers
<1>6. /\ shown \subseteq Of(1, q)
      /\ \A r \in shown : r \notin Hidden
      /\ \A r \in Of(1, q) : r \in Due => r \in shown
  BY <1>2 DEF Due, ListingTypeOK
<1>7. ShownFits(shown, page.at, page.after, q.last)
  BY <1>2, <1>4, <1>5, <1>6, IndexHolds, ShownIsRight
<1> QED
  BY <1>1, <1>2, <1>3, <1>7, AnswersKeepsInv

LEMMA ListDeadInv == ASSUME ListingInv, ListDead PROVE ListingInv'
<1>1. page.reading /\ route = "dead" /\ UNCHANGED <<route, chains, standing, steady>>
  BY DEF ListDead
<1>2. /\ ListingTypeOK /\ Hidden = Unreadable /\ route \notin Walking \cup {"signers"}
      /\ page.at = 1
  BY <1>1, PageNumbers DEF ListingInv, Hidden, Walking
<1>3. PICK q \in Query(Indexed(1, page.after), page.limit) :
        AnswersPage([rows |-> Readable(Of(1, q)), last |-> q.last])
  BY <1>1 DEF ListDead, listDead
<1>4. /\ 1 \in 1 .. Chains /\ page.after \in SortKeys \cup {NoStart} /\ page.limit \in Nat \ {0}
  BY <1>1, <1>2, PageNumbers
<1>5. PageAnswers(q, Indexed(1, page.after))
  BY <1>2, <1>4, IndexHolds, QueryAnswers
<1>6. /\ Readable(Of(1, q)) \subseteq Of(1, q)
      /\ \A r \in Readable(Of(1, q)) : r \notin Hidden
      /\ \A r \in Of(1, q) : r \in Due => r \in Readable(Of(1, q))
  BY <1>2 DEF Readable, Due
<1>7. ShownFits(Readable(Of(1, q)), page.at, page.after, q.last)
  BY <1>2, <1>4, <1>5, <1>6, IndexHolds, ShownIsRight
<1> QED
  BY <1>1, <1>2, <1>3, <1>7, AnswersKeepsInv

LEMMA ListSubjectInv == ASSUME ListingInv, ListSubject PROVE ListingInv'
<1>1. page.reading /\ route = "subject" /\ UNCHANGED <<route, chains, standing, steady>>
  BY DEF ListSubject
<1>2. /\ ListingTypeOK /\ Hidden = Unreadable /\ route \notin Walking \cup {"signers"}
      /\ page.at = 1
  BY <1>1, PageNumbers DEF ListingInv, Hidden, Walking
<1>3. PICK q \in Query(AnyStatus(1, page.after), page.limit) :
        AnswersPage([rows |-> Readable(Of(1, q)), last |-> q.last])
  BY <1>1 DEF ListSubject, listBySubject
<1>4. /\ 1 \in 1 .. Chains /\ page.after \in SortKeys \cup {NoStart} /\ page.limit \in Nat \ {0}
  BY <1>1, <1>2, PageNumbers
<1>5. PageAnswers(q, AnyStatus(1, page.after))
  BY <1>2, <1>4, IndexHolds, QueryAnswers
<1>6. /\ Readable(Of(1, q)) \subseteq Of(1, q)
      /\ \A r \in Readable(Of(1, q)) : r \notin Hidden
      /\ \A r \in Of(1, q) : r \in Due => r \in Readable(Of(1, q))
  BY <1>2 DEF Readable, Due
<1>7. ShownFits(Readable(Of(1, q)), page.at, page.after, q.last)
  BY <1>2, <1>4, <1>5, <1>6, IndexHolds, ShownIsRight
<1> QED
  BY <1>1, <1>2, <1>3, <1>7, AnswersKeepsInv

LEMMA ListSignersInv == ASSUME ListingInv, ListSigners PROVE ListingInv'
<1>1. page.reading /\ route = "signers" /\ UNCHANGED <<route, chains, standing, steady>>
  BY DEF ListSigners
<1>2. /\ ListingTypeOK /\ Hidden = Unreadable \cup Foreign
      /\ route \notin Walking /\ page.at = 1 /\ page.chains = {1}
  BY <1>1 DEF ListingInv, Hidden, Walking, PageFits
<1>3. PICK p \in signerPages(page.after) :
        LET rows == page.rows \cup (p.rows \ Foreign)
        IN IF p.last = NoStart THEN Stop(rows, NoMore)
           ELSE page' = [page EXCEPT !.after = p.last, !.rows = rows] /\ UNCHANGED <<cursor, seen>>
  BY <1>1 DEF ListSigners
<1>4. PICK n \in Limits : \E q \in Query(Indexed(1, page.after), n) :
        p = [rows |-> Readable(Of(1, q)), last |-> q.last]
  BY DEF signerPages
<1>5. PICK q \in Query(Indexed(1, page.after), n) :
        p = [rows |-> Readable(Of(1, q)), last |-> q.last]
  BY <1>4
<1> DEFINE shown == p.rows \ Foreign
           rows == page.rows \cup shown
<1>6. /\ 1 \in 1 .. Chains /\ page.after \in SortKeys \cup {NoStart} /\ n \in Nat \ {0}
  BY <1>1, <1>2, PageNumbers, ListingAssumption
<1>7. PageAnswers(q, Indexed(1, page.after))
  BY <1>2, <1>6, IndexHolds, QueryAnswers
<1>8. p.rows = Readable(Of(1, q)) /\ p.last = q.last
  BY <1>5
<1>9. /\ shown \subseteq Of(1, q)
      /\ \A r \in shown : r \notin Hidden
      /\ \A r \in Of(1, q) : r \in Due => r \in shown
  BY <1>2, <1>8 DEF Readable, Due
<1> HIDE DEF shown
<1>10. ShownFits(shown, page.at, page.after, p.last)
  BY <1>2, <1>6, <1>7, <1>8, <1>9, IndexHolds, ShownIsRight
<1>11. /\ IsFiniteSet(rows) /\ Unseen(rows)
       /\ p.last # NoStart => p.last \in SortKeys /\ ComesTo(rows, page.at, p.last)
       /\ p.last = NoStart => \A r \in Due : r[1] <= page.at => GoneBy(r) \/ r \in rows
  BY <1>1, <1>10, PageMovesOn
<1>12. /\ p.last = NoStart => Stop(rows, NoMore)
       /\ p.last # NoStart =>
            page' = [page EXCEPT !.after = p.last, !.rows = rows] /\ UNCHANGED <<cursor, seen>>
  BY <1>3 DEF shown
<1> HIDE DEF rows
<1>13. CASE p.last = NoStart
  <2>1. LaterChains = {}
    BY <1>2 DEF LaterChains
  <2>2. \A r \in Due : GoneBy(r) \/ r \in rows
    BY <1>1, <1>11, <1>13, <2>1, NothingLeft
  <2> QED
    BY <1>1, <1>11, <1>12, <1>13, <2>2, StopKeepsInv
<1>14. CASE p.last # NoStart
  <2>1. page' = [page EXCEPT !.at = page.at, !.after = p.last, !.rows = rows]
    <3>1. page \in [reading : BOOLEAN, limit : Limits \cup {0}, chains : SUBSET (1..Chains),
                    at : 0..Chains, after : SortKeys \cup {NoStart}, rows : SUBSET Rows]
      BY <1>2 DEF ListingTypeOK
    <3> QED
      BY <1>12, <1>14, <3>1
  <2>2. page.at \in page.chains
    BY <1>2
  <2> QED
    BY <1>1, <1>2, <1>11, <1>12, <1>14, <2>1, <2>2, PageKeepsInv
<1> QED
  BY <1>13, <1>14

(***************************************************************************)
(* Requests, and what happens beside them                                  *)
(***************************************************************************)
LEMMA RequestPageInv == ASSUME ListingInv, NEW n \in Limits, RequestPage(n) PROVE ListingInv'
<1> PICK at : at = StartChain
  OBVIOUS
<1>1. /\ ~page.reading /\ ~Done /\ chains # {} /\ CursorHolds
      /\ page' = [reading |-> TRUE, limit |-> n, chains |-> chains, at |-> at,
                  after |-> cursor.after, rows |-> {}]
      /\ UNCHANGED <<route, chains, standing, cursor, seen, steady>>
  BY DEF RequestPage
<1>2. ListingTypeOK /\ SeenFits /\ cursor \in Cursors /\ chains \subseteq 1 .. Chains
  BY <1>1 DEF ListingInv, ListingTypeOK, Done
<1>3. /\ cursor.after \in SortKeys \cup {NoStart} /\ cursor.at \in 0 .. Chains
      /\ n \in Nat \ {0}
  BY <1>2, ListingAssumption DEF Cursors
<1>4. chains \in SUBSET Nat
  BY <1>2
<1>5. /\ at \in chains
      /\ cursor = First => \A c \in chains : at <= c
      /\ cursor # First => at = cursor.at
  BY <1>1, <1>4, LeastIsLeast DEF StartChain, CursorHolds
<1>6. \A r \in Rows : r[1] \in Nat /\ r[2] \in Nat /\ r[1] >= 1
  BY RowParts, ListingNumbers
<1>7. Due \subseteq Rows /\ \A r \in Due : r[1] \in chains
  BY <1>2 DEF ListingInv, Due, ListingTypeOK, Listed
<1>8. ComesTo({}, at, cursor.after)
  <2>1. CASE cursor = First
    <3>1. cursor.at = 0 /\ cursor.after = NoStart /\ at \in Nat
      BY <1>4, <1>5, <2>1, CursorsAreNotTheEnd
    <3>2. \A r \in Rows : ~GoneBy(r)
      BY <1>1, <1>6, <3>1 DEF GoneBy, Passed
    <3>3. ASSUME NEW r \in Due
          PROVE  ~Passed(r, at, cursor.after)
      <4>1. at <= r[1] /\ r[1] \in Nat /\ r[2] \in Nat
        BY <1>5, <1>6, <1>7, <2>1
      <4> QED
        BY <3>1, <4>1, ListingNumbers DEF Passed
    <3> QED
      BY <3>2, <3>3 DEF ComesTo
  <2>2. CASE cursor # First
    BY <1>1, <1>5, <2>2 DEF ComesTo, GoneBy
  <2> QED
    BY <2>1, <2>2
<1>9. Due' = Due /\ Hidden' = Hidden /\ Done' = Done /\ \A r : GoneBy(r)' <=> GoneBy(r)
  BY <1>1 DEF Due, Hidden, Done, NoMore, NoPage, GoneBy, Passed
<1>10. Unseen({})' /\ ComesTo({}, at, cursor.after)'
  BY <1>1, <1>8, <1>9 DEF Unseen, ComesTo
<1>11. /\ page'.reading /\ page'.limit = n /\ page'.chains = chains /\ page'.at = at
       /\ page'.after = cursor.after /\ page'.rows = {}
  BY <1>1
<1>12. ListingTypeOK'
  <2>1. at \in 0 .. Chains
    BY <1>2, <1>5
  <2>2. page' \in [reading : BOOLEAN, limit : Limits \cup {0}, chains : SUBSET (1..Chains),
                   at : 0..Chains, after : SortKeys \cup {NoStart}, rows : SUBSET Rows]
    BY <1>1, <1>2, <1>3, <2>1
  <2> QED
    BY <1>1, <1>2, <2>2 DEF ListingTypeOK
<1>13. SeenFits'
  BY <1>1, <1>2, <1>9 DEF SeenFits
<1>14. route \notin Walking => at = 1 /\ chains = {1}
  BY <1>5 DEF ListingInv
<1>15. IsFiniteSet({}) /\ Cardinality({}) < n
  BY <1>3, FS_EmptySet
<1>16. PageFits'
  BY <1>1, <1>5, <1>9, <1>10, <1>11, <1>14, <1>15 DEF PageFits
<1> QED
  BY <1>1, <1>12, <1>13, <1>16 DEF ListingInv

LEMMA ReloadInv == ASSUME ListingInv, Reload PROVE ListingInv'
<1>1. /\ ~page.reading /\ cursor' = First /\ seen' = [r \in Rows |-> 0]
      /\ steady' = {r \in Listed(standing) : r[1] \in chains}
      /\ UNCHANGED <<route, chains, standing, page>>
  BY DEF Reload
<1>2. ListingTypeOK'
  <2>1. First \in Cursors /\ seen' \in [Rows -> Nat]
    BY <1>1, ListingNumbers DEF First, Cursors
  <2>2. steady' \subseteq Listed(standing')
    BY <1>1
  <2> QED
    BY <1>1, <2>1, <2>2 DEF ListingInv, ListingTypeOK
<1>3. \A r \in Rows : ~GoneBy(r)'
  <2>1. ~Done' /\ cursor'.at = 0 /\ cursor'.after = NoStart
    BY <1>1, CursorsAreNotTheEnd DEF Done, NoMore, NoPage
  <2>2. \A r \in Rows : r[1] \in Nat /\ r[1] >= 1
    BY RowParts
  <2> QED
    BY <2>1, <2>2 DEF GoneBy, Passed
<1>4. Due' \subseteq Rows
  BY <1>2 DEF Due, ListingTypeOK, Listed
<1>5. SeenFits'
  BY <1>1, <1>3, <1>4 DEF SeenFits
<1> QED
  BY <1>1, <1>2, <1>5 DEF ListingInv, PageFits

LEMMA PageFailsInv == ASSUME ListingInv, PageFails PROVE ListingInv'
<1>1. page' = NoPage /\ ~page'.reading /\ UNCHANGED <<route, chains, standing, cursor, seen, steady>>
  BY CursorsAreNotTheEnd DEF PageFails
<1>2. ListingTypeOK'
  <2>1. NoPage \in [reading : BOOLEAN, limit : Limits \cup {0}, chains : SUBSET (1..Chains),
                    at : 0..Chains, after : SortKeys \cup {NoStart}, rows : SUBSET Rows]
    BY ListingNumbers DEF NoPage
  <2> QED
    BY <1>1, <2>1 DEF ListingInv, ListingTypeOK
<1>3. Due' = Due /\ Hidden' = Hidden /\ \A r : GoneBy(r)' <=> GoneBy(r)
  BY <1>1 DEF Due, Hidden, Done, NoMore, NoPage, GoneBy, Passed
<1>4. SeenFits'
  BY <1>1, <1>3 DEF ListingInv, SeenFits
<1> QED
  BY <1>1, <1>2, <1>4 DEF ListingInv, PageFits

LEMMA ChangesInv ==
  ASSUME ListingInv, NEW r \in Rows, NEW to \in Standings, Changes(r, to)
  PROVE  ListingInv'
<1>1. /\ standing' = [standing EXCEPT ![r] = to] /\ steady' = steady \ {r}
      /\ UNCHANGED <<route, chains, page, cursor, seen>>
  BY DEF Changes
<1>2. ListingTypeOK'
  <2>1. standing' \in [Rows -> Standings]
    BY <1>1 DEF ListingInv, ListingTypeOK
  <2>2. steady' \subseteq Listed(standing')
    BY <1>1 DEF ListingInv, ListingTypeOK, Listed
  <2> QED
    BY <1>1, <2>1, <2>2 DEF ListingInv, ListingTypeOK
<1> QED
  BY <1>1, <1>2, AsideKeepsInv DEF ListingInv

LEMMA SignerGoneInv ==
  ASSUME ListingInv, NEW c \in 1 .. Chains, SignerGone(c)
  PROVE  ListingInv'
<1>1. /\ route = "txs" /\ chains' = chains \ {c} /\ steady' = {r \in steady : r[1] # c}
      /\ UNCHANGED <<route, standing, page, cursor, seen>>
  BY DEF SignerGone
<1>2. ListingTypeOK'
  BY <1>1 DEF ListingInv, ListingTypeOK
<1>3. route \in Walking /\ \A r \in steady' : r[1] \in chains'
  BY <1>1 DEF ListingInv, Walking
<1> QED
  BY <1>1, <1>2, <1>3, AsideKeepsInv

LEMMA ListingInitInv == ListingInit => ListingInv
<1> SUFFICES ASSUME ListingInit
             PROVE  ListingInv
  OBVIOUS
<1>1. /\ route \in Routes /\ page = NoPage /\ cursor = First /\ seen = [r \in Rows |-> 0]
      /\ steady = Listed(standing) /\ ~page.reading
  BY CursorsAreNotTheEnd DEF ListingInit
<1>2. chains \subseteq 1 .. Chains /\ (route \notin Walking => chains = {1})
  BY ListingAssumption DEF ListingInit
<1>3. standing \in [Rows -> Standings]
  BY DEF ListingInit, Standings
<1>4. ListingTypeOK
  <2>1. NoPage \in [reading : BOOLEAN, limit : Limits \cup {0}, chains : SUBSET (1..Chains),
                    at : 0..Chains, after : SortKeys \cup {NoStart}, rows : SUBSET Rows]
    BY ListingNumbers DEF NoPage
  <2>2. First \in Cursors /\ seen \in [Rows -> Nat]
    BY <1>1, ListingNumbers DEF First, Cursors
  <2> QED
    BY <1>1, <1>2, <1>3, <2>1, <2>2 DEF ListingTypeOK
<1>5. \A r \in steady : r \in Rows /\ r[1] \in chains
  BY <1>1 DEF Listed, ListingInit
<1>6. \A r \in Rows : ~GoneBy(r)
  <2>1. ~Done /\ cursor.at = 0 /\ cursor.after = NoStart
    BY <1>1, CursorsAreNotTheEnd DEF Done
  <2>2. \A r \in Rows : r[1] \in Nat /\ r[1] >= 1
    BY RowParts
  <2> QED
    BY <2>1, <2>2 DEF GoneBy, Passed
<1>7. SeenFits
  BY <1>1, <1>5, <1>6 DEF SeenFits, Due
<1> QED
  BY <1>1, <1>2, <1>4, <1>5, <1>7 DEF ListingInv, PageFits

LEMMA ListingNextInv == ASSUME ListingInv, [ListingNext]_listingVars PROVE ListingInv'
<1>1. CASE UNCHANGED listingVars
  <2>1. /\ ListingTypeOK' /\ SeenFits' /\ PageFits'
    BY <1>1 DEF ListingInv, listingVars, ListingTypeOK, SeenFits, PageFits, GoneBy, Done, Passed,
                Due, Hidden, Unseen, ComesTo, Listed, NoMore, NoPage
  <2> QED
    BY <1>1, <2>1 DEF ListingInv, listingVars
<1>2. CASE ListingNext
  BY <1>2, ChangesInv, SignerGoneInv, RequestPageInv, ReloadInv, PageFailsInv, ListRulesInv,
     ListTxsInv, ListMatchesInv, ListDeadInv, ListSubjectInv, ListSignersInv DEF ListingNext
<1> QED
  BY <1>1, <1>2

LEMMA ListingSpecInv == ListingSpec => []ListingInv
<1>1. ListingInv /\ [ListingNext]_listingVars => ListingInv'
  BY ListingNextInv
<1> QED
  BY ListingInitInv, <1>1, PTL DEF ListingSpec

\* A cursor is always one the route can decode again, and a page goes on from a key
\* and a chain of its caller's (rules.ts:106-139, relayer-routes.ts:78-115).
THEOREM ListingTypes == ListingSpec => []ListingTypeOK
<1>1. ListingInv => ListingTypeOK
  BY DEF ListingInv
<1> QED
  BY ListingSpecInv, <1>1, PTL

\* A listing that is at its end has shown each row that was there all along once,
\* and no row twice, nor one that is hidden from the caller: for every number of
\* chains and rows, every page size, and whatever came and went meanwhile
\* (rules.ts:126-139, relayer-routes.ts:98-115, matches.ts:44-50).
THEOREM ListedExactlyOnce == ListingSpec => []ListedOnce
<1>1. ListingInv => ListedOnce
  <2> SUFFICES ASSUME ListingInv
               PROVE  ListedOnce
    OBVIOUS
  <2>1. SeenFits /\ seen \in [Rows -> Nat] /\ steady \subseteq Rows
    BY DEF ListingInv, ListingTypeOK, Listed
  <2>2. Done => \A r \in steady \ Hidden : seen[r] = 1
    BY <2>1 DEF SeenFits, GoneBy, Due
  <2>3. \A r \in Hidden : seen[r] = 0
    BY <2>1, ListingAssumption DEF SeenFits, Hidden, Rows
  <2> QED
    BY <2>1, <2>2, <2>3 DEF SeenFits, ListedOnce
<1> QED
  BY ListingSpecInv, <1>1, PTL
=============================================================================
