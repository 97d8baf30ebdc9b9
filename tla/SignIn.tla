------------------------------- MODULE SignIn --------------------------------
(***************************************************************************)
(* Signing in to the operator API: a nonce is issued and stored, a wallet  *)
(* signs a message that names it, and a verify request spends the nonce    *)
(* and mints a session, which the authorizer then takes, or an API key,    *)
(* with every other request.                                               *)
(*                                                                         *)
(* A message may be sent more than once and to several runs at a time,     *)
(* which read the clock when they begin; the table drops a nonce that is   *)
(* over only some time later; clocks of runs differ.                       *)
(***************************************************************************)
EXTENDS Integers, FiniteSets

CONSTANTS
  Nonces,           \* random: one that was issued never comes again
  Wallets,
  AllowedWallets,
  Verifiers,        \* verify requests that may overlap
  NONCE_SECONDS, SESSION_SECONDS,
  Skew,             \* how far the clock of a run may be ahead
  MaxTime,          \* bound: time
  MaxMessages       \* bound: messages signed

ASSUME SignInAssumption ==
  /\ AllowedWallets \subseteq Wallets
  /\ NONCE_SECONDS \in Nat \ {0} /\ SESSION_SECONDS \in Nat \ {0}
  /\ Skew \in Nat /\ MaxTime \in Nat /\ MaxMessages \in Nat

Times == 0..MaxTime
Never == -1

\* A SIWE message: `ours` if it names this domain, origin and a chain of ours,
\* `genuine` if its signature is its wallet's.
Message == [nonce : Nonces, wallet : Wallets, expires : Times, ours : BOOLEAN, genuine : BOOLEAN]

Session == [wallet : Wallets, nonce : Nonces, issuedAt : Nat]

Requester == {"nobody", "session", "apiKey"}

VARIABLES
  clock,
  nonceRow,   \* [Nonces -> expiresAt of the stored row, or Never]
  issuedAt,   \* history: [Nonces -> when it was issued, or Never]
  messages,
  verifier,   \* [Verifiers -> [pc, message, at : the time its run read]]
  sessions,   \* tokens minted
  minted,     \* history: [Nonces -> sessions minted with it]
  granted     \* the authorizer's last answer: to whom, for which session and when

signInVars == <<clock, nonceRow, issuedAt, messages, verifier, sessions, minted, granted>>

NoMessage == [nonce |-> CHOOSE n \in Nonces : TRUE, wallet |-> CHOOSE w \in Wallets : TRUE,
              expires |-> 0, ours |-> FALSE, genuine |-> FALSE]
NoSession == [wallet |-> NoMessage.wallet, nonce |-> NoMessage.nonce, issuedAt |-> 0]
IdleVerifier == [pc |-> "idle", message |-> NoMessage, at |-> 0]
Refusal == [who |-> "nobody", session |-> NoSession, at |-> 0]

SignInInit ==
  /\ clock = 0
  /\ nonceRow = [n \in Nonces |-> Never]
  /\ issuedAt = [n \in Nonces |-> Never]
  /\ messages = {}
  /\ verifier = [v \in Verifiers |-> IdleVerifier]
  /\ sessions = {}
  /\ minted = [n \in Nonces |-> 0]
  /\ granted = Refusal

Tick ==
  /\ clock < MaxTime
  /\ clock' = clock + 1
  /\ UNCHANGED <<nonceRow, issuedAt, messages, verifier, sessions, minted, granted>>

\* handleNonce
IssueNonce(n) ==
  /\ issuedAt[n] = Never
  /\ nonceRow' = [nonceRow EXCEPT ![n] = clock + NONCE_SECONDS]
  /\ issuedAt' = [issuedAt EXCEPT ![n] = clock]
  /\ UNCHANGED <<clock, messages, verifier, sessions, minted, granted>>

\* TTL: some time after expiresAt.
NonceSwept(n) ==
  /\ nonceRow[n] # Never /\ nonceRow[n] <= clock
  /\ nonceRow' = [nonceRow EXCEPT ![n] = Never]
  /\ UNCHANGED <<clock, issuedAt, messages, verifier, sessions, minted, granted>>

\* The wallet, or someone in its name, signs a message.
Sign(m) ==
  /\ Cardinality(messages) < MaxMessages
  /\ issuedAt[m.nonce] # Never
  /\ messages' = messages \cup {m}
  /\ UNCHANGED <<clock, nonceRow, issuedAt, verifier, sessions, minted, granted>>

\* checkSiweMessage
Acceptable(m, at) ==
  /\ m.ours
  /\ m.expires <= at + NONCE_SECONDS /\ m.expires > at
  /\ m.wallet \in AllowedWallets

\* handleVerify begins; a message it does not accept changes nothing.
Verify(v, m) ==
  /\ verifier[v].pc = "idle"
  /\ \E at \in clock .. clock + Skew :
       /\ Acceptable(m, at)
       /\ verifier' = [verifier EXCEPT ![v] = [pc |-> "consume", message |-> m, at |-> at]]
  /\ UNCHANGED <<clock, nonceRow, issuedAt, messages, sessions, minted, granted>>

\* Mutant: a row that is still there counts, as if TTL were a clock.
StillThere(n, at) == nonceRow[n] # Never

\* What the deleted row says of the time.
InTime(n, at) == nonceRow[n] # Never /\ at < nonceRow[n]

Deleted(n) == [nonceRow EXCEPT ![n] = Never]

\* store.consume: a conditional delete decides who spends the nonce, and the
\* stored time whether it was still good.
Consume(v) ==
  /\ verifier[v].pc = "consume"
  /\ LET n == verifier[v].message.nonce
     IN /\ nonceRow' = Deleted(n)
        /\ verifier' = [verifier EXCEPT ![v] = IF InTime(n, verifier[v].at)
                                               THEN [verifier[v] EXCEPT !.pc = "signature"]
                                               ELSE IdleVerifier]
  /\ UNCHANGED <<clock, issuedAt, messages, sessions, minted, granted>>

\* Mutant: a wallet that may sign in is taken at its word.
NoProof(m) == m.wallet \in AllowedWallets

\* verifySiweMessage: the wallet's signature, which the RPC is asked about if the
\* wallet is a contract.
Proven(m) == m.genuine

Mint(v) ==
  /\ verifier[v].pc = "signature"
  /\ LET m == verifier[v].message
     IN IF Proven(m)
        THEN /\ sessions' = sessions \cup {[wallet |-> m.wallet, nonce |-> m.nonce,
                                            issuedAt |-> verifier[v].at]}
             /\ minted' = [minted EXCEPT ![m.nonce] = @ + 1]
        ELSE UNCHANGED <<sessions, minted>>
  /\ verifier' = [verifier EXCEPT ![v] = IdleVerifier]
  /\ UNCHANGED <<clock, nonceRow, issuedAt, messages, granted>>

VerifyDies(v) ==
  /\ verifier[v].pc # "idle"
  /\ verifier' = [verifier EXCEPT ![v] = IdleVerifier]
  /\ UNCHANGED <<clock, nonceRow, issuedAt, messages, sessions, minted, granted>>

\* verifySession: not before its time, not after it.
Valid(s, at) == s.issuedAt <= at /\ at < s.issuedAt + SESSION_SECONDS

\* authorize: a request with a session token is answered by the token alone.
AuthorizeSession(s) ==
  /\ \E at \in clock .. clock + Skew :
       granted' = IF Valid(s, at) THEN [who |-> "session", session |-> s, at |-> at] ELSE Refusal
  /\ UNCHANGED <<clock, nonceRow, issuedAt, messages, verifier, sessions, minted>>

\* A request with a token of no session, or with none; the API key of one with
\* none is tried.
AuthorizeOther(cookie, key) ==
  /\ granted' = IF key /\ ~cookie THEN [who |-> "apiKey", session |-> NoSession, at |-> clock] ELSE Refusal
  /\ UNCHANGED <<clock, nonceRow, issuedAt, messages, verifier, sessions, minted>>

SignInNext ==
  \/ Tick
  \/ \E n \in Nonces : IssueNonce(n) \/ NonceSwept(n)
  \/ \E m \in Message : Sign(m)
  \/ \E v \in Verifiers : (\E m \in messages : Verify(v, m)) \/ Consume(v) \/ Mint(v) \/ VerifyDies(v)
  \/ \E s \in sessions : AuthorizeSession(s)
  \/ \E cookie, key \in BOOLEAN : AuthorizeOther(cookie, key)

SignInSpec == SignInInit /\ [][SignInNext]_signInVars

SignInTypeOK ==
  /\ clock \in Times
  /\ nonceRow \in [Nonces -> Nat \cup {Never}]
  /\ issuedAt \in [Nonces -> Times \cup {Never}]
  /\ messages \subseteq Message
  /\ verifier \in [Verifiers -> [pc : {"idle", "consume", "signature"}, message : Message, at : Nat]]
  /\ sessions \subseteq Session
  /\ minted \in [Nonces -> Nat]
  /\ granted \in [who : Requester, session : Session, at : Nat]

\* A nonce mints one session at most, although its message is sent again and to
\* runs that overlap, and none once it is over, although its row is still there
\* (auth-routes.ts:34, store.ts:228, "TTL is a sweeper, not a clock").
NonceSpentOnce ==
  /\ \A n \in Nonces : minted[n] <= 1
  /\ \A s \in sessions : /\ s.wallet \in AllowedWallets
                         /\ s.issuedAt < issuedAt[s.nonce] + NONCE_SECONDS

\* Behind whatever the API grants a session stands a message that this wallet,
\* an allowed one, signed for this site and with a nonce of ours; and the grant
\* is less than a session's time after the message's own expiry and after the
\* nonce's, whatever requests overlapped on the way and whichever clocks they
\* read (auth-routes.ts:34-51, siwe.ts, authorizer.ts:29).
GrantTraced ==
  granted.who = "session" =>
    \E m \in messages :
      /\ m.genuine /\ m.ours /\ m.wallet \in AllowedWallets
      /\ m.wallet = granted.session.wallet /\ m.nonce = granted.session.nonce
      /\ granted.at < m.expires + SESSION_SECONDS
      /\ granted.at < issuedAt[m.nonce] + NONCE_SECONDS + SESSION_SECONDS
=============================================================================
