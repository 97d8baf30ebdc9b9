-------------------------------- MODULE Vault --------------------------------
(***************************************************************************)
(* The demo contract TopUpVault: a pool that its owner funds, balances     *)
(* that accounts spend, and top-ups that anyone may ask for, bounded by    *)
(* the pool and by a cooldown for each account.  Arithmetic is checked:    *)
(* what would leave 0 .. MaxUint reverts.                                  *)
(***************************************************************************)
EXTENDS Integers, Sequences

CONSTANTS
  Accounts,
  threshold, topUpAmount, cooldown,
  MaxUint,      \* the largest value of a word
  Epoch,        \* block.timestamp when the vault is deployed
  MaxTimestamp, \* bound: block.timestamp
  MaxFunded     \* bound: all that the owner funds

ASSUME VaultAssumption ==
  /\ threshold \in Nat /\ topUpAmount \in Nat /\ cooldown \in Nat
  /\ MaxUint \in Nat /\ Epoch \in Nat /\ MaxTimestamp \in Nat /\ MaxFunded \in Nat

VARIABLES
  timestamp,
  pool, balanceOf, lastTopUp,
  funded,        \* history: all that was funded
  emitted        \* history: [Accounts -> its ToppedUp and BalanceLow events, in order]

vaultVars == <<timestamp, pool, balanceOf, lastTopUp, funded, emitted>>

Event == [what : {"up", "low"}, at : Nat]

VaultInit ==
  /\ timestamp = Epoch
  /\ pool = 0
  /\ balanceOf = [a \in Accounts |-> 0]
  /\ lastTopUp = [a \in Accounts |-> 0]
  /\ funded = 0
  /\ emitted = [a \in Accounts |-> << >>]

NextBlock ==
  /\ timestamp < MaxTimestamp
  /\ timestamp' = timestamp + 1
  /\ UNCHANGED <<pool, balanceOf, lastTopUp, funded, emitted>>

fund(amount) ==
  /\ funded + amount <= MaxFunded
  /\ pool + amount <= MaxUint
  /\ pool' = pool + amount
  /\ funded' = funded + amount
  /\ UNCHANGED <<timestamp, balanceOf, lastTopUp, emitted>>

Emit(a, what) == emitted' = [emitted EXCEPT ![a] = Append(@, [what |-> what, at |-> timestamp])]

\* Only the spend that takes a balance under the threshold reports it.
BalanceLow(balance, remaining) == balance >= threshold /\ remaining < threshold

spend(a, amount) ==
  LET remaining == balanceOf[a] - amount IN
  /\ balanceOf[a] >= amount
  /\ balanceOf' = [balanceOf EXCEPT ![a] = remaining]
  /\ IF BalanceLow(balanceOf[a], remaining) THEN Emit(a, "low") ELSE UNCHANGED emitted
  /\ UNCHANGED <<timestamp, pool, lastTopUp, funded>>

\* Mutant: a second too early.
AvailableEarly(a) == lastTopUp[a] + cooldown - 1

availableAt(a) == lastTopUp[a] + cooldown

\* Mutant: the pool is taken for unlimited.
PoolCoversAny == TRUE

PoolCovers == pool >= topUpAmount

topUp(a) ==
  /\ availableAt(a) <= MaxUint
  /\ timestamp >= availableAt(a)
  /\ PoolCovers
  /\ balanceOf[a] + topUpAmount <= MaxUint
  /\ pool' = pool - topUpAmount
  /\ balanceOf' = [balanceOf EXCEPT ![a] = @ + topUpAmount]
  /\ lastTopUp' = [lastTopUp EXCEPT ![a] = timestamp]
  /\ Emit(a, "up")
  /\ UNCHANGED <<timestamp, funded>>

VaultNext ==
  \/ NextBlock
  \/ \E amount \in 1..MaxFunded : fund(amount)
  \/ \E a \in Accounts, amount \in 1..MaxFunded : spend(a, amount)
  \/ \E a \in Accounts : topUp(a)

VaultSpec == VaultInit /\ [][VaultNext]_vaultVars

VaultTypeOK ==
  /\ timestamp \in Nat
  /\ pool \in 0..MaxUint /\ balanceOf \in [Accounts -> 0..MaxUint]
  /\ lastTopUp \in [Accounts -> Nat]
  /\ funded \in Nat
  /\ emitted \in [Accounts -> Seq(Event)]

\* Of the events i and j, where j comes later.
ApartAt(events, i, j) ==
  events[i].what = events[j].what =>
    IF events[i].what = "up" THEN events[j].at - events[i].at >= cooldown
    ELSE \E k \in i + 1 .. j - 1 : events[k].what = "up"

Spaced(events) == \A i, j \in DOMAIN events : i < j => ApartAt(events, i, j)

\* Of an account, any two top-ups are a cooldown apart, those of one block included,
\* and between any two reports that its balance is low there is a top-up: a rule that
\* tops up on the report does not fire again on every later spend, to revert in the
\* cooldown (TopUpVault.sol:53-55, 58-67).
TopUpsApart == \A a \in Accounts : Spaced(emitted[a])
=============================================================================
