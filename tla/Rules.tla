-------------------------------- MODULE Rules --------------------------------
(***************************************************************************)
(* A rule between its editors and those who act on it.  Editors change the *)
(* stored rule through the operator API: an edit reads the rule, checks    *)
(* the body it was sent and puts the whole rule.  The dispatchers keep the *)
(* rule that they read for a minute, each in the memory of its Lambda      *)
(* container.                                                              *)
(***************************************************************************)
EXTENDS Integers

CONSTANTS
  Bodies,       \* rule bodies that an editor may send and that pass the checks
  Invalid,      \* bodies that are refused: schema, chain, compiler, secret prefix
  Outdated,     \* stored bodies, of an older schema, that do not compile any more
  Nought,       \* no rule, no body, or nothing said of `active`
  Editors,      \* edits that may be under way at once
  Caches,       \* dispatcher containers
  TTL,          \* DEFAULT_TTL_MS
  MaxLoad,      \* how long a dispatcher's read may take
  MaxEdits,     \* bound: edits begun
  MaxClock      \* bound

StoredRules == [body : Bodies \cup Outdated, active : BOOLEAN]

ASSUME RulesAssumption ==
  /\ Nought \notin Bodies \cup Invalid \cup Outdated \cup BOOLEAN \cup Int \cup StoredRules
  /\ TTL \in Nat /\ MaxLoad \in Nat /\ MaxEdits \in Nat /\ MaxClock \in Nat

Views == Bodies \cup {Nought}
Flags == BOOLEAN \cup {Nought}

NoEdit == [body |-> Nought, active |-> Nought, found |-> Nought]
NoEntry == [readAt |-> Nought, value |-> Nought]
NoRead == [since |-> Nought, read |-> FALSE, value |-> Nought]

VARIABLES
  minute,     \* now
  rule,       \* the stored rule, or Nought
  edit,       \* [Editors -> the edit under way: what it says, and `active` as found]
  entry,      \* [Caches -> the cached view, and when it was cached]
  reading,    \* [Caches -> the read under way: since when, and what it has read]
  lastHeld,   \* history: when the stored rule last had each view
  said,       \* history: `active` as the last edit that spoke of it set it
  overlapped, \* history: two edits were under way at once
  edits       \* counter of the bound

rulesVars == <<minute, rule, edit, entry, reading, lastHeld, said, overlapped, edits>>

\* What a dispatcher makes of a stored rule: one that does not compile any more
\* is skipped.
ViewOf(stored) == IF stored = Nought \/ stored.body \in Outdated THEN Nought ELSE stored.body

RulesInit ==
  /\ minute = 0
  /\ rule \in StoredRules \cup {Nought}
  /\ edit = [e \in Editors |-> NoEdit]
  /\ entry = [c \in Caches |-> NoEntry]
  /\ reading = [c \in Caches |-> NoRead]
  /\ lastHeld = [v \in Views |-> IF v = ViewOf(rule) THEN 0 ELSE Nought]
  /\ said = IF rule = Nought THEN Nought ELSE rule.active
  /\ overlapped = FALSE /\ edits = 0

Editing == {e \in Editors : edit[e] # NoEdit}

\* History of every change of the stored rule.
Stores(next) ==
  /\ rule' = next
  /\ lastHeld' = [lastHeld EXCEPT ![ViewOf(rule)] = minute, ![ViewOf(next)] = minute]

(***************************************************************************)
(* The operator API                                                        *)
(***************************************************************************)
\* An edit is a request: another may be under way.
Begins(overlap) == edits < MaxEdits /\ edits' = edits + 1 /\ overlapped' = overlap

\* validateRuleInput
Passes(body) == body \in Bodies

\* POST: a new rule is active.
CreateRule(body) ==
  /\ rule = Nought /\ edits = 0 /\ Begins(overlapped)
  /\ Passes(body)
  /\ Stores([body |-> body, active |-> TRUE]) /\ said' = TRUE
  /\ UNCHANGED <<minute, edit, entry, reading>>

\* PATCH up to its check of the body: a rule that is not there, or is too old for
\* the API to read, and a body that is refused, end it.
ReadForPatch(e, body, active) ==
  /\ edit[e] = NoEdit /\ Begins(overlapped \/ Editing # {})
  /\ \/ /\ rule # Nought /\ Passes(body)
        /\ edit' = [edit EXCEPT ![e] = [body |-> body, active |-> active, found |-> rule.active]]
     \/ /\ Passes(body) => ViewOf(rule) = Nought
        /\ edit' = edit
  /\ UNCHANGED <<minute, rule, entry, reading, lastHeld, said>>

\* Mutant: an edit that says nothing of `active` turns the rule on.
ActiveByDefault(e) == edit[e].active = Nought \/ edit[e].active

ActiveAfter(e) == IF edit[e].active = Nought THEN edit[e].found ELSE edit[e].active

\* ... and its put, which is unconditional: it also brings back a rule that was
\* deleted in between.
PutPatched(e) ==
  /\ edit[e] # NoEdit
  /\ Stores([body |-> edit[e].body, active |-> ActiveAfter(e)])
  /\ said' = IF edit[e].active = Nought THEN said ELSE edit[e].active
  /\ edit' = [edit EXCEPT ![e] = NoEdit]
  /\ UNCHANGED <<minute, entry, reading, overlapped, edits>>

\* The run dies between the two.
PatchDies(e) ==
  /\ edit[e] # NoEdit
  /\ edit' = [edit EXCEPT ![e] = NoEdit]
  /\ UNCHANGED <<minute, rule, entry, reading, lastHeld, said, overlapped, edits>>

\* DELETE
DeleteRule ==
  /\ rule # Nought /\ Begins(overlapped \/ Editing # {})
  /\ Stores(Nought) /\ said' = Nought
  /\ UNCHANGED <<minute, edit, entry, reading>>

(***************************************************************************)
(* The dispatchers                                                         *)
(***************************************************************************)
\* Mutant: an entry that was used counts as read anew.
HitRenews(c) == [entry[c] EXCEPT !.readAt = minute]

\* What a hit leaves in the cache: the entry as it was.
AfterHit(c) == entry[c]

Fresh(c) == entry[c] # NoEntry /\ minute - entry[c].readAt < TTL

\* A change of a match of the rule arrives, and is planned with the entry if that is
\* fresh: with nothing if it holds no view.  The rule need not be active any more.
PlanFromCache(c) ==
  /\ reading[c] = NoRead /\ Fresh(c)
  /\ entry' = [entry EXCEPT ![c] = AfterHit(c)]
  /\ UNCHANGED <<minute, rule, edit, reading, lastHeld, said, overlapped, edits>>

\* ... or it is not, and the rule is read again.
StartRead(c) ==
  /\ reading[c] = NoRead /\ ~Fresh(c)
  /\ reading' = [reading EXCEPT ![c].since = minute]
  /\ UNCHANGED <<minute, rule, edit, entry, lastHeld, said, overlapped, edits>>

\* DynamoDB answers.
ItemRead(c) ==
  /\ reading[c] # NoRead /\ ~reading[c].read
  /\ reading' = [reading EXCEPT ![c].read = TRUE, ![c].value = ViewOf(rule)]
  /\ UNCHANGED <<minute, rule, edit, entry, lastHeld, said, overlapped, edits>>

\* The answer arrives, and is cached from now on: also that there is no rule.
PlanFromRead(c) ==
  /\ reading[c].read
  /\ entry' = [entry EXCEPT ![c] = [readAt |-> minute, value |-> reading[c].value]]
  /\ reading' = [reading EXCEPT ![c] = NoRead]
  /\ UNCHANGED <<minute, rule, edit, lastHeld, said, overlapped, edits>>

\* The read fails or the container is frozen too long: the change is delivered again.
ReadFails(c) ==
  /\ reading[c] # NoRead
  /\ reading' = [reading EXCEPT ![c] = NoRead]
  /\ UNCHANGED <<minute, rule, edit, entry, lastHeld, said, overlapped, edits>>

NewContainer(c) ==
  /\ entry[c] # NoEntry
  /\ entry' = [entry EXCEPT ![c] = NoEntry]
  /\ reading' = [reading EXCEPT ![c] = NoRead]
  /\ UNCHANGED <<minute, rule, edit, lastHeld, said, overlapped, edits>>

\* What the rule is now it still was a moment ago.
RulesTick ==
  /\ minute < MaxClock
  /\ \A c \in Caches : reading[c] # NoRead => minute - reading[c].since < MaxLoad
  /\ minute' = minute + 1
  /\ lastHeld' = [lastHeld EXCEPT ![ViewOf(rule)] = minute + 1]
  /\ UNCHANGED <<rule, edit, entry, reading, said, overlapped, edits>>

RulesNext ==
  \/ RulesTick \/ DeleteRule
  \/ \E b \in Bodies \cup Invalid : CreateRule(b)
  \/ \E e \in Editors :
       \/ \E b \in Bodies \cup Invalid, a \in Flags : ReadForPatch(e, b, a)
       \/ PutPatched(e) \/ PatchDies(e)
  \/ \E c \in Caches : PlanFromCache(c) \/ StartRead(c) \/ ItemRead(c) \/ PlanFromRead(c)
                       \/ ReadFails(c) \/ NewContainer(c)

RulesSpec == RulesInit /\ [][RulesNext]_rulesVars

(***************************************************************************)
(* Properties                                                              *)
(***************************************************************************)
RulesTypeOK ==
  /\ minute \in 0..MaxClock
  /\ rule \in StoredRules \cup {Nought}
  /\ edit \in [Editors -> [body : Bodies, active : Flags, found : BOOLEAN] \cup {NoEdit}]
  /\ entry \in [Caches -> [readAt : 0..MaxClock, value : Views] \cup {NoEntry}]
  /\ reading \in [Caches -> [since : 0..MaxClock, read : BOOLEAN, value : Views] \cup {NoRead}]
  /\ lastHeld \in [Views -> 0..MaxClock \cup {Nought}]
  /\ said \in Flags /\ overlapped \in BOOLEAN /\ edits \in 0..MaxEdits

\* As long as no two edits overlap, a rule is there and active exactly as the
\* last edit that spoke of it said (rules.ts:166-190).
LastWordStands ==
  ~overlapped => said = (IF rule = Nought THEN Nought ELSE rule.active)

\* A delivery is planned with a body that the rule had a minute ago at most, and
\* a read longer (lookup.ts:25-27, "an edit takes effect while someone's watching").
PlansAreRecent ==
  \A c \in Caches :
    /\ Fresh(c) => minute - lastHeld[entry[c].value] <= TTL + MaxLoad
    /\ reading[c].read => minute - lastHeld[reading[c].value] <= MaxLoad

\* An edit takes effect: on the rule at once, and on what is planned soon after.
EditsTakeEffect == LastWordStands /\ PlansAreRecent
=============================================================================
