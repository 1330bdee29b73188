------------------------------ MODULE AuthFailures -------------------------------
(***************************************************************************)
(* The table of recent authentication failures that the admission          *)
(* controllers share (admission.rs): failures of one client within a       *)
(* window add up to a block of a fixed length, and the table is swept and  *)
(* cut when it grows.  A table maps a client to its failures, oldest       *)
(* first, and the end of its block, 0 when there is none.                  *)
(*                                                                         *)
(* Definitions whose comment says "faulty" are variants that no action     *)
(* uses (README).                                                          *)
(***************************************************************************)
EXTENDS Naturals, Sequences, FiniteSets, Functions, SequencesExt

CONSTANTS
  Clients,       \* addresses, as numbers
  FailWindow,    \* auth_fail_window_secs
  MaxAttempts,   \* auth_fail_max_attempts
  BlockTime,     \* auth_block_secs
  SoftLimit,     \* entries above which a failure sweeps the table
  HardLimit      \* entries kept at most

ASSUME FailuresAssumption ==
  /\ Clients \subseteq Nat \ {0}
  /\ {FailWindow, MaxAttempts, BlockTime, SoftLimit, HardLimit} \subseteq Nat \ {0}
  /\ SoftLimit <= HardLimit

NoFailures == [recent |-> <<>>, until |-> 0]
EmptyTable == [c \in {} |-> NoFailures]
IsTable(table) ==
  /\ DOMAIN table \subseteq Clients /\ Cardinality(DOMAIN table) <= HardLimit
  /\ \A c \in DOMAIN table :
       /\ table[c].recent \in Seq(Nat) /\ Len(table[c].recent) < MaxAttempts
       /\ table[c].until \in Nat

Entry(table, c) == IF c \in DOMAIN table THEN table[c] ELSE NoFailures

\* prune_auth_failure_state: failures leave at the front while they are too old.
Prune(entry, now) ==
  LET old == {n \in 0..Len(entry.recent) :
                \A i \in 1..n : now - entry.recent[i] > FailWindow}
  IN [recent |-> SubSeq(entry.recent, Max(old) + 1, Len(entry.recent)),
      until |-> IF entry.until <= now THEN 0 ELSE entry.until]

With(table, c, entry) ==
  [d \in {c} \cup DOMAIN table |-> IF d = c THEN entry ELSE table[d]]

BlockedAt(table, c, now) == Entry(table, c).until > now

\* try_acquire and check prune the entry of the client, and drop it when it is empty.
Checked(table, c, now) ==
  LET entry == Prune(Entry(table, c), now)
      others == Restrict(table, DOMAIN table \ {c})
  IN IF entry = NoFailures THEN others ELSE With(others, c, entry)

Cleared(table, c) == Restrict(table, DOMAIN table \ {c})

Swept(table, now) ==
  LET pruned == [c \in DOMAIN table |-> Prune(table[c], now)]
  IN Restrict(pruned, {c \in DOMAIN table : pruned[c] # NoFailures})

\* auth_failure_activity_key: a block counts by its end, failures by the last.
ActivityKey(entry) == IF entry.until # 0 THEN entry.until
                      ELSE IF entry.recent = <<>> THEN 0 ELSE Last(entry.recent)

\* Faulty: the most recent entries go first.
CappedAtNewest(table) ==
  LET after(c, d) ==
        \/ ActivityKey(table[c]) > ActivityKey(table[d])
        \/ ActivityKey(table[c]) = ActivityKey(table[d]) /\ c > d
      kept == {c \in DOMAIN table :
                 Cardinality({d \in DOMAIN table : after(c, d)}) < HardLimit}
  IN Restrict(table, kept)

\* enforce_auth_failure_hard_cap keeps the entries with the greatest activity key.
Capped(table) ==
  LET before(c, d) ==
        \/ ActivityKey(table[c]) < ActivityKey(table[d])
        \/ ActivityKey(table[c]) = ActivityKey(table[d]) /\ c < d
      kept == {c \in DOMAIN table :
                 Cardinality({d \in DOMAIN table : before(c, d)}) < HardLimit}
  IN Restrict(table, kept)

\* record_auth_failure: count, block when the budget is used up, trim.
WithFailure(table, c, now) ==
  LET pruned == Prune(Entry(table, c), now)
      recent == Append(pruned.recent, now)
      entry == IF Len(recent) >= MaxAttempts THEN [recent |-> <<>>, until |-> now + BlockTime]
               ELSE [pruned EXCEPT !.recent = recent]
      grown == With(table, c, entry)
  IN Capped(IF Cardinality(DOMAIN grown) > SoftLimit THEN Swept(grown, now) ELSE grown)

--------------------------------------------------------------------------------
\* What blocks of a table promise: a client that is blocked stays so unless its entry
\* is cleared, or the table is full of entries that last at least as long.
BlockKept(before, after, c, now, cleared) ==
  BlockedAt(before, c, now) /\ ~BlockedAt(after, c, now) =>
    \/ cleared
    \/ /\ Cardinality(DOMAIN after) = HardLimit
       /\ \A d \in DOMAIN after : after[d].until >= before[c].until
================================================================================
