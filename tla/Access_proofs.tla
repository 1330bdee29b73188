------------------------------- MODULE Access_proofs -----------------------------
(***************************************************************************)
(* Proofs about who gets in, for any sets of clients, sockets, requests,   *)
(* tabs and editors and every limit: the table of failures by which        *)
(* connections and requests of installation are admitted, and the settings *)
(* and the login of the panel.                                             *)
(***************************************************************************)
EXTENDS MCServices, Counting_proofs, SequenceTheorems

(***************************************************************************)
(* The table of failures.                                                  *)
(***************************************************************************)

LEMMA FailuresBounds ==
  /\ FailWindow \in Nat /\ FailWindow > 0 /\ MaxAttempts \in Nat /\ MaxAttempts > 0
  /\ BlockTime \in Nat /\ BlockTime > 0 /\ HardLimit \in Nat /\ HardLimit > 0
  /\ SoftLimit \in Nat /\ Clients \subseteq Nat \ {0}
BY FailuresAssumption

LEMMA LeastNat ==
  ASSUME NEW S \in SUBSET Nat, S # {}
  PROVE  \E m \in S : \A k \in S : m <= k
<1>1. PICK m \in S : \A k \in S : ~(<<k, m>> \in OpToRel(<, Nat))
  BY NatLessThanWellFounded, WFMin
<1>2. \A k \in S : ~(k < m)
  BY <1>1 DEF OpToRel
<1> QED BY <1>2

LEMMA MaxExists ==
  ASSUME NEW n \in Nat, NEW S \in SUBSET (0..n), S # {}
  PROVE  Max(S) \in S /\ \A k \in S : k <= Max(S)
<1> DEFINE left == {n - k : k \in S}
<1>1. left \in SUBSET Nat /\ left # {}
  <2>1. \A k \in S : n - k \in Nat
    OBVIOUS
  <2> QED BY <2>1
<1>2. PICK m \in left : \A k \in left : m <= k
  <2> HIDE DEF left
  <2> QED BY <1>1, LeastNat
<1>3. PICK x \in S : m = n - x
  BY <1>2
<1>4. \A y \in S : x >= y
  <2> SUFFICES ASSUME NEW y \in S PROVE x >= y
    OBVIOUS
  <2>1. n - x <= n - y
    BY <1>2, <1>3
  <2> QED BY <2>1
<1>5. Max(S) \in S /\ \A y \in S : Max(S) >= y
  BY <1>4 DEF Max
<1> QED BY <1>5

\* An entry of the table: its failures are over, and no block lasts longer than the block
\* that begins now.
EntryRecords == [recent : Seq(Nat), until : Nat]
IsEntry(entry, now) ==
  /\ entry \in EntryRecords
  /\ \A i \in 1..Len(entry.recent) : entry.recent[i] <= now
  /\ Len(entry.recent) < MaxAttempts
  /\ entry.until <= now + BlockTime

GoodTable(table, now) ==
  /\ DOMAIN table \subseteq Clients /\ IsFiniteSet(DOMAIN table)
  /\ \A c \in DOMAIN table : IsEntry(table[c], now)
FitsTable(table, now) == GoodTable(table, now) /\ Cardinality(DOMAIN table) <= HardLimit

LEMMA NoFailuresIs == \A now \in Nat : IsEntry(NoFailures, now)
<1>1. <<>> \in Seq(Nat) /\ Len(<<>>) = 0
  OBVIOUS
<1>2. NoFailures.recent = <<>> /\ NoFailures.until = 0 /\ NoFailures \in EntryRecords
  BY <1>1 DEF NoFailures, EntryRecords
<1> QED BY <1>1, <1>2, FailuresBounds DEF IsEntry

LEMMA EntryIs ==
  ASSUME NEW now \in Nat, NEW table, GoodTable(table, now), NEW c
  PROVE  IsEntry(Entry(table, c), now)
BY NoFailuresIs DEF GoodTable, Entry

LEMMA EntryLater ==
  ASSUME NEW now \in Nat, NEW later \in Nat, now <= later, NEW entry, IsEntry(entry, now)
  PROVE  IsEntry(entry, later)
<1>1. /\ entry \in EntryRecords /\ Len(entry.recent) < MaxAttempts
      /\ \A i \in 1..Len(entry.recent) : entry.recent[i] <= now /\ entry.recent[i] \in Nat
      /\ entry.until <= now + BlockTime /\ entry.until \in Nat
  BY DEF IsEntry, EntryRecords
<1>2. \A i \in 1..Len(entry.recent) : entry.recent[i] <= later
  BY <1>1
<1>3. entry.until <= later + BlockTime
  BY <1>1, FailuresBounds
<1> QED BY <1>1, <1>2, <1>3 DEF IsEntry

LEMMA FitsLater ==
  ASSUME NEW now \in Nat, NEW later \in Nat, now <= later, NEW table, FitsTable(table, now)
  PROVE  FitsTable(table, later)
BY EntryLater DEF FitsTable, GoodTable

LEMMA FitsIsTable ==
  ASSUME NEW now \in Nat, NEW table, FitsTable(table, now)
  PROVE  IsTable(table)
BY DEF FitsTable, GoodTable, IsEntry, EntryRecords, IsTable

LEMMA PruneIs ==
  ASSUME NEW now \in Nat, NEW entry, IsEntry(entry, now)
  PROVE  /\ IsEntry(Prune(entry, now), now)
         /\ Prune(entry, now).until = IF entry.until <= now THEN 0 ELSE entry.until
<1> DEFINE s == entry.recent
           n == Len(s)
           old == {k \in 0..n : \A i \in 1..k : now - s[i] > FailWindow}
           m == Max(old)
           rest == SubSeq(s, m + 1, n)
           p == Prune(entry, now)
<1>1. /\ s \in Seq(Nat) /\ n \in Nat /\ n < MaxAttempts /\ entry.until \in Nat
      /\ \A i \in 1..n : s[i] \in Nat /\ s[i] <= now
      /\ entry.until <= now + BlockTime
  BY DEF IsEntry, EntryRecords
<1>2. p = [recent |-> rest, until |-> IF entry.until <= now THEN 0 ELSE entry.until]
  BY DEF Prune
<1>3. m \in 0..n
  <2>1. old \in SUBSET (0..n) /\ 0 \in old
    BY <1>1
  <2> HIDE DEF old
  <2> QED BY <1>1, <2>1, MaxExists
<1> HIDE DEF m, n, s
<1> DEFINE Past1 == {t \in Nat : t <= now}
<1>4. /\ rest \in Seq(Past1) /\ Len(rest) <= n /\ Len(rest) \in Nat
  <2>1. m + 1 \in Int /\ n \in Int /\ \A i \in m + 1..n : s[i] \in Past1
    BY <1>1, <1>3
  <2> HIDE DEF Past1
  <2>2. rest \in Seq(Past1) /\ Len(rest) = IF m + 1 <= n THEN n - (m + 1) + 1 ELSE 0
    BY <2>1, SubSeqProperties
  <2> QED BY <1>1, <1>3, <2>2
<1> HIDE DEF rest
<1>5. rest \in Seq(Nat) /\ \A i \in 1..Len(rest) : rest[i] <= now
  <2>1. \A i \in 1..Len(rest) : rest[i] \in Past1
    BY <1>4
  <2>2. Past1 \subseteq Nat
    OBVIOUS
  <2> HIDE DEF Past1
  <2>3. rest \in Seq(Nat)
    <3>1. \A i \in 1..Len(rest) : rest[i] \in Nat
      BY <2>1, <2>2
    <3>2. rest = [i \in 1..Len(rest) |-> rest[i]]
      BY <1>4
    <3> QED BY <1>4, <3>1, <3>2, SeqDef
  <2> QED BY <2>1, <2>3 DEF Past1
<1>6. Len(rest) < MaxAttempts
  BY <1>1, <1>4, FailuresBounds
<1>7. p.recent = rest /\ p.until = (IF entry.until <= now THEN 0 ELSE entry.until)
      /\ p.until \in Nat /\ p.until <= now + BlockTime /\ p \in EntryRecords
  <2>1. p.recent = rest /\ p.until = IF entry.until <= now THEN 0 ELSE entry.until
    BY <1>2
  <2>2. p.until \in Nat /\ p.until <= now + BlockTime
    BY <1>1, <2>1, FailuresBounds
  <2>3. p \in EntryRecords
    BY <1>2, <1>5, <2>1, <2>2 DEF EntryRecords
  <2> QED BY <2>1, <2>2, <2>3
<1> HIDE DEF p
<1>8. IsEntry(p, now)
  BY <1>5, <1>6, <1>7 DEF IsEntry
<1> QED BY <1>7, <1>8 DEF p

LEMMA PruneNothing == \A now \in Nat : Prune(NoFailures, now) = NoFailures
<1> SUFFICES ASSUME NEW now \in Nat PROVE Prune(NoFailures, now) = NoFailures
  OBVIOUS
<1> DEFINE old == {n \in 0..0 : \A i \in 1..n : now - <<>>[i] > FailWindow}
<1>1. NoFailures.recent = <<>> /\ NoFailures.until = 0 /\ Len(<<>>) = 0
  BY DEF NoFailures
<1>2. old \in SUBSET (0..0) /\ 0 \in old
  OBVIOUS
<1>3. Max(old) = 0
  <2> HIDE DEF old
  <2>1. Max(old) \in 0..0
    BY <1>2, MaxExists
  <2> QED BY <2>1
<1>4. Prune(NoFailures, now).recent = SubSeq(<<>>, Max(old) + 1, 0)
  BY <1>1 DEF Prune
<1>5. Prune(NoFailures, now).recent = <<>>
  <2> HIDE DEF old
  <2> QED BY <1>3, <1>4
<1>6. Prune(NoFailures, now) = [recent |-> <<>>, until |-> 0]
  BY <1>1, <1>5 DEF Prune
<1> QED BY <1>6 DEF NoFailures

LEMMA RestrictIs ==
  ASSUME NEW f, NEW S
  PROVE  DOMAIN Restrict(f, S) = S /\ \A x \in S : Restrict(f, S)[x] = f[x]
BY DEF Restrict

\* No block that table holds is shorter or gone in other.
KeepsBlocks(table, other, c, now) ==
  BlockedAt(table, c, now) => c \in DOMAIN other /\ other[c].until >= table[c].until

LEMMA BlockedIs ==
  ASSUME NEW now \in Nat, NEW table, GoodTable(table, now), NEW c, BlockedAt(table, c, now)
  PROVE  c \in DOMAIN table /\ table[c].until > now /\ table[c].until \in Nat
<1>1. Entry(table, c).until > now
  BY DEF BlockedAt
<1>2. c \in DOMAIN table
  <2>1. NoFailures.until = 0
    BY DEF NoFailures
  <2> QED BY <1>1, <2>1 DEF Entry
<1> QED BY <1>1, <1>2 DEF Entry, GoodTable, IsEntry, EntryRecords

LEMMA CheckedIs ==
  ASSUME NEW now \in Nat, NEW table, FitsTable(table, now), NEW c \in Clients
  PROVE  /\ FitsTable(Checked(table, c, now), now)
         /\ \A d : KeepsBlocks(table, Checked(table, c, now), d, now)
<1> DEFINE entry == Prune(Entry(table, c), now)
           others == Restrict(table, DOMAIN table \ {c})
           after == Checked(table, c, now)
<1>1. GoodTable(table, now) /\ Cardinality(DOMAIN table) <= HardLimit /\ IsFiniteSet(DOMAIN table)
  BY DEF FitsTable, GoodTable
<1>2. /\ IsEntry(entry, now)
      /\ entry.until = IF Entry(table, c).until <= now THEN 0 ELSE Entry(table, c).until
  BY <1>1, EntryIs, PruneIs
<1>3. after = IF entry = NoFailures THEN others ELSE With(others, c, entry)
  BY DEF Checked
<1>4. DOMAIN others = DOMAIN table \ {c} /\ \A d \in DOMAIN others : others[d] = table[d]
  BY RestrictIs
<1> HIDE DEF entry, others, after
<1>5. CASE entry = NoFailures
  <2>1. DOMAIN after \subseteq DOMAIN table /\ \A d \in DOMAIN after : after[d] = table[d]
    BY <1>3, <1>4, <1>5
  <2>2. FitsTable(after, now)
    <3>1. IsFiniteSet(DOMAIN after) /\ Cardinality(DOMAIN after) <= Cardinality(DOMAIN table)
          /\ Cardinality(DOMAIN after) \in Nat /\ Cardinality(DOMAIN table) \in Nat
      BY <1>1, <2>1, FS_Subset, FS_CardinalityType
    <3>2. Cardinality(DOMAIN after) <= HardLimit
      BY <1>1, <3>1, FailuresBounds
    <3> QED BY <1>1, <2>1, <3>1, <3>2 DEF FitsTable, GoodTable
  <2>3. ASSUME NEW d, BlockedAt(table, d, now) PROVE d \in DOMAIN after /\ after[d].until >= table[d].until
    <3>1. d \in DOMAIN table /\ table[d].until > now /\ table[d].until \in Nat
      BY <1>1, <2>3, BlockedIs
    <3>2. d # c
      <4>1. ASSUME d = c PROVE FALSE
        <5>1. Entry(table, c) = table[c]
          BY <3>1, <4>1 DEF Entry
        <5>2. entry.until = table[c].until /\ NoFailures.until = 0
          BY <1>2, <3>1, <4>1, <5>1 DEF NoFailures
        <5> QED BY <1>5, <3>1, <4>1, <5>2
      <4> QED BY <4>1
    <3> QED BY <1>3, <1>4, <1>5, <3>1, <3>2
  <2> QED BY <2>2, <2>3 DEF KeepsBlocks, after
<1>6. CASE entry # NoFailures
  <2>1. DOMAIN after = DOMAIN others \cup {c} /\ after[c] = entry
        /\ \A d \in DOMAIN others : after[d] = table[d]
    <3>1. after = With(others, c, entry)
      BY <1>3, <1>6
    <3>2. \A d \in DOMAIN others : d # c
      BY <1>4
    <3>3. DOMAIN after = DOMAIN others \cup {c} /\ after[c] = entry
      BY <3>1 DEF With
    <3>4. \A d \in DOMAIN others : d # c => after[d] = others[d]
      BY <3>1 DEF With
    <3> QED BY <1>4, <3>2, <3>3, <3>4
  <2>2. c \in DOMAIN table
    <3> SUFFICES ASSUME c \notin DOMAIN table PROVE entry = NoFailures
      BY <1>6
    <3>1. Entry(table, c) = NoFailures
      BY DEF Entry
    <3>2. entry = Prune(NoFailures, now)
      BY <3>1 DEF entry
    <3> QED BY <3>2, PruneNothing
  <2>3. DOMAIN after = DOMAIN table /\ \A d \in DOMAIN table : d # c => after[d] = table[d]
    BY <1>4, <2>1, <2>2
  <2>4. FitsTable(after, now)
    BY <1>1, <1>2, <2>1, <2>3 DEF FitsTable, GoodTable
  <2>5. ASSUME NEW d, BlockedAt(table, d, now) PROVE d \in DOMAIN after /\ after[d].until >= table[d].until
    <3>1. d \in DOMAIN table /\ table[d].until > now /\ table[d].until \in Nat
      BY <1>1, <2>5, BlockedIs
    <3>2. CASE d = c
      <4>1. Entry(table, c) = table[c]
        BY <3>1, <3>2 DEF Entry
      <4>2. entry.until = table[c].until
        BY <1>2, <3>1, <3>2, <4>1
      <4> QED BY <2>1, <2>3, <3>1, <3>2, <4>2
    <3>3. CASE d # c
      BY <2>3, <3>1, <3>3
    <3> QED BY <3>2, <3>3
  <2> QED BY <2>4, <2>5 DEF KeepsBlocks, after
<1> QED BY <1>5, <1>6

LEMMA ClearedIs ==
  ASSUME NEW now \in Nat, NEW table, FitsTable(table, now), NEW c
  PROVE  /\ FitsTable(Cleared(table, c), now)
         /\ \A d : d # c => KeepsBlocks(table, Cleared(table, c), d, now)
<1> DEFINE after == Cleared(table, c)
<1>1. GoodTable(table, now) /\ Cardinality(DOMAIN table) <= HardLimit /\ IsFiniteSet(DOMAIN table)
  BY DEF FitsTable, GoodTable
<1>2. DOMAIN after = DOMAIN table \ {c} /\ \A d \in DOMAIN after : after[d] = table[d]
  BY RestrictIs DEF Cleared
<1> HIDE DEF after
<1>3. IsFiniteSet(DOMAIN after) /\ Cardinality(DOMAIN after) <= Cardinality(DOMAIN table)
      /\ Cardinality(DOMAIN after) \in Nat /\ Cardinality(DOMAIN table) \in Nat
  BY <1>1, <1>2, FS_Subset, FS_CardinalityType
<1>4. Cardinality(DOMAIN after) <= HardLimit
  BY <1>1, <1>3, FailuresBounds
<1>5. FitsTable(after, now)
  BY <1>1, <1>2, <1>3, <1>4 DEF FitsTable, GoodTable
<1>6. ASSUME NEW d, d # c, BlockedAt(table, d, now)
      PROVE  d \in DOMAIN after /\ after[d].until >= table[d].until
  <2>1. d \in DOMAIN table /\ table[d].until \in Nat
    BY <1>1, <1>6, BlockedIs
  <2> QED BY <1>2, <1>6, <2>1
<1> QED BY <1>5, <1>6 DEF KeepsBlocks, after

LEMMA SweptIs ==
  ASSUME NEW now \in Nat, NEW table, GoodTable(table, now)
  PROVE  /\ GoodTable(Swept(table, now), now)
         /\ DOMAIN Swept(table, now) \subseteq DOMAIN table
         /\ \A d : KeepsBlocks(table, Swept(table, now), d, now)
<1> DEFINE pruned == [c \in DOMAIN table |-> Prune(table[c], now)]
           left == {c \in DOMAIN table : pruned[c] # NoFailures}
           after == Swept(table, now)
<1>1. DOMAIN after = left /\ \A d \in left : after[d] = Prune(table[d], now)
  <2>1. after = Restrict(pruned, left)
    BY DEF Swept
  <2>2. left \subseteq DOMAIN table /\ \A d \in DOMAIN table : pruned[d] = Prune(table[d], now)
    OBVIOUS
  <2> HIDE DEF pruned, left, after
  <2> QED BY <2>1, <2>2, RestrictIs
<1>2. left \subseteq DOMAIN table
  OBVIOUS
<1>3. \A d \in DOMAIN table : /\ IsEntry(Prune(table[d], now), now)
                              /\ Prune(table[d], now).until =
                                   IF table[d].until <= now THEN 0 ELSE table[d].until
  BY PruneIs DEF GoodTable
<1>4. \A d \in DOMAIN table : d \in left <=> Prune(table[d], now) # NoFailures
  OBVIOUS
<1> HIDE DEF pruned, left, after
<1>5. GoodTable(after, now)
  <2>1. IsFiniteSet(DOMAIN after)
    BY <1>1, <1>2, FS_Subset DEF GoodTable
  <2>2. \A d \in DOMAIN after : IsEntry(after[d], now)
    BY <1>1, <1>2, <1>3
  <2> QED BY <1>1, <1>2, <2>1, <2>2 DEF GoodTable
<1>6. ASSUME NEW d, BlockedAt(table, d, now) PROVE d \in DOMAIN after /\ after[d].until >= table[d].until
  <2>1. d \in DOMAIN table /\ table[d].until > now /\ table[d].until \in Nat
    BY <1>6, BlockedIs
  <2>2. Prune(table[d], now).until = table[d].until
    BY <1>3, <2>1
  <2>3. NoFailures.until = 0
    BY DEF NoFailures
  <2>4. d \in left
    BY <1>4, <2>1, <2>2, <2>3
  <2> QED BY <1>1, <2>1, <2>2, <2>4
<1> QED BY <1>1, <1>2, <1>5, <1>6 DEF KeepsBlocks, after

\* Of a set with one element too many, the first one in a linear order is dropped.
Precedes(key, c, d) == key[c] < key[d] \/ (key[c] = key[d] /\ c < d)
TopOf(D, key, n) == {c \in D : Cardinality({d \in D : Precedes(key, c, d)}) < n}

LEMMA FirstExists ==
  ASSUME NEW D \in SUBSET Nat, D # {}, NEW key \in [D -> Nat]
  PROVE  \E m \in D : \A d \in D \ {m} : Precedes(key, m, d) /\ ~Precedes(key, d, m)
<1> DEFINE keys == {key[d] : d \in D}
<1>1. PICK k \in keys : \A j \in keys : k <= j
  <2>1. keys \in SUBSET Nat /\ keys # {}
    OBVIOUS
  <2> HIDE DEF keys
  <2> QED BY <2>1, LeastNat
<1> DEFINE ties == {d \in D : key[d] = k}
<1>2. PICK m \in ties : \A j \in ties : m <= j
  <2>1. ties \in SUBSET Nat /\ ties # {}
    BY <1>1
  <2> HIDE DEF ties
  <2> QED BY <2>1, LeastNat
<1>3. ASSUME NEW d \in D \ {m} PROVE Precedes(key, m, d) /\ ~Precedes(key, d, m)
  <2>1. key[m] <= key[d] /\ key[m] \in Nat /\ key[d] \in Nat /\ m \in Nat /\ d \in Nat /\ m # d
    BY <1>1, <1>2, <1>3
  <2>2. key[m] = key[d] => m <= d
    BY <1>2, <1>3
  <2> QED BY <2>1, <2>2 DEF Precedes
<1> QED BY <1>2, <1>3

LEMMA TopIs ==
  ASSUME NEW D \in SUBSET Nat, IsFiniteSet(D), NEW key \in [D -> Nat], NEW n \in Nat,
         Cardinality(D) <= n + 1
  PROVE  \/ Cardinality(D) <= n /\ TopOf(D, key, n) = D
         \/ \E m \in D : /\ Cardinality(D) = n + 1 /\ TopOf(D, key, n) = D \ {m}
                         /\ \A d \in D \ {m} : key[m] <= key[d]
<1> DEFINE above(c) == {d \in D : Precedes(key, c, d)}
<1>1. \A c \in D : ~Precedes(key, c, c)
  BY DEF Precedes
<1>2. ASSUME NEW c \in D PROVE /\ IsFiniteSet(above(c)) /\ Cardinality(above(c)) \in Nat
                               /\ Cardinality(above(c)) <= Cardinality(D) - 1
  <2>1. above(c) \subseteq D \ {c} /\ IsFiniteSet(D \ {c})
    BY <1>1, FS_Subset
  <2>2. Cardinality(D \ {c}) = Cardinality(D) - 1 /\ Cardinality(D) \in Nat
    BY FS_RemoveElement, FS_CardinalityType
  <2> HIDE DEF above
  <2> QED BY <2>1, <2>2, FS_Subset, FS_CardinalityType
<1>3. TopOf(D, key, n) = {c \in D : Cardinality(above(c)) < n}
  BY DEF TopOf
<1>4. Cardinality(D) \in Nat
  BY FS_CardinalityType
<1>5. CASE Cardinality(D) <= n
  <2>1. \A c \in D : Cardinality(above(c)) < n
    BY <1>2, <1>4, <1>5
  <2> HIDE DEF above
  <2> QED BY <1>3, <1>5, <2>1
<1>6. CASE Cardinality(D) = n + 1
  <2>1. D # {}
    BY <1>6, FS_EmptySet
  <2>2. PICK m \in D : \A d \in D \ {m} : Precedes(key, m, d) /\ ~Precedes(key, d, m)
    BY <2>1, FirstExists
  <2>3. ~(Cardinality(above(m)) < n)
    <3>1. above(m) = D \ {m}
      BY <1>1, <2>2
    <3>2. Cardinality(D \ {m}) = n
      BY <1>4, <1>6, FS_RemoveElement
    <3> HIDE DEF above
    <3> QED BY <3>1, <3>2
  <2>4. ASSUME NEW c \in D \ {m} PROVE Cardinality(above(c)) < n
    <3>1. above(c) \subseteq (D \ {m}) \ {c}
      BY <1>1, <2>2
    <3>2. Cardinality(D \ {m}) = n /\ IsFiniteSet(D \ {m})
      <4>1. IsFiniteSet(D \ {m}) /\ Cardinality(D \ {m}) = Cardinality(D) - 1
        BY FS_RemoveElement
      <4> QED BY <1>4, <1>6, <4>1
    <3>3. Cardinality((D \ {m}) \ {c}) = n - 1 /\ IsFiniteSet((D \ {m}) \ {c})
      BY <3>2, FS_RemoveElement
    <3> HIDE DEF above
    <3>4. Cardinality(above(c)) <= n - 1 /\ Cardinality(above(c)) \in Nat
      BY <1>2, <3>1, <3>3, FS_Subset
    <3> QED BY <3>4
  <2>5. TopOf(D, key, n) = D \ {m}
    <3> HIDE DEF above
    <3> QED BY <1>3, <2>3, <2>4
  <2>6. \A d \in D \ {m} : key[m] <= key[d]
    BY <2>2 DEF Precedes
  <2> QED BY <1>6, <2>5, <2>6
<1> QED BY <1>4, <1>5, <1>6

LEMMA KeysAre ==
  ASSUME NEW now \in Nat, NEW entry, IsEntry(entry, now)
  PROVE  /\ ActivityKey(entry) \in Nat
         /\ entry.until # 0 => ActivityKey(entry) = entry.until
         /\ entry.until = 0 => ActivityKey(entry) <= now
<1>1. /\ entry.recent \in Seq(Nat) /\ entry.until \in Nat
      /\ \A i \in 1..Len(entry.recent) : entry.recent[i] <= now
  BY DEF IsEntry, EntryRecords
<1>2. CASE entry.until # 0
  BY <1>1, <1>2 DEF ActivityKey
<1>3. CASE entry.until = 0 /\ entry.recent = <<>>
  BY <1>1, <1>3 DEF ActivityKey
<1>4. CASE entry.until = 0 /\ entry.recent # <<>>
  <2>1. Len(entry.recent) \in 1..Len(entry.recent)
    BY <1>1, <1>4
  <2>2. ActivityKey(entry) = entry.recent[Len(entry.recent)]
    BY <1>4 DEF ActivityKey, Last
  <2> QED BY <1>1, <1>4, <2>1, <2>2
<1> QED BY <1>2, <1>3, <1>4

LEMMA CappedIs ==
  ASSUME NEW now \in Nat, NEW table, GoodTable(table, now),
         Cardinality(DOMAIN table) <= HardLimit + 1
  PROVE  /\ FitsTable(Capped(table), now)
         /\ \A c \in DOMAIN Capped(table) : c \in DOMAIN table /\ Capped(table)[c] = table[c]
         /\ \A c \in DOMAIN table \ DOMAIN Capped(table) :
              /\ Cardinality(DOMAIN Capped(table)) = HardLimit
              /\ \A d \in DOMAIN Capped(table) : ActivityKey(table[c]) <= ActivityKey(table[d])
<1> DEFINE D == DOMAIN table
           key == [c \in D |-> ActivityKey(table[c])]
           after == Capped(table)
<1>1. D \in SUBSET Nat /\ IsFiniteSet(D) /\ D \subseteq Clients /\ \A c \in D : IsEntry(table[c], now)
  BY FailuresBounds DEF GoodTable
<1>2. key \in [D -> Nat]
  BY <1>1, KeysAre
<1>3. DOMAIN after = TopOf(D, key, HardLimit) /\ \A c \in DOMAIN after : after[c] = table[c]
  <2>1. TopOf(D, key, HardLimit) =
          {c \in D : Cardinality({d \in D : \/ ActivityKey(table[c]) < ActivityKey(table[d])
                                            \/ /\ ActivityKey(table[c]) = ActivityKey(table[d])
                                               /\ c < d}) < HardLimit}
    BY DEF TopOf, Precedes
  <2>2. after = Restrict(table, TopOf(D, key, HardLimit))
    BY <2>1 DEF Capped
  <2> HIDE DEF key, after
  <2> QED BY <2>2, RestrictIs
<1>4. \A c, d \in D : key[c] = ActivityKey(table[c]) /\ key[d] = ActivityKey(table[d])
  OBVIOUS
<1>5. HardLimit \in Nat /\ Cardinality(D) \in Nat
  BY <1>1, FailuresBounds, FS_CardinalityType
<1> HIDE DEF D, key, after
<1>6. Cardinality(D) <= HardLimit + 1
  BY DEF D
<1>7. \/ Cardinality(D) <= HardLimit /\ DOMAIN after = D
      \/ \E m \in D : /\ Cardinality(D) = HardLimit + 1 /\ DOMAIN after = D \ {m}
                      /\ \A d \in D \ {m} : key[m] <= key[d]
  BY <1>1, <1>2, <1>3, <1>5, <1>6, TopIs
<1>8. /\ DOMAIN after \subseteq D /\ Cardinality(DOMAIN after) <= HardLimit
      /\ \A c \in D \ DOMAIN after : /\ Cardinality(DOMAIN after) = HardLimit
                                     /\ \A d \in DOMAIN after : key[c] <= key[d]
  <2>1. CASE Cardinality(D) <= HardLimit /\ DOMAIN after = D
    BY <2>1
  <2>2. ASSUME NEW m \in D, Cardinality(D) = HardLimit + 1, DOMAIN after = D \ {m},
               \A d \in D \ {m} : key[m] <= key[d]
        PROVE  /\ DOMAIN after \subseteq D /\ Cardinality(DOMAIN after) <= HardLimit
               /\ \A c \in D \ DOMAIN after : /\ Cardinality(DOMAIN after) = HardLimit
                                              /\ \A d \in DOMAIN after : key[c] <= key[d]
    <3>1. Cardinality(DOMAIN after) = HardLimit
      <4>1. Cardinality(D \ {m}) = Cardinality(D) - 1
        BY <1>1, FS_RemoveElement
      <4> QED BY <1>5, <2>2, <4>1
    <3>2. \A c \in D \ DOMAIN after : c = m
      BY <2>2
    <3> QED BY <1>5, <2>2, <3>1, <3>2
  <2> QED BY <1>7, <2>1, <2>2
<1>9. FitsTable(after, now)
  <2>1. IsFiniteSet(DOMAIN after)
    BY <1>1, <1>8, FS_Subset
  <2>2. \A c \in DOMAIN after : IsEntry(after[c], now)
    BY <1>1, <1>3, <1>8
  <2> QED BY <1>1, <1>8, <2>1, <2>2 DEF FitsTable, GoodTable
<1>10. \A c \in D \ DOMAIN after : \A d \in DOMAIN after : ActivityKey(table[c]) <= ActivityKey(table[d])
  BY <1>4, <1>8
<1> QED BY <1>3, <1>8, <1>9, <1>10 DEF D, after

\* A failure may push out one entry, and then only one that ends before all the others.
LEMMA WithFailureIs ==
  ASSUME NEW now \in Nat, NEW table, FitsTable(table, now), NEW c \in Clients
  PROVE  /\ FitsTable(WithFailure(table, c, now), now)
         /\ \A d : \/ ~BlockedAt(table, d, now)
                   \/ KeepsBlocks(table, WithFailure(table, c, now), d, now)
                   \/ /\ Cardinality(DOMAIN WithFailure(table, c, now)) = HardLimit
                      /\ \A e \in DOMAIN WithFailure(table, c, now) :
                           WithFailure(table, c, now)[e].until >= table[d].until
<1> DEFINE old == Entry(table, c)
           pruned == Prune(old, now)
           longer == Append(pruned.recent, now)
           entry == IF Len(longer) >= MaxAttempts THEN [recent |-> <<>>, until |-> now + BlockTime]
                    ELSE [pruned EXCEPT !.recent = longer]
           grown == With(table, c, entry)
           trimmed == IF Cardinality(DOMAIN grown) > SoftLimit THEN Swept(grown, now) ELSE grown
           after == WithFailure(table, c, now)
<1>1. /\ GoodTable(table, now) /\ Cardinality(DOMAIN table) <= HardLimit
      /\ IsFiniteSet(DOMAIN table) /\ DOMAIN table \subseteq Clients
  BY DEF FitsTable, GoodTable
<1>2. IsEntry(old, now) /\ IsEntry(pruned, now)
      /\ pruned.until = IF old.until <= now THEN 0 ELSE old.until
  BY <1>1, EntryIs, PruneIs
<1>3. after = Capped(trimmed)
  BY Zenon DEF WithFailure
<1> HIDE DEF after
<1>4. IsEntry(entry, now) /\ (old.until > now => entry.until >= old.until)
  <2> HIDE DEF pruned, old
  <2>1. /\ pruned.recent \in Seq(Nat) /\ pruned.until \in Nat /\ old.until \in Nat
        /\ \A i \in 1..Len(pruned.recent) : pruned.recent[i] <= now
        /\ pruned.until <= now + BlockTime /\ old.until <= now + BlockTime
        /\ pruned \in EntryRecords
    BY <1>2 DEF IsEntry, EntryRecords
  <2>2. CASE Len(longer) >= MaxAttempts
    <3>1. entry = [recent |-> <<>>, until |-> now + BlockTime]
      BY <2>2
    <3>2. now + BlockTime \in Nat /\ <<>> \in Seq(Nat)
      BY FailuresBounds
    <3>3. entry.recent = <<>> /\ entry.until = now + BlockTime /\ entry \in EntryRecords
      BY <3>1, <3>2 DEF EntryRecords
    <3> HIDE DEF entry
    <3>4. Len(entry.recent) = 0 /\ Len(entry.recent) < MaxAttempts
      BY <3>3, FailuresBounds
    <3>5. entry.until <= now + BlockTime
      BY <3>2, <3>3
    <3>6. IsEntry(entry, now)
      BY <3>3, <3>4, <3>5 DEF IsEntry
    <3> QED BY <2>1, <3>3, <3>6
  <2>3. CASE ~(Len(longer) >= MaxAttempts)
    <3>1. entry = [pruned EXCEPT !.recent = longer]
      BY <2>3
    <3>2. longer \in Seq(Nat) /\ Len(longer) \in Nat /\ \A i \in 1..Len(longer) : longer[i] <= now
      BY <2>1
    <3>3. Len(longer) < MaxAttempts
      BY <2>3, <3>2, FailuresBounds
    <3> HIDE DEF longer
    <3>4. entry.recent = longer /\ entry.until = pruned.until /\ entry \in EntryRecords
      BY <2>1, <3>1, <3>2 DEF EntryRecords
    <3> HIDE DEF entry
    <3>5. IsEntry(entry, now)
      BY <2>1, <3>2, <3>3, <3>4 DEF IsEntry
    <3>6. old.until > now => entry.until >= old.until
      BY <1>2, <2>1, <3>4
    <3> QED BY <3>5, <3>6
  <2> QED BY <2>2, <2>3
<1> HIDE DEF entry
<1>5. /\ DOMAIN grown = DOMAIN table \cup {c} /\ grown[c] = entry
      /\ \A d \in DOMAIN table : d # c => grown[d] = table[d]
  BY DEF With
<1> HIDE DEF grown
<1>6. GoodTable(grown, now)
  <2>1. IsFiniteSet(DOMAIN grown)
    BY <1>1, <1>5, FS_AddElement
  <2>2. \A d \in DOMAIN grown : IsEntry(grown[d], now)
    BY <1>1, <1>4, <1>5 DEF GoodTable
  <2> QED BY <1>1, <1>5, <2>1, <2>2 DEF GoodTable
<1>7. Cardinality(DOMAIN grown) <= HardLimit + 1 /\ Cardinality(DOMAIN grown) \in Nat
  <2>1. Cardinality(DOMAIN table \cup {c}) <= Cardinality(DOMAIN table) + 1
    <3>1. Cardinality(DOMAIN table \cup {c}) =
            IF c \in DOMAIN table THEN Cardinality(DOMAIN table) ELSE Cardinality(DOMAIN table) + 1
      BY <1>1, FS_AddElement
    <3>2. Cardinality(DOMAIN table) \in Nat
      BY <1>1, FS_CardinalityType
    <3> QED BY <3>1, <3>2
  <2>2. Cardinality(DOMAIN grown) \in Nat /\ Cardinality(DOMAIN table) \in Nat
    BY <1>1, <1>6, FS_CardinalityType DEF GoodTable
  <2> QED BY <1>1, <1>5, <2>1, <2>2, FailuresBounds
<1>8. \A d : KeepsBlocks(table, grown, d, now)
  <2> SUFFICES ASSUME NEW d, BlockedAt(table, d, now)
               PROVE  d \in DOMAIN grown /\ grown[d].until >= table[d].until
    BY DEF KeepsBlocks
  <2>1. d \in DOMAIN table /\ table[d].until > now /\ table[d].until \in Nat
    BY <1>1, BlockedIs
  <2>2. CASE d = c
    <3>1. old = table[c]
      BY <2>1, <2>2 DEF Entry
    <3> QED BY <1>4, <1>5, <2>1, <2>2, <3>1
  <2>3. CASE d # c
    BY <1>5, <2>1, <2>3
  <2> QED BY <2>2, <2>3
<1>9. /\ GoodTable(trimmed, now) /\ DOMAIN trimmed \subseteq DOMAIN grown
      /\ \A d : KeepsBlocks(table, trimmed, d, now)
  <2>1. CASE Cardinality(DOMAIN grown) > SoftLimit
    <3>1. trimmed = Swept(grown, now)
      BY <2>1
    <3> HIDE DEF trimmed
    <3>2. GoodTable(trimmed, now) /\ DOMAIN trimmed \subseteq DOMAIN grown
          /\ \A d : KeepsBlocks(grown, trimmed, d, now)
      BY <1>6, <3>1, SweptIs
    <3>3. ASSUME NEW d, BlockedAt(table, d, now)
          PROVE  d \in DOMAIN trimmed /\ trimmed[d].until >= table[d].until
      <4>1. table[d].until > now /\ table[d].until \in Nat
        BY <1>1, <3>3, BlockedIs
      <4>2. d \in DOMAIN grown /\ grown[d].until >= table[d].until
        BY <1>8, <3>3 DEF KeepsBlocks
      <4>3. grown[d].until \in Nat
        BY <1>6, <4>2 DEF GoodTable, IsEntry, EntryRecords
      <4>4. grown[d].until > now
        BY <4>1, <4>2, <4>3
      <4>5. BlockedAt(grown, d, now)
        BY <4>2, <4>4 DEF BlockedAt, Entry
      <4>6. d \in DOMAIN trimmed /\ trimmed[d].until >= grown[d].until
        BY <3>2, <4>5 DEF KeepsBlocks
      <4>7. trimmed[d].until \in Nat
        BY <3>2, <4>6 DEF GoodTable, IsEntry, EntryRecords
      <4> QED BY <4>1, <4>2, <4>3, <4>6, <4>7
    <3> QED BY <3>2, <3>3 DEF KeepsBlocks
  <2>2. CASE ~(Cardinality(DOMAIN grown) > SoftLimit)
    <3>1. trimmed = grown
      BY <2>2
    <3> HIDE DEF trimmed
    <3> QED BY <1>6, <1>8, <3>1
  <2> QED BY <2>1, <2>2
<1> HIDE DEF trimmed
<1>10. Cardinality(DOMAIN trimmed) <= HardLimit + 1
  <2>1. Cardinality(DOMAIN trimmed) <= Cardinality(DOMAIN grown) /\ Cardinality(DOMAIN trimmed) \in Nat
    BY <1>6, <1>9, FS_Subset, FS_CardinalityType DEF GoodTable
  <2> QED BY <1>7, <2>1, FailuresBounds
<1>11. /\ FitsTable(after, now)
       /\ \A d \in DOMAIN after : d \in DOMAIN trimmed /\ after[d] = trimmed[d]
       /\ \A d \in DOMAIN trimmed \ DOMAIN after :
            /\ Cardinality(DOMAIN after) = HardLimit
            /\ \A e \in DOMAIN after : ActivityKey(trimmed[d]) <= ActivityKey(trimmed[e])
  BY <1>3, <1>9, <1>10, CappedIs
<1>12. ASSUME NEW d, BlockedAt(table, d, now), d \notin DOMAIN after, NEW e \in DOMAIN after
       PROVE  Cardinality(DOMAIN after) = HardLimit /\ after[e].until >= table[d].until
  <2>1. table[d].until > now /\ table[d].until \in Nat
    BY <1>1, <1>12, BlockedIs
  <2>2. d \in DOMAIN trimmed /\ trimmed[d].until >= table[d].until /\ IsEntry(trimmed[d], now)
    BY <1>9, <1>12 DEF KeepsBlocks, GoodTable
  <2>3. trimmed[d].until \in Nat
    BY <2>2 DEF IsEntry, EntryRecords
  <2>4. ActivityKey(trimmed[d]) = trimmed[d].until
    BY <2>1, <2>2, <2>3, KeysAre
  <2>5. /\ Cardinality(DOMAIN after) = HardLimit /\ after[e] = trimmed[e]
        /\ ActivityKey(trimmed[d]) <= ActivityKey(trimmed[e])
    BY <1>11, <1>12, <2>2
  <2>6. IsEntry(trimmed[e], now)
    BY <1>9, <1>11 DEF GoodTable
  <2>7. trimmed[e].until \in Nat /\ ActivityKey(trimmed[e]) \in Nat
    BY <2>6, KeysAre DEF IsEntry, EntryRecords
  <2>8. trimmed[e].until # 0
    <3>1. trimmed[e].until = 0 => ActivityKey(trimmed[e]) <= now
      BY <2>6, KeysAre
    <3> QED BY <2>1, <2>2, <2>3, <2>4, <2>5, <2>7, <3>1
  <2>9. ActivityKey(trimmed[e]) = trimmed[e].until
    BY <2>6, <2>8, KeysAre
  <2> QED BY <2>1, <2>2, <2>3, <2>4, <2>5, <2>7, <2>9
<1>13. ASSUME NEW d, BlockedAt(table, d, now)
       PROVE  \/ d \in DOMAIN after /\ after[d].until >= table[d].until
              \/ /\ Cardinality(DOMAIN after) = HardLimit
                 /\ \A e \in DOMAIN after : after[e].until >= table[d].until
  <2>1. d \in DOMAIN trimmed /\ trimmed[d].until >= table[d].until
    BY <1>9, <1>13 DEF KeepsBlocks
  <2>2. CASE d \in DOMAIN after
    BY <1>11, <2>1, <2>2
  <2>3. CASE d \notin DOMAIN after
    BY <1>11, <1>12, <1>13, <2>1, <2>3
  <2> QED BY <2>2, <2>3
<1> QED BY <1>11, <1>13 DEF KeepsBlocks, after

\* What the four operations mean for a block.
LEMMA KeptIs ==
  ASSUME NEW now \in Nat, NEW table, FitsTable(table, now), NEW other,
         FitsTable(other, now), NEW c, NEW cleared,
         \/ cleared
         \/ ~BlockedAt(table, c, now)
         \/ KeepsBlocks(table, other, c, now)
         \/ /\ Cardinality(DOMAIN other) = HardLimit
            /\ \A e \in DOMAIN other : other[e].until >= table[c].until
  PROVE  BlockKept(table, other, c, now, cleared)
<1> SUFFICES ASSUME BlockedAt(table, c, now), ~BlockedAt(other, c, now), ~cleared
             PROVE  /\ Cardinality(DOMAIN other) = HardLimit
                    /\ \A d \in DOMAIN other : other[d].until >= table[c].until
  BY DEF BlockKept
<1>1. ~KeepsBlocks(table, other, c, now)
  <2> SUFFICES ASSUME c \in DOMAIN other, other[c].until >= table[c].until PROVE FALSE
    BY DEF KeepsBlocks
  <2>1. table[c].until > now /\ table[c].until \in Nat /\ other[c].until \in Nat
    BY BlockedIs DEF FitsTable, GoodTable, IsEntry, EntryRecords
  <2>2. Entry(other, c).until = other[c].until /\ ~(other[c].until > now)
    BY DEF BlockedAt, Entry
  <2> QED BY <2>1, <2>2
<1> QED BY <1>1

(***************************************************************************)
(* Admission of websockets.                                                *)
(***************************************************************************)

SocketRecords == [step : SocketSteps, client : Clients \cup {0}]
Holders(c) == {s \in Sockets : socket[s].client = c}

AdmissionTypes ==
  /\ time \in 0..MaxAdmissionTime
  /\ active \in [Clients -> Nat] /\ \A c \in Clients : active[c] <= MaxPerClient
  /\ totalActive \in 0..MaxTotalSockets
  /\ socket \in [Sockets -> SocketRecords]
  /\ \A s \in Sockets : socket[s].client = 0 <=> socket[s].step = "none"

PermitsCounted ==
  /\ \A c \in Clients : active[c] = Cardinality(Holders(c))
  /\ totalActive = Sum(active, Clients)

\* The inductive invariant.
AdmissionInv == AdmissionTypes /\ FitsTable(failures, time) /\ PermitsCounted

LEMMA AdmissionSteps == [Next]_vars => AdmissionNext \/ UNCHANGED admissionVars
BY DEF Next, vars, hostVars, RunAdmission, RunInstall, RunLogin, RunSettings, RunAgent,
       RunCollector, RunReports, RunDelivery

LEMMA AdmissionBounds ==
  /\ MaxAdmissionTime \in Nat /\ MaxPerClient \in Nat /\ MaxTotalSockets \in Nat
  /\ IsFiniteSet(Clients) /\ IsFiniteSet(Sockets) /\ 0 \notin Clients
BY AdmissionAssumption, FailuresAssumption

LEMMA EmptyFits == \A now : FitsTable(EmptyTable, now)
<1>1. DOMAIN EmptyTable = {}
  BY DEF EmptyTable
<1>2. Cardinality(DOMAIN EmptyTable) <= HardLimit
  BY <1>1, FS_EmptySet, FailuresBounds
<1> QED BY <1>1, <1>2, FS_EmptySet DEF FitsTable, GoodTable

LEMMA InitAdmission == Init => AdmissionInv
<1> SUFFICES ASSUME AdmissionInit PROVE AdmissionInv
  BY DEF Init
<1>1. AdmissionTypes
  <2>1. NoSocket \in SocketRecords /\ NoSocket.client = 0 /\ NoSocket.step = "none"
    BY DEF NoSocket, SocketRecords, SocketSteps
  <2>2. 0 \in 0..MaxAdmissionTime /\ 0 \in 0..MaxTotalSockets /\ 0 <= MaxPerClient
    BY AdmissionBounds
  <2> QED BY <2>1, <2>2 DEF AdmissionInit, AdmissionTypes
<1>2. FitsTable(failures, time)
  BY EmptyFits DEF AdmissionInit
<1>3. PermitsCounted
  <2>1. \A c \in Clients : Holders(c) = {}
    BY AdmissionBounds DEF AdmissionInit, Holders, NoSocket
  <2>2. \A c \in Clients : active[c] = Cardinality(Holders(c))
    BY <2>1, FS_EmptySet DEF AdmissionInit
  <2>3. active \in [Clients -> Nat] /\ \A c \in Clients : active[c] = 0
    BY DEF AdmissionInit
  <2>4. Sum(active, Clients) = 0
    BY <2>3, SumNat, AdmissionBounds
  <2> QED BY <2>2, <2>4 DEF AdmissionInit, PermitsCounted
<1> QED BY <1>1, <1>2, <1>3 DEF AdmissionInv

LEMMA HoldersAre ==
  AdmissionTypes => \A c : IsFiniteSet(Holders(c)) /\ Cardinality(Holders(c)) \in Nat
<1>1. \A c : Holders(c) \subseteq Sockets
  BY DEF Holders
<1> QED BY <1>1, AdmissionBounds, FS_Subset, FS_CardinalityType

LEMMA ArrivalsAre == Arrivals \subseteq Clients
BY DEF Arrivals

\* A socket changes its step and keeps its client.
LEMMA StepTaken ==
  ASSUME AdmissionInv, NEW s \in Sockets, socket[s].step # "none", NEW to \in SocketSteps,
         to # "none", socket' = [socket EXCEPT ![s].step = to],
         UNCHANGED <<time, active, totalActive>>
  PROVE  AdmissionTypes' /\ PermitsCounted'
<1>1. AdmissionTypes /\ PermitsCounted
  BY DEF AdmissionInv
<1>2. /\ socket' \in [Sockets -> SocketRecords]
      /\ \A r \in Sockets : socket'[r].client = socket[r].client
      /\ \A r \in Sockets : socket'[r].step = IF r = s THEN to ELSE socket[r].step
  BY <1>1 DEF AdmissionTypes, SocketRecords
<1>3. AdmissionTypes'
  BY <1>1, <1>2 DEF AdmissionTypes
<1>4. \A c : Holders(c)' = Holders(c)
  BY <1>2 DEF Holders
<1> QED BY <1>1, <1>3, <1>4 DEF PermitsCounted

LEMMA TryAcquireKeeps ==
  ASSUME AdmissionInv, NEW s \in Sockets, NEW c \in Clients, TryAcquire(s, c)
  PROVE  AdmissionInv'
<1>0. AdmissionTypes /\ PermitsCounted /\ FitsTable(failures, time) /\ time \in Nat
  BY AdmissionBounds DEF AdmissionInv, AdmissionTypes
<1>1. /\ socket[s] = NoSocket /\ failures' = Checked(failures, c, time) /\ time' = time
      /\ \/ UNCHANGED <<active, totalActive, socket>>
         \/ /\ ~(totalActive >= MaxTotalSockets) /\ ~(active[c] >= MaxPerClient)
            /\ totalActive' = totalActive + 1
            /\ active' = [active EXCEPT ![c] = @ + 1]
            /\ socket' = [socket EXCEPT ![s] = [step |-> "hello", client |-> c]]
  BY DEF TryAcquire
<1>2. FitsTable(failures', time')
  BY <1>0, <1>1, CheckedIs
<1>3. CASE UNCHANGED <<active, totalActive, socket>>
  <2>1. \A d : Holders(d)' = Holders(d)
    BY <1>3 DEF Holders
  <2> QED BY <1>0, <1>1, <1>2, <1>3, <2>1 DEF AdmissionInv, AdmissionTypes, PermitsCounted
<1>4. CASE /\ ~(totalActive >= MaxTotalSockets) /\ ~(active[c] >= MaxPerClient)
           /\ totalActive' = totalActive + 1
           /\ active' = [active EXCEPT ![c] = @ + 1]
           /\ socket' = [socket EXCEPT ![s] = [step |-> "hello", client |-> c]]
  <2>1. [step |-> "hello", client |-> c] \in SocketRecords /\ c # 0
    BY AdmissionBounds DEF SocketRecords, SocketSteps
  <2>2. /\ socket' \in [Sockets -> SocketRecords]
        /\ \A r \in Sockets : r # s => socket'[r] = socket[r]
        /\ socket'[s].client = c /\ socket'[s].step = "hello"
    BY <1>0, <1>4, <2>1 DEF AdmissionTypes
  <2>3. active[c] \in Nat /\ active[c] + 1 <= MaxPerClient /\ totalActive + 1 \in 0..MaxTotalSockets
    <3>1. active[c] \in Nat /\ totalActive \in 0..MaxTotalSockets
      BY <1>0 DEF AdmissionTypes
    <3> QED BY <1>4, <3>1, AdmissionBounds
  <2>4. /\ active' \in [Clients -> Nat] /\ active'[c] = active[c] + 1
        /\ \A d \in Clients \ {c} : active'[d] = active[d]
    BY <1>0, <1>4, <2>3 DEF AdmissionTypes
  <2>5. AdmissionTypes'
    <3>1. \A d \in Clients : active'[d] <= MaxPerClient
      BY <1>0, <2>3, <2>4 DEF AdmissionTypes
    <3>2. totalActive' \in 0..MaxTotalSockets
      BY <1>4, <2>3
    <3>3. \A r \in Sockets : socket'[r].client = 0 <=> socket'[r].step = "none"
      BY <1>0, <2>1, <2>2 DEF AdmissionTypes
    <3> QED BY <1>0, <1>1, <2>2, <2>4, <3>1, <3>2, <3>3 DEF AdmissionTypes
  <2>6. socket[s].client = 0
    BY <1>1 DEF NoSocket
  <2>7. Holders(c)' = Holders(c) \cup {s} /\ s \notin Holders(c)
    BY <2>1, <2>2, <2>6 DEF Holders
  <2>8. \A d \in Clients \ {c} : Holders(d)' = Holders(d)
    BY <2>2, <2>6, AdmissionBounds DEF Holders
  <2>9. \A d \in Clients : active'[d] = Cardinality(Holders(d)')
    <3>1. Cardinality(Holders(c)') = Cardinality(Holders(c)) + 1
      BY <1>0, <2>7, HoldersAre, FS_AddElement
    <3>2. active'[c] = Cardinality(Holders(c)')
      BY <1>0, <2>4, <3>1 DEF PermitsCounted
    <3>3. \A d \in Clients \ {c} : active'[d] = Cardinality(Holders(d)')
      BY <1>0, <2>4, <2>8 DEF PermitsCounted
    <3> QED BY <3>2, <3>3
  <2>10. totalActive' = Sum(active', Clients)
    <3>1. active \in [Clients -> Int] /\ active' \in [Clients -> Int]
      BY <1>0, <2>4 DEF AdmissionTypes
    <3>2. Sum(active', Clients) = Sum(active, Clients) + active'[c] - active[c]
      BY <2>4, <3>1, SumChange, AdmissionBounds
    <3>3. Sum(active, Clients) = totalActive /\ totalActive \in Nat
      BY <1>0, AdmissionBounds DEF PermitsCounted, AdmissionTypes
    <3> QED BY <1>4, <2>3, <2>4, <3>2, <3>3
  <2> QED BY <1>2, <2>5, <2>9, <2>10 DEF AdmissionInv, PermitsCounted
<1> QED BY <1>1, <1>3, <1>4

LEMMA ReleaseKeeps ==
  ASSUME AdmissionInv, NEW s \in Sockets, Release(s)
  PROVE  AdmissionInv'
<1>0. AdmissionTypes /\ PermitsCounted /\ FitsTable(failures, time)
  BY DEF AdmissionInv
<1> PICK c : c = socket[s].client
  OBVIOUS
<1> DEFINE minus(n) == IF n > 0 THEN n - 1 ELSE 0
<1>1. /\ socket[s].step \in {"open", "ending"}
      /\ totalActive' = minus(totalActive)
      /\ active' = [active EXCEPT ![c] = minus(@)]
      /\ socket' = [socket EXCEPT ![s] = NoSocket]
      /\ UNCHANGED <<time, failures>>
  BY DEF Release
<1>2. c \in Clients /\ c # 0
  BY <1>0, <1>1 DEF AdmissionTypes, SocketRecords
<1>3. s \in Holders(c)
  BY DEF Holders
<1>4. IsFiniteSet(Holders(c)) /\ Cardinality(Holders(c)) \in Nat /\ Cardinality(Holders(c)) # 0
  BY <1>0, <1>3, HoldersAre, FS_EmptySet
<1>5. active[c] = Cardinality(Holders(c)) /\ active[c] \in Nat /\ active[c] > 0
  BY <1>0, <1>2, <1>4 DEF PermitsCounted
<1>6. totalActive \in Nat /\ totalActive > 0 /\ totalActive <= MaxTotalSockets
  <2>1. active \in [Clients -> Nat] /\ totalActive = Sum(active, Clients) /\ totalActive \in 0..MaxTotalSockets
    BY <1>0 DEF AdmissionTypes, PermitsCounted
  <2>2. active[c] <= Sum(active, Clients)
    BY <1>2, <2>1, SumNat, AdmissionBounds
  <2> QED BY <1>5, <2>1, <2>2, AdmissionBounds
<1>7. totalActive' = totalActive - 1 /\ minus(active[c]) = active[c] - 1
  BY <1>1, <1>5, <1>6
<1>8. /\ active' \in [Clients -> Nat] /\ active'[c] = active[c] - 1
      /\ \A d \in Clients \ {c} : active'[d] = active[d]
  <2>1. active' = [active EXCEPT ![c] = active[c] - 1]
    BY <1>1, <1>7
  <2>2. active[c] - 1 \in Nat
    BY <1>5
  <2> QED BY <1>0, <1>2, <2>1, <2>2 DEF AdmissionTypes
<1>9. /\ socket' \in [Sockets -> SocketRecords]
      /\ \A r \in Sockets : r # s => socket'[r] = socket[r]
      /\ socket'[s] = NoSocket /\ NoSocket.client = 0 /\ NoSocket.step = "none"
  <2>1. NoSocket \in SocketRecords /\ NoSocket.client = 0 /\ NoSocket.step = "none"
    BY DEF NoSocket, SocketRecords, SocketSteps
  <2> QED BY <1>0, <1>1, <2>1 DEF AdmissionTypes
<1>10. AdmissionTypes'
  <2>1. \A d \in Clients : active'[d] <= MaxPerClient
    <3>1. active[c] <= MaxPerClient
      BY <1>0, <1>2 DEF AdmissionTypes
    <3>2. active'[c] <= MaxPerClient
      BY <1>5, <1>8, <3>1, AdmissionBounds
    <3> QED BY <1>0, <1>8, <3>2 DEF AdmissionTypes
  <2>2. totalActive' \in 0..MaxTotalSockets
    BY <1>6, <1>7, AdmissionBounds
  <2>3. \A r \in Sockets : socket'[r].client = 0 <=> socket'[r].step = "none"
    BY <1>0, <1>9 DEF AdmissionTypes
  <2> QED BY <1>0, <1>1, <1>8, <1>9, <2>1, <2>2, <2>3 DEF AdmissionTypes
<1>11. Holders(c)' = Holders(c) \ {s} /\ \A d \in Clients \ {c} : Holders(d)' = Holders(d)
  <2>1. Holders(c)' = Holders(c) \ {s}
    BY <1>2, <1>9 DEF Holders
  <2>2. \A d \in Clients \ {c} : s \notin Holders(d) /\ d # 0
    BY AdmissionBounds DEF Holders
  <2>3. \A d \in Clients \ {c} : Holders(d)' = Holders(d)
    BY <1>9, <2>2 DEF Holders
  <2> QED BY <2>1, <2>3
<1>12. \A d \in Clients : active'[d] = Cardinality(Holders(d)')
  <2>1. Cardinality(Holders(c)') = Cardinality(Holders(c)) - 1
    BY <1>3, <1>4, <1>11, FS_RemoveElement
  <2>2. active'[c] = Cardinality(Holders(c)')
    BY <1>5, <1>8, <2>1
  <2> QED BY <1>0, <1>8, <1>11, <2>2 DEF PermitsCounted
<1>13. totalActive' = Sum(active', Clients)
  <2>1. active \in [Clients -> Int] /\ active' \in [Clients -> Int]
    BY <1>0, <1>8 DEF AdmissionTypes
  <2>2. Sum(active', Clients) = Sum(active, Clients) + active'[c] - active[c]
    BY <1>2, <1>8, <2>1, SumChange, AdmissionBounds
  <2>3. Sum(active, Clients) = totalActive
    BY <1>0 DEF PermitsCounted
  <2> QED BY <1>5, <1>6, <1>7, <1>8, <2>2, <2>3
<1> QED BY <1>0, <1>1, <1>10, <1>12, <1>13 DEF AdmissionInv, PermitsCounted

LEMMA AdmissionStep == AdmissionInv /\ AdmissionNext => AdmissionInv'
<1> SUFFICES ASSUME AdmissionInv, AdmissionNext PROVE AdmissionInv'
  OBVIOUS
<1>0. AdmissionTypes /\ FitsTable(failures, time) /\ time \in Nat
  BY AdmissionBounds DEF AdmissionInv, AdmissionTypes
<1>1. \A s \in Sockets : socket[s].step # "none" => socket[s].client \in Clients
  BY <1>0 DEF AdmissionTypes, SocketRecords
<1>2. ASSUME NEW s \in Sockets, HelloFails(s) PROVE AdmissionInv'
  <2>1. FitsTable(failures', time')
    BY <1>0, <1>1, <1>2, WithFailureIs DEF HelloFails
  <2>2. AdmissionTypes' /\ PermitsCounted'
    BY <1>2, StepTaken DEF HelloFails, SocketSteps
  <2> QED BY <2>1, <2>2 DEF AdmissionInv
<1>3. ASSUME NEW s \in Sockets, HelloCancelled(s) PROVE AdmissionInv'
  BY <1>0, <1>3, StepTaken DEF HelloCancelled, SocketSteps, AdmissionInv
<1>4. ASSUME NEW s \in Sockets, HelloAuthorized(s) PROVE AdmissionInv'
  <2>1. FitsTable(failures', time')
    BY <1>0, <1>4, ClearedIs DEF HelloAuthorized
  <2>2. AdmissionTypes' /\ PermitsCounted'
    BY <1>4, StepTaken DEF HelloAuthorized, SocketSteps
  <2> QED BY <2>1, <2>2 DEF AdmissionInv
<1>5. CASE TimePasses
  <2>1. time' = time + 1 /\ time' \in 0..MaxAdmissionTime /\ time' \in Nat /\ time <= time'
    BY <1>0, <1>5, AdmissionBounds DEF TimePasses, AdmissionTypes
  <2>2. FitsTable(failures', time')
    BY <1>0, <1>5, <2>1, FitsLater DEF TimePasses
  <2>3. UNCHANGED <<active, totalActive, socket>>
    BY <1>5 DEF TimePasses
  <2>4. \A c : Holders(c)' = Holders(c)
    BY <2>3 DEF Holders
  <2> QED BY <2>1, <2>2, <2>3, <2>4 DEF AdmissionInv, AdmissionTypes, PermitsCounted
<1> QED BY <1>2, <1>3, <1>4, <1>5, TryAcquireKeeps, ReleaseKeeps, ArrivalsAre DEF AdmissionNext

LEMMA AdmissionInvariant == Spec => []AdmissionInv
<1>1. AdmissionInv /\ [Next]_vars => AdmissionInv'
  <2> SUFFICES ASSUME AdmissionInv, [Next]_vars PROVE AdmissionInv'
    OBVIOUS
  <2>1. CASE UNCHANGED admissionVars
    <3>1. \A c : Holders(c)' = Holders(c)
      BY <2>1 DEF admissionVars, Holders
    <3> QED BY <2>1, <3>1 DEF admissionVars, AdmissionInv, AdmissionTypes, PermitsCounted
  <2> QED BY <2>1, AdmissionSteps, AdmissionStep
<1> QED BY <1>1, InitAdmission, PTL DEF Spec

\* The counters of admission are the permits that sockets hold, and their types.
LEMMA AdmissionTyped == AdmissionInv => AdmissionTypeOK /\ PermitsMatchSockets
<1> SUFFICES ASSUME AdmissionInv PROVE AdmissionTypeOK /\ PermitsMatchSockets
  OBVIOUS
<1>0. AdmissionTypes /\ PermitsCounted /\ FitsTable(failures, time) /\ time \in Nat
  BY AdmissionBounds DEF AdmissionInv, AdmissionTypes
<1>1. active \in [Clients -> 0..MaxPerClient]
  <2>1. \A c \in Clients : active[c] \in 0..MaxPerClient
    BY <1>0, AdmissionBounds DEF AdmissionTypes
  <2> QED BY <1>0, <2>1 DEF AdmissionTypes
<1>2. AdmissionTypeOK
  BY <1>0, <1>1, FitsIsTable DEF AdmissionTypes, AdmissionTypeOK, SocketRecords
<1>3. MapThenSumSet(LAMBDA c : active[c], Clients) = Sum(active, Clients)
  BY Zenon DEF Sum, MapThenSumSet, MapThenFoldSet
<1>4. PermitsMatchSockets
  BY <1>0, <1>3 DEF PermitsCounted, PermitsMatchSockets, Holders
<1> QED BY <1>2, <1>4

\* The counters of admission, which are limits, are always the sockets that hold a permit,
\* in all and by client, whatever way a socket ends (WsConnectionPermit::drop).
THEOREM PermitsAreCounted == Spec => [](AdmissionTypeOK /\ PermitsMatchSockets)
BY AdmissionInvariant, AdmissionTyped, PTL

\* The operations on the table keep blocks.
LEMMA BlocksSurvive ==
  ASSUME NEW now \in Nat, NEW table, FitsTable(table, now), NEW c \in Clients, NEW d,
         NEW cleared \in BOOLEAN
  PROVE  /\ BlockKept(table, table, d, now, cleared)
         /\ BlockKept(table, Checked(table, c, now), d, now, cleared)
         /\ (d = c => cleared) => BlockKept(table, Cleared(table, c), d, now, cleared)
         /\ BlockKept(table, WithFailure(table, c, now), d, now, cleared)
<1>1. BlockKept(table, table, d, now, cleared)
  BY DEF BlockKept
<1>2. BlockKept(table, Checked(table, c, now), d, now, cleared)
  <2>1. FitsTable(Checked(table, c, now), now) /\ KeepsBlocks(table, Checked(table, c, now), d, now)
    BY CheckedIs
  <2> QED BY <2>1, KeptIs
<1>3. ASSUME d = c => cleared PROVE BlockKept(table, Cleared(table, c), d, now, cleared)
  <2>1. /\ FitsTable(Cleared(table, c), now)
        /\ cleared \/ KeepsBlocks(table, Cleared(table, c), d, now)
    BY <1>3, ClearedIs
  <2> QED BY <2>1, KeptIs
<1>4. BlockKept(table, WithFailure(table, c, now), d, now, cleared)
  <2>1. /\ FitsTable(WithFailure(table, c, now), now)
        /\ \/ ~BlockedAt(table, d, now)
           \/ KeepsBlocks(table, WithFailure(table, c, now), d, now)
           \/ /\ Cardinality(DOMAIN WithFailure(table, c, now)) = HardLimit
              /\ \A e \in DOMAIN WithFailure(table, c, now) :
                   WithFailure(table, c, now)[e].until >= table[d].until
    BY WithFailureIs
  <2> QED BY <2>1, KeptIs
<1> QED BY <1>1, <1>2, <1>3, <1>4

\* An agent of the client is authorised in this step.
Authorized(c) ==
  \E s \in Sockets : socket[s].client = c /\ socket[s].step = "hello" /\ socket'[s].step = "open"

LEMMA AdmissionKeepsBlocks ==
  AdmissionInv /\ AdmissionNext =>
    \A c \in Clients : BlockKept(failures, failures', c, time', Authorized(c))
<1> SUFFICES ASSUME AdmissionInv, AdmissionNext, NEW c \in Clients
             PROVE  BlockKept(failures, failures', c, time', Authorized(c))
  OBVIOUS
<1>0. AdmissionTypes /\ FitsTable(failures, time) /\ time \in Nat
  BY AdmissionBounds DEF AdmissionInv, AdmissionTypes
<1> DEFINE authorized == Authorized(c)
<1>1. authorized \in BOOLEAN
  BY DEF Authorized
<1> HIDE DEF authorized
<1>2. ASSUME NEW s \in Sockets, NEW d \in Clients, TryAcquire(s, d)
      PROVE  BlockKept(failures, failures', c, time', authorized)
  <2>1. failures' = Checked(failures, d, time) /\ time' = time
    BY <1>2 DEF TryAcquire
  <2>2. BlockKept(failures, Checked(failures, d, time), c, time, authorized)
    BY <1>0, <1>1, BlocksSurvive
  <2> QED BY <2>1, <2>2
<1>3. ASSUME NEW s \in Sockets, HelloFails(s) PROVE BlockKept(failures, failures', c, time', authorized)
  <2>1. /\ socket[s].step = "hello" /\ time' = time
        /\ failures' = WithFailure(failures, socket[s].client, time)
    BY <1>3 DEF HelloFails
  <2>2. socket[s].client \in Clients
    BY <1>0, <2>1 DEF AdmissionTypes, SocketRecords
  <2>3. BlockKept(failures, WithFailure(failures, socket[s].client, time), c, time, authorized)
    BY <1>0, <1>1, <2>2, BlocksSurvive
  <2> QED BY <2>1, <2>3
<1>4. ASSUME NEW s \in Sockets, HelloAuthorized(s)
      PROVE  BlockKept(failures, failures', c, time', authorized)
  <2>1. /\ socket[s].step = "hello" /\ time' = time
        /\ failures' = Cleared(failures, socket[s].client)
        /\ socket' = [socket EXCEPT ![s].step = "open"]
    BY <1>4 DEF HelloAuthorized
  <2>2. socket[s].client \in Clients
    BY <1>0, <2>1 DEF AdmissionTypes, SocketRecords
  <2>3. socket'[s].step = "open"
    BY <1>0, <2>1 DEF AdmissionTypes, SocketRecords
  <2>4. c = socket[s].client => authorized
    BY <2>1, <2>3 DEF Authorized, authorized
  <2>5. BlockKept(failures, Cleared(failures, socket[s].client), c, time, authorized)
    BY <1>0, <1>1, <2>2, <2>4, BlocksSurvive
  <2> QED BY <2>1, <2>5
<1>5. ASSUME UNCHANGED failures PROVE BlockKept(failures, failures', c, time', authorized)
  <2>1. BlockKept(failures, failures, c, time', authorized)
    BY DEF BlockKept
  <2> QED BY <1>5, <2>1
<1>6. BlockKept(failures, failures', c, time', authorized)
  <2>1. ASSUME NEW s \in Sockets, HelloCancelled(s) \/ Release(s) PROVE UNCHANGED failures
    BY <2>1 DEF HelloCancelled, Release
  <2>2. TimePasses => UNCHANGED failures
    BY DEF TimePasses
  <2> QED BY <1>2, <1>3, <1>4, <1>5, <2>1, <2>2, ArrivalsAre DEF AdmissionNext
<1> QED BY <1>6 DEF authorized

(***************************************************************************)
(* Requests of installation scripts.                                       *)
(***************************************************************************)

InstallRecords == [step : {"none", "checked", "consumed"}, client : Clients \cup {0},
                   token : Tokens \cup {0}]

InstallTypes ==
  /\ moment \in 0..MaxInstallTime
  /\ unused \subseteq Tokens /\ configured \in [Tokens -> SUBSET Clients]
  /\ install \in [Requesters -> InstallRecords]

\* A request that is under way has a client, and one that has spent a token has that token.
Underway ==
  \A r \in Requesters :
    /\ install[r].step # "none" => install[r].client \in Clients
    /\ install[r].step = "consumed" => install[r].token \in Tokens

\* The inductive invariant.
InstallInv == InstallTypes /\ Underway /\ FitsTable(installFailures, moment)

LEMMA InstallSteps == [Next]_vars => InstallNext \/ UNCHANGED installVars
BY DEF Next, vars, hostVars, RunAdmission, RunInstall, RunLogin, RunSettings, RunAgent,
       RunCollector, RunReports, RunDelivery

LEMMA NoInstallIs ==
  NoInstall \in InstallRecords /\ NoInstall.step = "none"
BY DEF NoInstall, InstallRecords

LEMMA InitInstall == Init => InstallInv
<1> SUFFICES ASSUME InstallInit PROVE InstallInv
  BY DEF Init
<1>1. 0 \in 0..MaxInstallTime
  BY InstallAssumption
<1>2. InstallTypes /\ Underway
  BY <1>1, NoInstallIs DEF InstallInit, InstallTypes, Underway
<1> QED BY <1>2, EmptyFits DEF InstallInit, InstallInv

\* Only the request r moves, and its table of failures still fits.
LEMMA RequestMoves ==
  ASSUME InstallInv, NEW r \in Requesters, NEW record \in InstallRecords,
         install' = [install EXCEPT ![r] = record],
         record.step # "none" => record.client \in Clients,
         record.step = "consumed" => record.token \in Tokens,
         UNCHANGED moment, FitsTable(installFailures', moment), unused' \subseteq unused,
         configured' \in [Tokens -> SUBSET Clients]
  PROVE  InstallInv'
<1>1. InstallTypes /\ Underway
  BY DEF InstallInv
<1>2. /\ install' \in [Requesters -> InstallRecords] /\ install'[r] = record
      /\ \A q \in Requesters : q # r => install'[q] = install[q]
  BY <1>1 DEF InstallTypes
<1>3. InstallTypes'
  BY <1>1, <1>2 DEF InstallTypes
<1>4. Underway'
  BY <1>1, <1>2 DEF Underway
<1> QED BY <1>3, <1>4 DEF InstallInv

LEMMA InstallStep == InstallInv /\ InstallNext => InstallInv'
<1> SUFFICES ASSUME InstallInv, InstallNext PROVE InstallInv'
  OBVIOUS
<1>0. InstallTypes /\ Underway /\ FitsTable(installFailures, moment) /\ moment \in Nat
  BY InstallAssumption DEF InstallInv, InstallTypes
<1>1. ASSUME NEW r \in Requesters, NEW c \in Clients, InstallCheck(r, c) PROVE InstallInv'
  <2>1. /\ installFailures' = Checked(installFailures, c, moment)
        /\ UNCHANGED <<moment, unused, configured>>
        /\ install' = IF BlockedAt(installFailures, c, moment) THEN install
                      ELSE [install EXCEPT ![r] = [NoInstall EXCEPT !.step = "checked", !.client = c]]
    BY <1>1 DEF InstallCheck
  <2>2. FitsTable(installFailures', moment)
    BY <1>0, <2>1, CheckedIs
  <2>3. CASE install' = install
    BY <1>0, <2>1, <2>2, <2>3 DEF InstallInv, InstallTypes, Underway
  <2>4. CASE install' = [install EXCEPT ![r] = [NoInstall EXCEPT !.step = "checked", !.client = c]]
    <3> DEFINE record == [NoInstall EXCEPT !.step = "checked", !.client = c]
    <3>1. record \in InstallRecords /\ record.step = "checked" /\ record.client = c
      BY DEF NoInstall, InstallRecords
    <3>2. configured' \in [Tokens -> SUBSET Clients]
      BY <1>0, <2>1 DEF InstallTypes
    <3> QED BY <2>1, <2>2, <2>4, <3>1, <3>2, RequestMoves
  <2> QED BY <2>1, <2>3, <2>4
<1>2. ASSUME NEW r \in Requesters, TokenRefused(r) PROVE InstallInv'
  <2>1. /\ install[r].step = "checked"
        /\ installFailures' = WithFailure(installFailures, install[r].client, moment)
        /\ install' = [install EXCEPT ![r] = NoInstall]
        /\ UNCHANGED <<moment, unused, configured>>
    BY <1>2 DEF TokenRefused
  <2>2. install[r].client \in Clients /\ configured' \in [Tokens -> SUBSET Clients]
    BY <1>0, <2>1 DEF Underway, InstallTypes
  <2>3. FitsTable(installFailures', moment)
    BY <1>0, <2>1, <2>2, WithFailureIs
  <2> QED BY <2>1, <2>2, <2>3, NoInstallIs, RequestMoves
<1>3. ASSUME NEW r \in Requesters, RegistryFails(r) PROVE InstallInv'
  <2>1. /\ install' = [install EXCEPT ![r] = NoInstall]
        /\ UNCHANGED <<moment, installFailures, unused, configured>>
    BY <1>3 DEF RegistryFails
  <2>2. FitsTable(installFailures', moment) /\ configured' \in [Tokens -> SUBSET Clients]
    BY <1>0, <2>1 DEF InstallTypes
  <2> QED BY <2>1, <2>2, NoInstallIs, RequestMoves
<1>4. ASSUME NEW r \in Requesters, Answer(r) PROVE InstallInv'
  <2>1. /\ install[r].step = "consumed"
        /\ installFailures' = Cleared(installFailures, install[r].client)
        /\ install' = [install EXCEPT ![r] = NoInstall]
        /\ configured' \in {configured,
                      [configured EXCEPT ![install[r].token] = @ \cup {install[r].client}]}
        /\ UNCHANGED <<moment, unused>>
    BY <1>4 DEF Answer
  <2>2. FitsTable(installFailures', moment)
    BY <1>0, <2>1, ClearedIs
  <2>3. install[r].client \in Clients /\ install[r].token \in Tokens
    BY <1>0, <2>1 DEF Underway
  <2>4. configured' \in [Tokens -> SUBSET Clients]
    BY <1>0, <2>1, <2>3 DEF InstallTypes
  <2> QED BY <2>1, <2>2, <2>4, NoInstallIs, RequestMoves
<1>5. ASSUME NEW r \in Requesters, NEW k \in Tokens, ConsumeToken(r, k) PROVE InstallInv'
  <2> DEFINE record == [install[r] EXCEPT !.step = "consumed", !.token = k]
  <2>1. /\ install[r].step = "checked" /\ unused' = unused \ {k}
        /\ install' = [install EXCEPT ![r] = record]
        /\ UNCHANGED <<moment, installFailures, configured>>
    BY <1>5 DEF ConsumeToken
  <2>2. record \in InstallRecords /\ record.client = install[r].client /\ record.token = k
    BY <1>0 DEF InstallTypes, InstallRecords
  <2>3. install[r].client \in Clients /\ configured' \in [Tokens -> SUBSET Clients]
    BY <1>0, <2>1 DEF Underway, InstallTypes
  <2>4. FitsTable(installFailures', moment)
    BY <1>0, <2>1
  <2> HIDE DEF record
  <2> QED BY <2>1, <2>2, <2>3, <2>4, RequestMoves
<1>6. CASE MomentPasses
  <2>1. /\ moment' = moment + 1 /\ moment < MaxInstallTime
        /\ UNCHANGED <<installFailures, unused, install, configured>>
    BY <1>6 DEF MomentPasses
  <2>2. moment' \in 0..MaxInstallTime /\ moment' \in Nat /\ moment <= moment'
    BY <1>0, <2>1, InstallAssumption DEF InstallTypes
  <2>3. FitsTable(installFailures', moment')
    BY <1>0, <2>1, <2>2, FitsLater
  <2> QED BY <1>0, <2>1, <2>2, <2>3 DEF InstallInv, InstallTypes, Underway
<1> QED BY <1>1, <1>2, <1>3, <1>4, <1>5, <1>6 DEF InstallNext

\* A request of the client gets its answer in this step.
Answered(c) ==
  \E r \in Requesters : install[r].client = c /\ install[r].step = "consumed" /\ install'[r] = NoInstall

LEMMA InstallKeepsBlocks ==
  InstallInv /\ InstallNext =>
    \A c \in Clients : BlockKept(installFailures, installFailures', c, moment', Answered(c))
<1> SUFFICES ASSUME InstallInv, InstallNext, NEW c \in Clients
             PROVE  BlockKept(installFailures, installFailures', c, moment', Answered(c))
  OBVIOUS
<1>0. InstallTypes /\ Underway /\ FitsTable(installFailures, moment) /\ moment \in Nat
  BY InstallAssumption DEF InstallInv, InstallTypes
<1> DEFINE answered == Answered(c)
<1>1. answered \in BOOLEAN
  BY DEF Answered
<1> HIDE DEF answered
<1>2. ASSUME NEW r \in Requesters, NEW d \in Clients, InstallCheck(r, d)
      PROVE  BlockKept(installFailures, installFailures', c, moment', answered)
  <2>1. installFailures' = Checked(installFailures, d, moment) /\ moment' = moment
    BY <1>2 DEF InstallCheck
  <2>2. BlockKept(installFailures, Checked(installFailures, d, moment), c, moment, answered)
    BY <1>0, <1>1, BlocksSurvive
  <2> QED BY <2>1, <2>2
<1>3. ASSUME NEW r \in Requesters, TokenRefused(r)
      PROVE  BlockKept(installFailures, installFailures', c, moment', answered)
  <2>1. /\ install[r].step = "checked" /\ moment' = moment
        /\ installFailures' = WithFailure(installFailures, install[r].client, moment)
    BY <1>3 DEF TokenRefused
  <2>2. install[r].client \in Clients
    BY <1>0, <2>1 DEF Underway
  <2>3. BlockKept(installFailures, WithFailure(installFailures, install[r].client, moment), c, moment,
                  answered)
    BY <1>0, <1>1, <2>2, BlocksSurvive
  <2> QED BY <2>1, <2>3
<1>4. ASSUME NEW r \in Requesters, Answer(r)
      PROVE  BlockKept(installFailures, installFailures', c, moment', answered)
  <2>1. /\ install[r].step = "consumed" /\ moment' = moment
        /\ installFailures' = Cleared(installFailures, install[r].client)
        /\ install' = [install EXCEPT ![r] = NoInstall]
    BY <1>4 DEF Answer
  <2>2. install[r].client \in Clients /\ install'[r] = NoInstall
    BY <1>0, <2>1 DEF Underway, InstallTypes
  <2>3. c = install[r].client => answered
    BY <2>1, <2>2 DEF Answered, answered
  <2>4. BlockKept(installFailures, Cleared(installFailures, install[r].client), c, moment, answered)
    BY <1>0, <1>1, <2>2, <2>3, BlocksSurvive
  <2> QED BY <2>1, <2>4
<1>5. ASSUME UNCHANGED installFailures
      PROVE  BlockKept(installFailures, installFailures', c, moment', answered)
  <2>1. BlockKept(installFailures, installFailures, c, moment', answered)
    BY DEF BlockKept
  <2> QED BY <1>5, <2>1
<1>6. BlockKept(installFailures, installFailures', c, moment', answered)
  <2>1. ASSUME NEW r \in Requesters, RegistryFails(r) \/ \E k \in Tokens : ConsumeToken(r, k)
        PROVE  UNCHANGED installFailures
    BY <2>1 DEF RegistryFails, ConsumeToken
  <2>2. MomentPasses => UNCHANGED installFailures
    BY DEF MomentPasses
  <2> QED BY <1>2, <1>3, <1>4, <1>5, <2>1, <2>2 DEF InstallNext
<1> QED BY <1>6 DEF answered

LEMMA InstallInvariant == Spec => []InstallInv
<1>1. InstallInv /\ [Next]_vars => InstallInv'
  <2>1. InstallInv /\ UNCHANGED installVars => InstallInv'
    BY DEF installVars, InstallInv, InstallTypes, Underway
  <2> QED BY <2>1, InstallSteps, InstallStep
<1> QED BY <1>1, InitInstall, PTL DEF Spec

\* Neither table of failed clients, whatever the clients and the limits, forgets a block
\* that has not ended, unless the client proves itself or the table is full of entries
\* that outlast it (prune, sweep_expired_auth_failures, enforce_auth_failure_hard_cap).
THEOREM BlocksHold == Spec => BlocksLast
<1>1. AdmissionInv /\ [Next]_vars =>
        [\A c \in Clients : BlockKept(failures, failures', c, time', Authorized(c))]_admissionVars
  BY AdmissionSteps, AdmissionKeepsBlocks
<1>2. InstallInv /\ [Next]_vars =>
        [\A c \in Clients : BlockKept(installFailures, installFailures', c, moment', Answered(c))]_installVars
  BY InstallSteps, InstallKeepsBlocks
<1>3. Spec => [][\A c \in Clients : BlockKept(failures, failures', c, time', Authorized(c))]_admissionVars
  BY <1>1, AdmissionInvariant, PTL DEF Spec
<1>4. Spec => [][\A c \in Clients : BlockKept(installFailures, installFailures', c, moment',
                                              Answered(c))]_installVars
  BY <1>2, InstallInvariant, PTL DEF Spec
<1>5. Spec => BlockLasts
  BY <1>3 DEF BlockLasts, Authorized
<1>6. Spec => InstallBlockLasts
  BY <1>4 DEF InstallBlockLasts, Answered
<1> QED BY <1>5, <1>6 DEF BlocksLast

\* The parts run one at a time.
LEMMA PanelSteps ==
  [Next]_vars => \/ EditNext
                 \/ LoginNext /\ UNCHANGED settingsVars
                 \/ UNCHANGED panelVars
<1>1. [Next]_vars => RunLogin \/ RunSettings \/ UNCHANGED panelVars
  BY DEF Next, vars, RunAdmission, RunInstall, RunAgent, RunCollector, RunReports, RunDelivery
<1>2. RunLogin \/ RunSettings => \/ EditNext
                                 \/ LoginNext /\ UNCHANGED settingsVars
  BY DEF RunLogin, RunSettings, SettingsNext
<1> QED BY <1>1, <1>2

(***************************************************************************)
(* Settings of the panel.                                                  *)
(***************************************************************************)

Auths == [password : 0..MaxEdits, secret : 0..MaxEdits + 1]
Edits == [step : EditSteps, kind : Kinds, next : Auths, value : 0..MaxEdits,
          content : Contents, fd : Nat]

SettingsTypes ==
  /\ auth \in Auths /\ alerting \in 0..MaxEdits /\ edits \in 0..MaxEdits
  /\ overlapped \in BOOLEAN
  /\ inode \in Seq(Contents) /\ configFile \in 1..Len(inode)
  /\ configTmp \in 0..Len(inode) /\ configTmp # configFile
  /\ edit \in [Editors -> Edits]
  /\ \A e \in Editors : edit[e].fd <= Len(inode)

\* What the server runs with, and what the file is once e is through.
Running1 == [password |-> auth.password, secret |-> auth.secret,
             alerting |-> alerting, whole |-> TRUE]
Goal(e) == Edited(Running1, edit[e].kind, edit[e].next, edit[e].value)

\* An edit that is alone finds the file as the running copy says, and changes neither
\* but by the rename and by what follows it.
Alone(e) ==
  /\ edit[e].step # "clear" =>
       /\ edit[e].kind = "password" => edit[e].next.secret = auth.secret
       /\ edit[e].kind \in {"enable", "disable"} => edit[e].next.password = auth.password
  /\ edit[e].step \in {"confirmed", "read"} => edit[e].fd = 0
  /\ edit[e].step # "saved" => inode[configFile] = Running1
  /\ edit[e].step \in {"open", "written"} => edit[e].content = Goal(e)
  /\ edit[e].step = "open" => edit[e].fd \in {0, configTmp}
  /\ edit[e].step = "written" => edit[e].fd = configTmp /\ configTmp # 0
                                 /\ inode[configTmp] = Goal(e)
  /\ edit[e].step = "saved" => inode[configFile] = Goal(e)

OneAtATime ==
  /\ \A e, f \in Editors : edit[e].step # "idle" /\ edit[f].step # "idle" => e = f
  /\ \A e \in Editors : edit[e].step # "idle" => Alone(e)
  /\ (\A e \in Editors : edit[e].step = "idle") => inode[configFile] = Running1

\* The inductive invariant of the settings.
SettingsInv == SettingsTypes /\ (~overlapped => OneAtATime)

LEMMA EditedIs ==
  ASSUME NEW c \in Contents, NEW next, NEW value
  PROVE  /\ Edited(c, "password", next, value) = [c EXCEPT !.password = next.password]
         /\ Edited(c, "enable", next, value) = [c EXCEPT !.secret = next.secret]
         /\ Edited(c, "disable", next, value) = [c EXCEPT !.secret = next.secret]
         /\ Edited(c, "alerting", next, value) = [c EXCEPT !.alerting = value]
BY DEF Edited

LEMMA EditedType ==
  ASSUME NEW c \in Contents, NEW k \in Kinds, NEW next \in Auths, NEW value \in 0..MaxEdits
  PROVE  Edited(c, k, next, value) \in Contents
BY EditedIs DEF Kinds, Contents, Auths

LEMMA RunningType == SettingsTypes => Running1 \in Contents
BY DEF SettingsTypes, Running1, Contents, Auths

LEMMA NoEditType == NoEdit \in Edits /\ Partial \in Contents
<1>1. Partial \in Contents
  BY SettingsAssumption DEF Partial, Contents
<1> QED BY <1>1, SettingsAssumption DEF NoEdit, Edits, Auths, Kinds, EditSteps

LEMMA InitSettings == Init => SettingsInv
<1> SUFFICES ASSUME Init PROVE SettingsInv
  OBVIOUS
<1>1. /\ alerting = 0 /\ configFile = 1 /\ configTmp = 0 /\ edits = 0 /\ overlapped = FALSE
      /\ inode = <<[password |-> 0, secret |-> 1, alerting |-> 0, whole |-> TRUE]>>
      /\ edit = [e \in Editors |-> NoEdit]
      /\ auth = [password |-> 0, secret |-> 1]
  BY DEF Init, SettingsInit, LoginInit
<1>2. /\ [password |-> 0, secret |-> 1, alerting |-> 0, whole |-> TRUE] \in Contents
      /\ auth \in Auths
  BY <1>1, SettingsAssumption DEF Contents, Auths
<1>3. SettingsTypes
  <2>1. inode \in Seq(Contents) /\ Len(inode) = 1
    BY <1>1, <1>2
  <2>2. edit \in [Editors -> Edits] /\ \A e \in Editors : edit[e].fd = 0
    <3>1. edit \in [Editors -> Edits]
      BY <1>1, NoEditType
    <3>2. NoEdit.fd = 0
      BY DEF NoEdit
    <3> QED BY <1>1, <3>1, <3>2
  <2>3. overlapped \in BOOLEAN
    BY <1>1
  <2>4. configFile \in 1..Len(inode) /\ configTmp \in 0..Len(inode) /\ configTmp # configFile
    BY <1>1, <2>1
  <2>5. alerting \in 0..MaxEdits /\ edits \in 0..MaxEdits
    BY <1>1, SettingsAssumption
  <2> QED BY <1>2, <2>1, <2>2, <2>3, <2>4, <2>5 DEF SettingsTypes
<1>4. OneAtATime
  BY <1>1 DEF OneAtATime, NoEdit, Running1
<1> QED BY <1>3, <1>4 DEF SettingsInv

\* Login leaves the configuration alone.
LEMMA LoginKeepsAuth == LoginNext => UNCHANGED auth
BY DEF LoginNext, Judge, CheckLimits, Conclude, BeginVerify, CodeAccepted, CodeRefused, MarkStep,
       OpenSession, FinishVerify, Logout, ClockTicks, WallSetBack

LEMMA SettingsKept ==
  SettingsInv /\ UNCHANGED <<auth, settingsVars>> => SettingsInv'
<1> SUFFICES ASSUME SettingsInv, UNCHANGED <<auth, settingsVars>> PROVE SettingsInv'
  OBVIOUS
<1>1. UNCHANGED <<auth, alerting, configFile, configTmp, inode, edit, edits, overlapped>>
  BY DEF settingsVars, configDisk
<1>2. SettingsTypes'
  BY <1>1 DEF SettingsInv, SettingsTypes
<1>3. OneAtATime => OneAtATime'
  BY <1>1 DEF OneAtATime, Alone, Goal, Running1
<1> QED BY <1>1, <1>2, <1>3 DEF SettingsInv

LEMMA EditStep == SettingsInv /\ EditNext => SettingsInv'
<1> SUFFICES ASSUME SettingsInv, EditNext PROVE SettingsInv'
  OBVIOUS
<1>0. SettingsTypes
  BY DEF SettingsInv
<1>r. Running1 \in Contents
  BY <1>0, RunningType
<1>1. ASSUME NEW e \in Editors, NEW op \in Kinds, BeginEdit(e, op) PROVE SettingsInv'
  <2> DEFINE next == CASE op = "password" -> [auth EXCEPT !.password = edits']
                       [] op = "enable" -> [auth EXCEPT !.secret = edits' + 1]
                       [] op = "disable" -> [auth EXCEPT !.secret = 0]
                       [] op = "alerting" -> auth
             new == [NoEdit EXCEPT !.step = "confirmed", !.kind = op, !.value = edits',
                                   !.next = next]
  <2>1. /\ edit[e].step = "idle" /\ edits < MaxEdits /\ edits' = edits + 1
        /\ overlapped' = (overlapped \/ Editing # {})
        /\ edit' = [edit EXCEPT ![e] = new]
        /\ UNCHANGED <<auth, alerting, configFile, configTmp, inode>>
    BY <1>1 DEF BeginEdit, At, configDisk, loginVars
  <2>2. edits' \in 0..MaxEdits
    BY <1>0, <2>1, SettingsAssumption DEF SettingsTypes
  <2>3. /\ next \in Auths
        /\ op = "password" => next.secret = auth.secret
        /\ op \in {"enable", "disable"} => next.password = auth.password
    <3>1. CASE op = "password"
      BY <1>0, <2>2, <3>1 DEF SettingsTypes, Auths
    <3>2. CASE op = "enable"
      BY <1>0, <2>2, <3>2, SettingsAssumption DEF SettingsTypes, Auths
    <3>3. CASE op = "disable"
      BY <1>0, <3>3, SettingsAssumption DEF SettingsTypes, Auths
    <3>4. CASE op = "alerting"
      BY <1>0, <3>4 DEF SettingsTypes
    <3> QED BY <3>1, <3>2, <3>3, <3>4 DEF Kinds
  <2> HIDE DEF next
  <2>4. /\ new \in Edits /\ new.step = "confirmed" /\ new.fd = 0 /\ new.kind = op
        /\ new.next = next
    BY <2>2, <2>3, NoEditType DEF NoEdit, Edits, EditSteps
  <2> HIDE DEF new
  <2>5. SettingsTypes'
    <3>1. edit' \in [Editors -> Edits] /\ \A f \in Editors : edit'[f].fd <= Len(inode)
      BY <1>0, <2>1, <2>4 DEF SettingsTypes
    <3>2. overlapped' \in BOOLEAN
      BY <1>0, <2>1 DEF SettingsTypes
    <3> QED BY <1>0, <2>1, <2>2, <3>1, <3>2 DEF SettingsTypes
  <2>6. ASSUME ~overlapped' PROVE OneAtATime'
    <3>1. ~overlapped /\ OneAtATime /\ \A f \in Editors : edit[f].step = "idle"
      BY <2>1, <2>6 DEF SettingsInv, Editing, At
    <3>2. edit'[e] = new /\ \A f \in Editors : f # e => edit'[f].step = "idle"
      BY <1>0, <2>1, <3>1 DEF SettingsTypes
    <3>3. inode[configFile] = Running1 /\ Running1' = Running1
      BY <2>1, <3>1 DEF OneAtATime, Running1
    <3>4. Alone(e)'
      BY <2>1, <2>3, <2>4, <3>2, <3>3 DEF Alone
    <3> QED BY <2>4, <3>2, <3>4 DEF OneAtATime
  <2> QED BY <2>5, <2>6 DEF SettingsInv
\* What follows about one editor: the others do nothing meanwhile, if it is alone.
<1>o. ASSUME NEW e \in Editors, edit[e].step # "idle", ~overlapped
      PROVE  /\ \A f \in Editors : f # e => edit[f].step = "idle"
             /\ Alone(e)
  BY <1>o DEF SettingsInv, OneAtATime
<1>e. ASSUME NEW e \in Editors, edit[e].step \in {"confirmed", "read", "open", "written", "clear"},
             edit' = [edit EXCEPT ![e] = NoEdit],
             UNCHANGED <<auth, alerting, edits, overlapped, configFile, configTmp, inode>>
      PROVE  SettingsInv'
  <2>1. SettingsTypes'
    <3>1. edit' \in [Editors -> Edits] /\ \A f \in Editors : edit'[f].fd <= Len(inode)
      BY <1>0, <1>e, NoEditType DEF SettingsTypes, NoEdit
    <3> QED BY <1>0, <1>e, <3>1 DEF SettingsTypes
  <2>2. ASSUME ~overlapped' PROVE OneAtATime'
    <3>1. /\ \A f \in Editors : f # e => edit[f].step = "idle"
          /\ inode[configFile] = Running1
      BY <1>e, <1>o, <2>2 DEF Alone
    <3>2. \A f \in Editors : edit'[f].step = "idle"
      BY <1>0, <1>e, <3>1 DEF SettingsTypes, NoEdit
    <3>3. inode'[configFile'] = Running1'
      BY <1>e, <3>1 DEF Running1
    <3> QED BY <3>2, <3>3 DEF OneAtATime
  <2> QED BY <2>1, <2>2 DEF SettingsInv
<1>2. ASSUME NEW e \in Editors, ConfirmEdit(e) PROVE SettingsInv'
  <2>1. /\ edit[e].step = "confirmed"
        /\ UNCHANGED <<auth, alerting, edits, overlapped, configFile, configTmp, inode>>
        /\ edit' = [edit EXCEPT ![e] = NoEdit] \/ edit' = [edit EXCEPT ![e].step = "read"]
    BY <1>2 DEF ConfirmEdit, At, EndEdit, MoveEdit, configDisk
  <2>2. CASE edit' = [edit EXCEPT ![e] = NoEdit]
    BY <1>e, <2>1, <2>2
  <2>3. CASE edit' = [edit EXCEPT ![e].step = "read"]
    <3>1. SettingsTypes'
      <4>1. [edit[e] EXCEPT !.step = "read"] \in Edits
        BY <1>0 DEF SettingsTypes, Edits, EditSteps
      <4>2. edit' \in [Editors -> Edits] /\ \A f \in Editors : edit'[f].fd <= Len(inode)
        BY <1>0, <2>3, <4>1 DEF SettingsTypes, Edits
      <4> QED BY <1>0, <2>1, <4>2 DEF SettingsTypes
    <3>2. ASSUME ~overlapped' PROVE OneAtATime'
      <4>1. (\A f \in Editors : f # e => edit[f].step = "idle") /\ Alone(e)
        BY <1>o, <2>1, <3>2
      <4>2. /\ edit'[e].step = "read" /\ edit'[e].kind = edit[e].kind /\ edit'[e].next = edit[e].next
            /\ edit'[e].fd = edit[e].fd
            /\ \A f \in Editors : f # e => edit'[f].step = "idle"
        BY <1>0, <2>3, <4>1 DEF SettingsTypes, Edits
      <4>3. Alone(e)'
        BY <2>1, <4>1, <4>2 DEF Alone, Running1
      <4> QED BY <4>2, <4>3 DEF OneAtATime
    <3> QED BY <3>1, <3>2 DEF SettingsInv
  <2> QED BY <2>1, <2>2, <2>3
<1>3. ASSUME NEW e \in Editors, ReadConfig(e) PROVE SettingsInv'
  <2> DEFINE content == inode[configFile]
             edited == Edited(content, edit[e].kind, edit[e].next, edit[e].value)
  <2>1. /\ edit[e].step = "read"
        /\ UNCHANGED <<auth, alerting, edits, overlapped, configFile, configTmp, inode>>
        /\ \/ edit' = [edit EXCEPT ![e] = NoEdit]
           \/ edit' = [edit EXCEPT ![e].step = "open", ![e].content = edited]
    BY <1>3 DEF ReadConfig, At, EndEdit, loginVars, configDisk
  <2>2. CASE edit' = [edit EXCEPT ![e] = NoEdit]
    BY <1>e, <2>1, <2>2
  <2>3. CASE edit' = [edit EXCEPT ![e].step = "open", ![e].content = edited]
    <3>1. edited \in Contents
      <4>1. content \in Contents /\ edit[e] \in Edits
        BY <1>0 DEF SettingsTypes
      <4> QED BY <4>1, EditedType DEF Edits
    <3>2. SettingsTypes'
      <4>1. [edit[e] EXCEPT !.step = "open", !.content = edited] \in Edits
        BY <1>0, <3>1 DEF SettingsTypes, Edits, EditSteps
      <4>2. edit' \in [Editors -> Edits] /\ \A f \in Editors : edit'[f].fd <= Len(inode)
        BY <1>0, <2>3, <4>1 DEF SettingsTypes, Edits
      <4> QED BY <1>0, <2>1, <4>2 DEF SettingsTypes
    <3>3. ASSUME ~overlapped' PROVE OneAtATime'
      <4>1. (\A f \in Editors : f # e => edit[f].step = "idle") /\ Alone(e)
        BY <1>o, <2>1, <3>3
      <4>2. /\ edit'[e].step = "open" /\ edit'[e].kind = edit[e].kind /\ edit'[e].next = edit[e].next
            /\ edit'[e].value = edit[e].value /\ edit'[e].fd = edit[e].fd
            /\ edit'[e].content = edited
            /\ \A f \in Editors : f # e => edit'[f].step = "idle"
        BY <1>0, <2>3, <4>1 DEF SettingsTypes, Edits
      <4>3. content = Running1 /\ Running1' = Running1
        BY <2>1, <4>1 DEF Alone, Running1
      <4>4. edited = Goal(e) /\ Goal(e)' = Goal(e)
        BY <4>2, <4>3 DEF Goal
      <4>5. Alone(e)'
        BY <2>1, <4>1, <4>2, <4>3, <4>4 DEF Alone
      <4> QED BY <4>2, <4>5 DEF OneAtATime
    <3> QED BY <3>2, <3>3 DEF SettingsInv
  <2> QED BY <2>1, <2>2, <2>3
<1>4. ASSUME NEW e \in Editors, OpenTmp(e) PROVE SettingsInv'
  <2> DEFINE fd == IF configTmp = 0 THEN Len(inode) + 1 ELSE configTmp
  <2>1. /\ edit[e].step = "open" /\ edit[e].fd = 0
        /\ UNCHANGED <<auth, alerting, edits, overlapped, configFile>>
        /\ inode' = IF configTmp = 0 THEN Append(inode, Partial) ELSE [inode EXCEPT ![fd] = Partial]
        /\ configTmp' = fd
        /\ edit' = [edit EXCEPT ![e].fd = fd]
    BY <1>4 DEF OpenTmp, At, loginVars
  <2>2. /\ inode' \in Seq(Contents) /\ Len(inode') >= Len(inode) /\ Len(inode) \in Nat
        /\ fd \in Nat /\ fd \in 1..Len(inode') /\ fd # configFile /\ configFile \in 1..Len(inode')
        /\ inode'[configFile] = inode[configFile]
    <3>1. CASE configTmp = 0
      BY <1>0, <2>1, <3>1, NoEditType DEF SettingsTypes
    <3>2. CASE configTmp # 0
      BY <1>0, <2>1, <3>2, NoEditType DEF SettingsTypes
    <3> QED BY <3>1, <3>2
  <2> HIDE DEF fd
  <2>3. SettingsTypes'
    <3>1. edit' \in [Editors -> Edits]
      BY <1>0, <2>1, <2>2 DEF SettingsTypes, Edits
    <3>2. \A f \in Editors : edit'[f].fd <= Len(inode')
      <4> SUFFICES ASSUME NEW f \in Editors PROVE edit'[f].fd <= Len(inode')
        OBVIOUS
      <4>1. edit[f].fd \in Nat /\ edit[f].fd <= Len(inode)
        BY <1>0 DEF SettingsTypes, Edits
      <4>2. edit'[f].fd = IF f = e THEN fd ELSE edit[f].fd
        BY <1>0, <2>1 DEF SettingsTypes, Edits
      <4> QED BY <2>2, <4>1, <4>2
    <3> QED BY <1>0, <2>1, <2>2, <3>1, <3>2 DEF SettingsTypes
  <2>4. ASSUME ~overlapped' PROVE OneAtATime'
    <3>1. (\A f \in Editors : f # e => edit[f].step = "idle") /\ Alone(e)
      BY <1>o, <2>1, <2>4
    <3>2. /\ edit'[e].step = "open" /\ edit'[e].kind = edit[e].kind /\ edit'[e].next = edit[e].next
          /\ edit'[e].value = edit[e].value /\ edit'[e].fd = fd
          /\ edit'[e].content = edit[e].content
          /\ \A f \in Editors : f # e => edit'[f].step = "idle"
      BY <1>0, <2>1, <3>1 DEF SettingsTypes, Edits
    <3>3. Running1' = Running1 /\ Goal(e)' = Goal(e)
      BY <2>1, <3>2 DEF Running1, Goal
    <3>4. Alone(e)'
      BY <2>1, <2>2, <3>1, <3>2, <3>3 DEF Alone
    <3> QED BY <3>2, <3>4 DEF OneAtATime
  <2> QED BY <2>3, <2>4 DEF SettingsInv
<1>5. ASSUME NEW e \in Editors, WriteTmp(e) PROVE SettingsInv'
  <2> DEFINE fd == edit[e].fd
  <2>1. /\ edit[e].step = "open" /\ fd # 0
        /\ UNCHANGED <<auth, alerting, edits, overlapped, configFile, configTmp>>
        /\ inode' = [inode EXCEPT ![fd] = edit[e].content]
        /\ edit' = [edit EXCEPT ![e].step = "written"]
    BY <1>5 DEF WriteTmp, At, MoveEdit, loginVars
  <2>2. fd \in 1..Len(inode) /\ edit[e].content \in Contents
    BY <1>0, <2>1 DEF SettingsTypes, Edits
  <2> HIDE DEF fd
  <2>3. /\ inode' \in Seq(Contents) /\ Len(inode') = Len(inode)
        /\ inode'[fd] = edit[e].content
        /\ \A i \in 1..Len(inode) : i # fd => inode'[i] = inode[i]
    BY <1>0, <2>1, <2>2 DEF SettingsTypes
  <2>4. SettingsTypes'
    <3>1. edit' \in [Editors -> Edits] /\ \A f \in Editors : edit'[f].fd <= Len(inode)
      <4>1. [edit[e] EXCEPT !.step = "written"] \in Edits
        BY <1>0 DEF SettingsTypes, Edits, EditSteps
      <4> QED BY <1>0, <2>1, <4>1 DEF SettingsTypes, Edits
    <3> QED BY <1>0, <2>1, <2>3, <3>1 DEF SettingsTypes
  <2>5. ASSUME ~overlapped' PROVE OneAtATime'
    <3>1. (\A f \in Editors : f # e => edit[f].step = "idle") /\ Alone(e)
      BY <1>o, <2>1, <2>5
    <3>2. /\ edit'[e].step = "written" /\ edit'[e].kind = edit[e].kind
          /\ edit'[e].next = edit[e].next
          /\ edit'[e].value = edit[e].value /\ edit'[e].fd = fd
          /\ edit'[e].content = edit[e].content
          /\ \A f \in Editors : f # e => edit'[f].step = "idle"
      BY <1>0, <2>1, <3>1 DEF SettingsTypes, Edits, fd
    <3>3. Running1' = Running1 /\ Goal(e)' = Goal(e)
      BY <2>1, <3>2 DEF Running1, Goal
    <3>4. fd = configTmp /\ fd # configFile /\ configFile \in 1..Len(inode)
      BY <1>0, <2>1, <3>1 DEF Alone, SettingsTypes, fd
    <3>5. Alone(e)'
      BY <2>1, <2>3, <3>1, <3>2, <3>3, <3>4 DEF Alone
    <3> QED BY <3>2, <3>5 DEF OneAtATime
  <2> QED BY <2>4, <2>5 DEF SettingsInv
<1>6. ASSUME NEW e \in Editors, EditFails(e) PROVE SettingsInv'
  BY <1>6, <1>e DEF EditFails, EndEdit, loginVars, configDisk
<1>7. ASSUME NEW e \in Editors, RenameTmp(e) PROVE SettingsInv'
  <2>1. /\ edit[e].step = "written"
        /\ UNCHANGED <<auth, alerting, edits, overlapped, inode>>
        /\ \/ /\ edit' = [edit EXCEPT ![e] = NoEdit]
              /\ UNCHANGED <<configFile, configTmp>>
           \/ /\ edit' = [edit EXCEPT ![e].step = "saved"]
              /\ configTmp # 0 /\ configFile' = configTmp /\ configTmp' = 0
    BY <1>7 DEF RenameTmp, At, EndEdit, MoveEdit, loginVars, configDisk
  <2>2. CASE edit' = [edit EXCEPT ![e] = NoEdit] /\ UNCHANGED <<configFile, configTmp>>
    BY <1>e, <2>1, <2>2
  <2>3. CASE /\ edit' = [edit EXCEPT ![e].step = "saved"]
             /\ configTmp # 0 /\ configFile' = configTmp /\ configTmp' = 0
    <3>1. SettingsTypes'
      <4>1. [edit[e] EXCEPT !.step = "saved"] \in Edits
        BY <1>0 DEF SettingsTypes, Edits, EditSteps
      <4>2. edit' \in [Editors -> Edits] /\ \A f \in Editors : edit'[f].fd <= Len(inode)
        BY <1>0, <2>3, <4>1 DEF SettingsTypes, Edits
      <4> QED BY <1>0, <2>1, <2>3, <4>2 DEF SettingsTypes
    <3>2. ASSUME ~overlapped' PROVE OneAtATime'
      <4>1. (\A f \in Editors : f # e => edit[f].step = "idle") /\ Alone(e)
        BY <1>o, <2>1, <3>2
      <4>2. /\ edit'[e].step = "saved" /\ edit'[e].kind = edit[e].kind
            /\ edit'[e].next = edit[e].next /\ edit'[e].value = edit[e].value
            /\ \A f \in Editors : f # e => edit'[f].step = "idle"
        BY <1>0, <2>3, <4>1 DEF SettingsTypes, Edits
      <4>3. Running1' = Running1 /\ Goal(e)' = Goal(e)
        BY <2>1, <4>2 DEF Running1, Goal
      <4>4. Alone(e)'
        BY <2>1, <2>3, <4>1, <4>2, <4>3 DEF Alone
      <4> QED BY <4>2, <4>4 DEF OneAtATime
    <3> QED BY <3>1, <3>2 DEF SettingsInv
  <2> QED BY <2>1, <2>2, <2>3
<1>8. ASSUME NEW e \in Editors, ApplyEdit(e) PROVE SettingsInv'
  <2>1. /\ edit[e].step = "saved"
        /\ UNCHANGED <<edits, overlapped, configFile, configTmp, inode>>
        /\ \/ /\ edit[e].kind = "alerting" /\ alerting' = edit[e].value /\ UNCHANGED auth
              /\ edit' = [edit EXCEPT ![e] = NoEdit]
           \/ /\ edit[e].kind # "alerting" /\ auth' = edit[e].next /\ UNCHANGED alerting
              /\ edit' = [edit EXCEPT ![e].step = "clear"]
    BY <1>8 DEF ApplyEdit, At, EndEdit, MoveEdit, configDisk
  <2>2. edit[e] \in Edits /\ edit[e].kind \in Kinds /\ edit[e].next \in Auths
        /\ edit[e].value \in 0..MaxEdits
    BY <1>0 DEF SettingsTypes, Edits
  <2>3. CASE /\ edit[e].kind = "alerting" /\ alerting' = edit[e].value /\ UNCHANGED auth
             /\ edit' = [edit EXCEPT ![e] = NoEdit]
    <3>1. SettingsTypes'
      <4>1. edit' \in [Editors -> Edits] /\ \A f \in Editors : edit'[f].fd <= Len(inode)
        BY <1>0, <2>3, NoEditType DEF SettingsTypes, NoEdit
      <4> QED BY <1>0, <2>1, <2>2, <2>3, <4>1 DEF SettingsTypes
    <3>2. ASSUME ~overlapped' PROVE OneAtATime'
      <4>1. (\A f \in Editors : f # e => edit[f].step = "idle") /\ Alone(e)
        BY <1>o, <2>1, <3>2
      <4>2. \A f \in Editors : edit'[f].step = "idle"
        BY <1>0, <2>3, <4>1 DEF SettingsTypes, NoEdit
      <4>3. inode[configFile] = [Running1 EXCEPT !.alerting = edit[e].value]
        BY <1>r, <2>1, <2>3, <4>1, EditedIs DEF Alone, Goal
      <4>4. inode[configFile] = Running1'
        BY <2>3, <4>3 DEF Running1
      <4> QED BY <2>1, <4>2, <4>3, <4>4 DEF OneAtATime
    <3> QED BY <3>1, <3>2 DEF SettingsInv
  <2>4. CASE /\ edit[e].kind # "alerting" /\ auth' = edit[e].next /\ UNCHANGED alerting
             /\ edit' = [edit EXCEPT ![e].step = "clear"]
    <3>1. SettingsTypes'
      <4>1. [edit[e] EXCEPT !.step = "clear"] \in Edits
        BY <2>2 DEF Edits, EditSteps
      <4>2. edit' \in [Editors -> Edits] /\ \A f \in Editors : edit'[f].fd <= Len(inode)
        BY <1>0, <2>4, <4>1 DEF SettingsTypes, Edits
      <4> QED BY <1>0, <2>1, <2>2, <2>4, <4>2 DEF SettingsTypes
    <3>2. ASSUME ~overlapped' PROVE OneAtATime'
      <4>1. (\A f \in Editors : f # e => edit[f].step = "idle") /\ Alone(e)
        BY <1>o, <2>1, <3>2
      <4>2. /\ edit'[e].step = "clear"
            /\ \A f \in Editors : f # e => edit'[f].step = "idle"
        BY <1>0, <2>4, <4>1 DEF SettingsTypes, Edits
      <4>3. inode[configFile] = Running1'
        <5>1. inode[configFile] = Goal(e)
          BY <2>1, <4>1 DEF Alone
        <5>2. CASE edit[e].kind = "password"
          <6>1. Goal(e) = [Running1 EXCEPT !.password = edit[e].next.password]
            BY <1>r, <5>2, EditedIs DEF Goal
          <6>2. edit[e].next.secret = auth.secret
            BY <2>1, <4>1, <5>2 DEF Alone
          <6> QED BY <2>4, <5>1, <6>1, <6>2 DEF Running1
        <5>3. CASE edit[e].kind \in {"enable", "disable"}
          <6>1. Goal(e) = [Running1 EXCEPT !.secret = edit[e].next.secret]
            BY <1>r, <5>3, EditedIs DEF Goal
          <6>2. edit[e].next.password = auth.password
            BY <2>1, <4>1, <5>3 DEF Alone
          <6> QED BY <2>4, <5>1, <6>1, <6>2 DEF Running1
        <5> QED BY <2>2, <2>4, <5>2, <5>3 DEF Kinds
      <4>4. Alone(e)'
        BY <2>1, <4>2, <4>3 DEF Alone
      <4> QED BY <4>2, <4>4 DEF OneAtATime
    <3> QED BY <3>1, <3>2 DEF SettingsInv
  <2> QED BY <2>1, <2>3, <2>4
<1>9. ASSUME NEW e \in Editors, ClearSessions(e) PROVE SettingsInv'
  BY <1>9, <1>e DEF ClearSessions, At, EndEdit, configDisk
<1>10. CASE Restart
  <2> DEFINE content == inode[configFile]
  <2>1. /\ content.whole
        /\ auth' = [password |-> content.password, secret |-> content.secret]
        /\ alerting' = content.alerting /\ edit' = [e \in Editors |-> NoEdit]
        /\ overlapped' = FALSE /\ UNCHANGED <<edits, configFile, configTmp, inode>>
    BY <1>10 DEF Restart, configDisk
  <2>2. content \in Contents
    BY <1>0 DEF SettingsTypes
  <2>3. /\ auth' \in Auths /\ alerting' \in 0..MaxEdits
        /\ content = [password |-> content.password, secret |-> content.secret,
                      alerting |-> content.alerting, whole |-> TRUE]
    BY <2>1, <2>2 DEF Contents, Auths
  <2>4. edit' \in [Editors -> Edits] /\ \A f \in Editors : edit'[f].fd = 0 /\ edit'[f].step = "idle"
    BY <2>1, NoEditType DEF NoEdit
  <2>5. content = Running1' /\ overlapped' \in BOOLEAN
    BY <2>1, <2>3 DEF Running1
  <2>6. SettingsTypes'
    <3>1. \A f \in Editors : edit'[f].fd <= Len(inode)
      BY <1>0, <2>4 DEF SettingsTypes
    <3> QED BY <1>0, <2>1, <2>3, <2>4, <2>5, <3>1 DEF SettingsTypes
  <2>7. OneAtATime'
    BY <2>1, <2>4, <2>5 DEF OneAtATime
  <2> QED BY <2>6, <2>7 DEF SettingsInv
<1> QED BY <1>1, <1>2, <1>3, <1>4, <1>5, <1>6, <1>7, <1>8, <1>9, <1>10 DEF EditNext

LEMMA SettingsInvariant == Spec => []SettingsInv
<1>1. SettingsInv /\ [Next]_vars => SettingsInv'
  <2> SUFFICES ASSUME SettingsInv, [Next]_vars PROVE SettingsInv'
    OBVIOUS
  <2>1. CASE EditNext
    BY <2>1, EditStep
  <2>2. CASE LoginNext /\ UNCHANGED settingsVars
    BY <2>2, LoginKeepsAuth, SettingsKept
  <2>3. CASE UNCHANGED panelVars
    BY <2>3, SettingsKept DEF panelVars, loginVars
  <2> QED BY <2>1, <2>2, <2>3, PanelSteps
<1> QED BY <1>1, InitSettings, PTL DEF Spec

\* When no settings request is under way and none overlapped since the last start, what
\* the server runs with is what server.toml says, whatever failed or crashed half way
\* (handlers/settings).
THEOREM SettingsFollowFile == Spec => []RuntimeFollowsFile
<1>1. SettingsInv => RuntimeFollowsFile
  <2> SUFFICES ASSUME SettingsInv, ~overlapped, Editing = {} PROVE inode[configFile] = Running1
    BY DEF RuntimeFollowsFile, RuntimeMatchesFile, Running1
  <2>1. \A e \in Editors : edit[e].step = "idle"
    BY DEF Editing, At
  <2> QED BY <2>1 DEF SettingsInv, OneAtATime
<1> QED BY <1>1, SettingsInvariant, PTL

(***************************************************************************)
(* Steps of the one-time code.                                             *)
(***************************************************************************)

TabRequests == [step : TabSteps, ok : BOOLEAN, sensitive : BOOLEAN, second : BOOLEAN, code : Nat]

ClockTypes == clock \in Nat /\ setback \in 0..MaxSetback
TabTypes == tab \in [Tabs -> TabRequests]

\* A code that waits to be marked is not of the distant future.
CodesAreNear == \A t \in Tabs : tab[t].step = "mark" => tab[t].code <= clock + MaxSetback

\* A spent step is one the wall clock cannot show again, or is still known, and will be
\* until the wall clock cannot show it again.
SpentIsKnown ==
  \A n \in spent :
    /\ n \in Nat
    /\ n < clock \/ \E u \in usedSteps : /\ u.code = n /\ u.expires \in Nat
                                         /\ u.expires > clock /\ u.expires > n

\* The inductive invariant of the second factor.
SpentInv == ClockTypes /\ TabTypes /\ CodesAreNear /\ SpentIsKnown

LEMMA WallIs == ClockTypes => Wall \in Nat /\ Wall >= clock /\ Wall <= clock + MaxSetback
BY LoginAssumption DEF ClockTypes, Wall

LEMMA NoRequestType == NoRequest \in TabRequests /\ NoRequest.step = "idle"
BY DEF NoRequest, TabRequests, TabSteps

LEMMA StepMarked ==
  ASSUME SpentInv, NEW n \in Nat, n <= clock + MaxSetback, MarkUsed(n), UNCHANGED clock
  PROVE  SpentIsKnown'
<1>1. /\ spent' = spent \cup {n}
      /\ usedSteps' = Unexpired \cup {[code |-> n, expires |-> clock + ReplayRetention]}
      /\ clock \in Nat
  BY DEF MarkUsed, SpentInv, ClockTypes
<1> DEFINE new == [code |-> n, expires |-> clock + ReplayRetention]
<1>2. new \in usedSteps' /\ new.code = n /\ new.expires \in Nat /\ new.expires > clock /\ new.expires > n
  BY <1>1, LoginAssumption
<1>3. ASSUME NEW m \in spent
      PROVE  /\ m \in Nat
             /\ m < clock \/ \E u \in usedSteps' : /\ u.code = m /\ u.expires \in Nat
                                                   /\ u.expires > clock /\ u.expires > m
  BY <1>1 DEF SpentInv, SpentIsKnown, Unexpired
<1> HIDE DEF new
<1> QED BY <1>1, <1>2, <1>3 DEF SpentIsKnown

\* Steps that mark nothing.
LEMMA StepsKept ==
  ASSUME SpentInv, UNCHANGED <<usedSteps, spent>>, clock' \in {clock, clock + 1}
  PROVE  SpentIsKnown'
<1>1. clock \in Nat
  BY DEF SpentInv, ClockTypes
<1> SUFFICES ASSUME NEW n \in spent
             PROVE  /\ n \in Nat
                    /\ n < clock' \/ \E u \in usedSteps : /\ u.code = n /\ u.expires \in Nat
                                                          /\ u.expires > clock' /\ u.expires > n
  BY DEF SpentIsKnown
<1>2. n \in Nat
  BY DEF SpentInv, SpentIsKnown
<1>3. CASE n < clock
  BY <1>1, <1>2, <1>3
<1>4. ASSUME NEW u \in usedSteps, u.code = n, u.expires \in Nat, u.expires > clock, u.expires > n
      PROVE  n < clock' \/ u.expires > clock'
  BY <1>1, <1>2, <1>4
<1> QED BY <1>2, <1>3, <1>4 DEF SpentInv, SpentIsKnown

\* What a step of the login does to the requests of the tabs: one of them moves, never
\* to "mark" but by a code that was not spent.
Moves(t, request) ==
  /\ request \in TabRequests
  /\ request.step = "mark" => request.code = Wall /\ ~StepUsed(Wall)
  /\ tab' = [tab EXCEPT ![t] = request]

LEMMA TabsMove ==
  TabTypes /\ ClockTypes /\ LoginNext =>
    UNCHANGED tab \/ \E t \in Tabs : \E request : Moves(t, request)
<1> SUFFICES ASSUME TabTypes, ClockTypes, LoginNext
             PROVE  UNCHANGED tab \/ \E t \in Tabs : \E request : Moves(t, request)
  OBVIOUS
<1>0. \A t \in Tabs : tab[t] \in TabRequests
  BY DEF TabTypes
<1>1. ASSUME NEW t \in Tabs, tab' = [tab EXCEPT ![t] = NoRequest]
      PROVE  Moves(t, NoRequest)
  BY <1>1, NoRequestType DEF Moves
<1>2. ASSUME NEW t \in Tabs, NEW to \in TabSteps \ {"mark"}, tab' = [tab EXCEPT ![t].step = to]
      PROVE  Moves(t, [tab[t] EXCEPT !.step = to])
  <2>1. [tab[t] EXCEPT !.step = to] \in TabRequests /\ [tab[t] EXCEPT !.step = to].step = to
    BY <1>0 DEF TabRequests
  <2>2. tab' = [tab EXCEPT ![t] = [tab[t] EXCEPT !.step = to]]
    BY <1>2
  <2> QED BY <2>1, <2>2 DEF Moves
<1>3. ASSUME NEW t \in Tabs, NEW ok \in BOOLEAN, NEW sensitive \in BOOLEAN, Judge(t, ok, sensitive)
      PROVE  \E request : Moves(t, request)
  <2> DEFINE request == [NoRequest EXCEPT !.step = "judged", !.ok = ok,
                                          !.sensitive = sensitive, !.second = auth.secret # 0]
  <2>1. tab' = [tab EXCEPT ![t] = request]
    BY <1>3 DEF Judge
  <2>2. request \in TabRequests /\ request.step = "judged"
    <3>1. (auth.secret # 0) \in BOOLEAN
      OBVIOUS
    <3> QED BY <3>1, NoRequestType DEF TabRequests, TabSteps
  <2> HIDE DEF request
  <2> QED BY <2>1, <2>2 DEF Moves
<1>4. ASSUME NEW t \in Tabs, CodeAccepted(t) PROVE \E request : Moves(t, request)
  <2> DEFINE request == [tab[t] EXCEPT !.step = "mark", !.code = Wall]
  <2>1. tab' = [tab EXCEPT ![t] = request] /\ ~StepUsed(Wall)
    BY <1>4 DEF CodeAccepted
  <2>2. request \in TabRequests /\ request.code = Wall
    BY <1>0, WallIs DEF TabRequests, TabSteps
  <2> HIDE DEF request
  <2> QED BY <2>1, <2>2 DEF Moves
<1>5. ASSUME NEW t \in Tabs, CheckLimits(t) PROVE UNCHANGED tab \/ \E request : Moves(t, request)
  <2>1. \/ tab' = [tab EXCEPT ![t] = NoRequest]
        \/ tab' = [tab EXCEPT ![t].step = "limited"]
    BY <1>5 DEF CheckLimits, EndRequest
  <2> QED BY <1>1, <1>2, <2>1 DEF TabSteps
<1>6. ASSUME NEW t \in Tabs, BeginVerify(t) PROVE UNCHANGED tab \/ \E request : Moves(t, request)
  <2>1. UNCHANGED tab \/ tab' = [tab EXCEPT ![t].step = "code"]
    BY <1>6 DEF BeginVerify
  <2> QED BY <1>2, <2>1 DEF TabSteps
<1>7. ASSUME NEW t \in Tabs, Conclude(t) \/ CodeRefused(t) \/ FinishVerify(t)
      PROVE  \E request : Moves(t, request)
  BY <1>1, <1>7 DEF Conclude, CodeRefused, FinishVerify, EndRequest
<1>8. ASSUME NEW t \in Tabs, MarkStep(t) \/ OpenSession(t) PROVE \E request : Moves(t, request)
  <2>1. \E to \in TabSteps \ {"mark"} : tab' = [tab EXCEPT ![t].step = to]
    BY <1>8 DEF MarkStep, OpenSession, TabSteps
  <2> QED BY <1>2, <2>1
<1>9. ASSUME NEW t \in Tabs, Logout(t) PROVE UNCHANGED tab
  BY <1>9 DEF Logout
<1>10. CASE ClockTicks \/ WallSetBack
  BY <1>10 DEF ClockTicks, WallSetBack
<1> QED BY <1>3, <1>4, <1>5, <1>6, <1>7, <1>8, <1>9, <1>10 DEF LoginNext

LEMMA InitSpent == Init => SpentInv
<1> SUFFICES ASSUME Init PROVE SpentInv
  OBVIOUS
<1>1. clock = 0 /\ setback = 0 /\ spent = {} /\ tab = [t \in Tabs |-> NoRequest]
  BY DEF Init, LoginInit
<1>2. ClockTypes /\ TabTypes
  BY <1>1, NoRequestType, LoginAssumption DEF ClockTypes, TabTypes
<1>3. CodesAreNear /\ SpentIsKnown
  BY <1>1, NoRequestType DEF CodesAreNear, SpentIsKnown
<1> QED BY <1>2, <1>3 DEF SpentInv

LEMMA LoginSpent == SpentInv /\ LoginNext => SpentInv'
<1> SUFFICES ASSUME SpentInv, LoginNext PROVE SpentInv'
  OBVIOUS
<1>0. TabTypes /\ ClockTypes /\ CodesAreNear /\ clock \in Nat /\ setback \in 0..MaxSetback
  BY DEF SpentInv, ClockTypes
<1>1. ClockTypes' /\ clock' \in {clock, clock + 1}
  <2>1. \/ UNCHANGED <<clock, setback>> \/ ClockTicks \/ WallSetBack
    BY DEF LoginNext, Judge, CheckLimits, Conclude, BeginVerify, CodeAccepted, CodeRefused,
           MarkStep, OpenSession, FinishVerify, Logout, loginClock
  <2>2. CASE ClockTicks
    BY <1>0, <2>2, LoginAssumption DEF ClockTicks, ClockTypes
  <2>3. CASE WallSetBack
    BY <1>0, <2>3, LoginAssumption DEF WallSetBack, ClockTypes
  <2>4. CASE UNCHANGED <<clock, setback>>
    BY <1>0, <2>4 DEF ClockTypes
  <2> QED BY <2>1, <2>2, <2>3, <2>4
<1>2. TabTypes' /\ CodesAreNear'
  <2>1. CASE UNCHANGED tab
    BY <1>0, <1>1, <2>1, LoginAssumption DEF TabTypes, CodesAreNear, TabRequests
  <2>2. ASSUME NEW t \in Tabs, NEW request, Moves(t, request) PROVE TabTypes' /\ CodesAreNear'
    <3>1. TabTypes'
      BY <1>0, <2>2 DEF Moves, TabTypes
    <3>2. \A x \in Tabs : tab'[x].step = "mark" => tab'[x].code <= clock' + MaxSetback
      <4> SUFFICES ASSUME NEW x \in Tabs, tab'[x].step = "mark"
                   PROVE  tab'[x].code <= clock' + MaxSetback
        OBVIOUS
      <4>1. tab'[x].code \in Nat
        BY <3>1 DEF TabTypes, TabRequests
      <4>2. tab'[x].code <= clock + MaxSetback
        <5>1. CASE x = t
          BY <1>0, <2>2, <5>1, WallIs DEF Moves, TabTypes
        <5>2. CASE x # t
          BY <1>0, <2>2, <5>2 DEF Moves, TabTypes, CodesAreNear
        <5> QED BY <5>1, <5>2
      <4> QED BY <1>0, <1>1, <4>1, <4>2, LoginAssumption
    <3> QED BY <3>1, <3>2 DEF CodesAreNear
  <2> QED BY <1>0, <2>1, <2>2, TabsMove
<1>3. SpentIsKnown'
  <2>1. ASSUME NEW t \in Tabs, MarkStep(t) PROVE SpentIsKnown'
    <3>1. tab[t].step = "mark" /\ MarkUsed(tab[t].code) /\ UNCHANGED clock
      BY <2>1 DEF MarkStep, InStep, loginClock
    <3>2. tab[t].code \in Nat
      BY <1>0 DEF TabTypes, TabRequests
    <3> QED BY <1>0, <3>1, <3>2, StepMarked DEF CodesAreNear
  <2>2. CASE \A t \in Tabs : ~MarkStep(t)
    <3>1. UNCHANGED <<usedSteps, spent>>
      BY <2>2 DEF LoginNext, Judge, CheckLimits, Conclude, BeginVerify, CodeAccepted, CodeRefused,
                  OpenSession, FinishVerify, Logout, ClockTicks, WallSetBack, sessionStore
    <3> QED BY <1>1, <3>1, StepsKept
  <2> QED BY <2>1, <2>2
<1> QED BY <1>1, <1>2, <1>3 DEF SpentInv

LEMMA EditSpent == SpentInv /\ EditNext => SpentInv'
<1> SUFFICES ASSUME SpentInv, EditNext PROVE SpentInv'
  OBVIOUS
<1>0. TabTypes /\ ClockTypes /\ CodesAreNear /\ clock \in Nat
  BY DEF SpentInv, ClockTypes
<1>1. ASSUME UNCHANGED <<clock, setback, tab>>, SpentIsKnown' PROVE SpentInv'
  BY <1>0, <1>1 DEF SpentInv, TabTypes, ClockTypes, CodesAreNear
<1>2. ASSUME UNCHANGED <<clock, setback, tab, usedSteps, spent>> PROVE SpentInv'
  BY <1>0, <1>1, <1>2, StepsKept
<1>3. ASSUME NEW e \in Editors, ConfirmEdit(e) PROVE SpentInv'
  <2>1. UNCHANGED <<clock, setback, tab>> /\ (MarkUsed(Wall) \/ UNCHANGED <<usedSteps, spent>>)
    BY <1>3 DEF ConfirmEdit, loginClock
  <2>2. CASE MarkUsed(Wall)
    BY <1>0, <1>1, <2>1, <2>2, WallIs, StepMarked
  <2> QED BY <1>2, <2>1, <2>2
<1>4. CASE Restart
  <2>1. UNCHANGED <<clock, setback>> /\ spent' = {} /\ tab' = [t \in Tabs |-> NoRequest]
    BY <1>4 DEF Restart, loginClock
  <2>2. ClockTypes' /\ TabTypes'
    BY <1>0, <2>1, NoRequestType DEF ClockTypes, TabTypes
  <2>3. CodesAreNear' /\ SpentIsKnown'
    BY <2>1, NoRequestType DEF CodesAreNear, SpentIsKnown
  <2> QED BY <2>2, <2>3 DEF SpentInv
<1>5. ASSUME NEW e \in Editors, NEW op \in Kinds, BeginEdit(e, op) PROVE SpentInv'
  BY <1>2, <1>5 DEF BeginEdit, loginVars, loginClock, sessionStore
<1>6. ASSUME NEW e \in Editors,
             ReadConfig(e) \/ OpenTmp(e) \/ WriteTmp(e) \/ EditFails(e) \/ RenameTmp(e)
               \/ ApplyEdit(e) \/ ClearSessions(e)
      PROVE  SpentInv'
  BY <1>2, <1>6 DEF ReadConfig, OpenTmp, WriteTmp, EditFails, RenameTmp, ApplyEdit, ClearSessions,
                    loginVars, loginClock, sessionStore
<1> QED BY <1>3, <1>4, <1>5, <1>6 DEF EditNext

LEMMA SpentInvariant == Spec => []SpentInv
<1>1. SpentInv /\ [Next]_vars => SpentInv'
  <2> SUFFICES ASSUME SpentInv, [Next]_vars PROVE SpentInv'
    OBVIOUS
  <2>1. CASE EditNext
    BY <2>1, EditSpent
  <2>2. CASE LoginNext /\ UNCHANGED settingsVars
    BY <2>2, LoginSpent
  <2>3. CASE UNCHANGED panelVars
    BY <2>3 DEF panelVars, loginVars, loginClock, sessionStore, SpentInv, ClockTypes, TabTypes,
                CodesAreNear, SpentIsKnown
  <2> QED BY <2>1, <2>2, <2>3, PanelSteps
<1> QED BY <1>1, InitSpent, PTL DEF Spec

\* A step of the one-time code that was marked as used before a verification looks at it
\* is refused, however the wall clock is set back within the bound that the retention
\* exceeds (is_totp_step_used, prune_expired_sessions).
THEOREM SpentStepsRefused == Spec => SpentStepsAreRefused
<1> DEFINE A == \A t \in Tabs : tab[t].step = "code" /\ tab'[t].step = "mark" =>
                                  tab'[t].code \notin spent
<1>1. SpentInv /\ [Next]_vars => [A]_loginVars
  <2> SUFFICES ASSUME SpentInv, [Next]_vars, NEW t \in Tabs, tab[t].step = "code",
                      tab'[t].step = "mark"
               PROVE  tab'[t].code \notin spent
    OBVIOUS
  <2>1. LoginNext
    <3>1. tab' # tab
      BY DEF SpentInv, TabTypes, TabRequests
    <3>2. ~UNCHANGED panelVars
      BY <3>1 DEF panelVars, loginVars
    <3>3. ~EditNext
      <4>1. EditNext => UNCHANGED tab \/ tab' = [x \in Tabs |-> NoRequest]
        BY DEF EditNext, BeginEdit, ConfirmEdit, ReadConfig, OpenTmp, WriteTmp, EditFails, RenameTmp,
               ApplyEdit, ClearSessions, Restart, loginVars
      <4> QED BY <3>1, <4>1, NoRequestType
    <3> QED BY <3>2, <3>3, PanelSteps
  <2>2. PICK x \in Tabs : \E request : Moves(x, request)
    BY <2>1, TabsMove DEF SpentInv
  <2>3. tab'[t].code = Wall /\ ~StepUsed(Wall)
    BY <2>2 DEF Moves, SpentInv, TabTypes
  <2>4. ~StepUsed(Wall) /\ Wall >= clock /\ Wall \in Nat /\ clock \in Nat
    BY <2>3, WallIs DEF SpentInv, ClockTypes
  <2> QED BY <2>3, <2>4 DEF SpentInv, SpentIsKnown, StepUsed
<1>2. Spec => [][A]_loginVars
  BY <1>1, SpentInvariant, PTL DEF Spec
<1> QED BY <1>2 DEF SpentStepsAreRefused

(***************************************************************************)
(* Types of the login.                                                     *)
(***************************************************************************)

Pendings == [expires : Nat, wrong : 0..MaxWrongCodes - 1]
UsedRecords == [code : Nat, expires : Nat]

StoreTypes ==
  /\ clock \in 0..MaxClock /\ requests \in 0..MaxRequests
  /\ pending \in [Tabs -> Pendings] /\ authenticated \in [Tabs -> Nat]
  /\ \A u \in usedSteps : u \in UsedRecords

\* The three tables of failures are within their limits.
TablesFit ==
  /\ FitsTable(loginFailures, clock) /\ FitsTable(sensitiveFailures, clock)
  /\ FitsTable(verifyFailures, clock)

\* The inductive invariant of the types of the login, beside SpentInv.
LoginInv == StoreTypes /\ TablesFit

LEMMA LoginBounds ==
  /\ PendingLife \in Nat /\ SessionLife \in Nat /\ MaxWrongCodes \in Nat \ {0}
  /\ MaxSetback \in Nat /\ MaxClock \in Nat /\ MaxRequests \in Nat /\ ReplayRetention \in Nat
  /\ Browser \in Clients
BY LoginAssumption

LEMMA NoPendingType == NoPending \in Pendings
<1>1. 0 \in Nat /\ 0 \in 0..MaxWrongCodes - 1
  BY LoginBounds
<1> QED BY <1>1 DEF NoPending, Pendings

LEMMA InitLogin == Init => LoginInv
<1> SUFFICES ASSUME Init PROVE LoginInv
  OBVIOUS
<1>1. LoginInit
  BY DEF Init
<1>2. StoreTypes
  BY <1>1, NoPendingType, LoginBounds DEF LoginInit, StoreTypes
<1>3. TablesFit
  BY <1>1, EmptyFits DEF LoginInit, TablesFit
<1> QED BY <1>2, <1>3 DEF LoginInv

LEMMA ClockIs == StoreTypes => clock \in Nat /\ requests \in Nat
BY LoginBounds DEF StoreTypes

\* What the operations of the table make of it fits the limits.
LEMMA FailureStep ==
  ASSUME NEW now \in Nat, NEW table, FitsTable(table, now)
  PROVE  /\ FitsTable(Checked(table, Browser, now), now)
         /\ FitsTable(Cleared(table, Browser), now)
         /\ FitsTable(WithFailure(table, Browser, now), now)
<1>1. Browser \in Clients
  BY LoginBounds
<1>2. FitsTable(Checked(table, Browser, now), now)
  BY <1>1, CheckedIs
<1>3. FitsTable(Cleared(table, Browser), now)
  BY <1>1, ClearedIs
<1>4. FitsTable(WithFailure(table, Browser, now), now)
  BY <1>1, WithFailureIs
<1> QED BY <1>2, <1>3, <1>4

\* A step that marks a one-time code keeps the used ones typed.
LEMMA MarkTyped ==
  ASSUME StoreTypes, NEW n \in Nat, MarkUsed(n)
  PROVE  \A u \in usedSteps' : u \in UsedRecords
<1>1. clock + ReplayRetention \in Nat
  BY ClockIs, LoginBounds
<1>2. [code |-> n, expires |-> clock + ReplayRetention] \in UsedRecords
  BY <1>1 DEF UsedRecords
<1> QED BY <1>2 DEF MarkUsed, Unexpired, StoreTypes

LEMMA LoginSteps == SpentInv /\ LoginInv /\ LoginNext => LoginInv'
<1> SUFFICES ASSUME SpentInv, LoginInv, LoginNext PROVE LoginInv'
  OBVIOUS
<1>0. StoreTypes /\ TablesFit /\ TabTypes
  BY DEF LoginInv, SpentInv
<1>1. clock \in Nat /\ requests \in Nat /\ requests <= MaxRequests
  BY <1>0, ClockIs, LoginBounds DEF StoreTypes
<1>2. ASSUME NEW t \in Tabs, Request(t) PROVE requests' \in 0..MaxRequests
  BY <1>1, <1>2, LoginBounds DEF Request
<1>3. ASSUME UNCHANGED <<clock, requests>>, pending' \in [Tabs -> Pendings],
             authenticated' \in [Tabs -> Nat], \A u \in usedSteps' : u \in UsedRecords
      PROVE  StoreTypes'
  BY <1>0, <1>3 DEF StoreTypes
<1>4. ASSUME UNCHANGED <<clock, loginFailures, sensitiveFailures, verifyFailures>>
      PROVE  TablesFit'
  BY <1>0, <1>4 DEF TablesFit
<1>5. pending \in [Tabs -> Pendings] /\ authenticated \in [Tabs -> Nat]
      /\ \A u \in usedSteps : u \in UsedRecords
  BY <1>0 DEF StoreTypes
<1>6. clock + PendingLife \in Nat /\ clock + SessionLife \in Nat /\ 0 \in Nat
  BY <1>1, LoginBounds
<1>7. FitsTable(loginFailures, clock) /\ FitsTable(sensitiveFailures, clock)
      /\ FitsTable(verifyFailures, clock)
  BY <1>0 DEF TablesFit
<1>8. ASSUME NEW t \in Tabs, NEW ok \in BOOLEAN, NEW sensitive \in BOOLEAN, Judge(t, ok, sensitive)
      PROVE  LoginInv'
  <2>1. Request(t) /\ UNCHANGED <<clock, pending, authenticated, usedSteps, loginTables>>
    BY <1>8 DEF Judge, loginClock, sessionStore
  <2>2. StoreTypes'
    BY <1>0, <1>2, <2>1 DEF StoreTypes
  <2> QED BY <1>4, <2>1, <2>2 DEF LoginInv, loginTables
<1>9. ASSUME NEW t \in Tabs, CheckLimits(t) PROVE LoginInv'
  <2>1. UNCHANGED <<clock, pending, authenticated, usedSteps, requests, verifyFailures>>
    BY <1>9 DEF CheckLimits, loginClock, sessionStore
  <2>2. /\ loginFailures' = Checked(loginFailures, Browser, clock)
        /\ sensitiveFailures' \in {sensitiveFailures, Checked(sensitiveFailures, Browser, clock)}
    BY <1>9 DEF CheckLimits
  <2>3. TablesFit'
    BY <1>1, <1>7, <2>1, <2>2, FailureStep DEF TablesFit
  <2> QED BY <1>3, <1>5, <2>1, <2>3 DEF LoginInv
<1>10. ASSUME NEW t \in Tabs, Conclude(t) PROVE LoginInv'
  <2>1. UNCHANGED <<clock, usedSteps, requests, verifyFailures>>
    BY <1>10 DEF Conclude, loginClock
  <2>2. /\ loginFailures' \in {Cleared(loginFailures, Browser),
                               WithFailure(loginFailures, Browser, clock)}
        /\ sensitiveFailures' \in {sensitiveFailures, Cleared(sensitiveFailures, Browser),
                                   WithFailure(sensitiveFailures, Browser, clock)}
    BY <1>10, Zenon DEF Conclude
  <2>3. TablesFit'
    BY <1>1, <1>7, <2>1, <2>2, FailureStep DEF TablesFit
  <2>4. [expires |-> clock + PendingLife, wrong |-> 0] \in Pendings
    BY <1>6, NoPendingType DEF NoPending, Pendings
  <2>5. pending' \in [Tabs -> Pendings] /\ authenticated' \in [Tabs -> Nat]
    BY <1>5, <1>10, <2>4 DEF Conclude
  <2> QED BY <1>3, <1>5, <2>1, <2>3, <2>5 DEF LoginInv
<1>11. ASSUME NEW t \in Tabs, BeginVerify(t) PROVE LoginInv'
  <2>1. UNCHANGED <<clock, pending, authenticated, usedSteps, loginFailures, sensitiveFailures>>
        /\ Request(t)
    BY <1>11 DEF BeginVerify, loginClock, sessionStore
  <2>2. verifyFailures' \in {Checked(verifyFailures, Browser, clock),
                             WithFailure(verifyFailures, Browser, clock)}
    BY <1>11, Zenon DEF BeginVerify
  <2>3. TablesFit'
    BY <1>1, <1>7, <2>1, <2>2, FailureStep DEF TablesFit
  <2>4. StoreTypes'
    BY <1>0, <1>2, <2>1 DEF StoreTypes
  <2> QED BY <2>3, <2>4 DEF LoginInv
<1>12. ASSUME NEW t \in Tabs, CodeAccepted(t) PROVE LoginInv'
  <2>1. UNCHANGED <<clock, pending, authenticated, usedSteps, requests, loginTables>>
    BY <1>12 DEF CodeAccepted, loginClock, sessionStore
  <2> QED BY <1>3, <1>4, <1>5, <2>1 DEF LoginInv, loginTables
<1>13. ASSUME NEW t \in Tabs, CodeRefused(t) PROVE LoginInv'
  <2>1. /\ UNCHANGED <<clock, authenticated, usedSteps, requests, loginFailures, sensitiveFailures>>
        /\ verifyFailures' = WithFailure(verifyFailures, Browser, clock) /\ WrongCode(t)
    BY <1>13 DEF CodeRefused, loginClock
  <2>2. TablesFit'
    BY <1>1, <1>7, <2>1, FailureStep DEF TablesFit
  <2>3. ASSUME Pends(t), pending[t].wrong + 1 < MaxWrongCodes
        PROVE  [pending[t] EXCEPT !.wrong = pending[t].wrong + 1] \in Pendings
    <3>1. pending[t] \in Pendings
      BY <1>5
    <3>2. pending[t].wrong + 1 \in 0..MaxWrongCodes - 1
      BY <2>3, <3>1, LoginBounds DEF Pendings
    <3> QED BY <3>1, <3>2 DEF Pendings
  <2>4. pending' \in [Tabs -> Pendings]
    <3> DEFINE after == IF Pends(t) /\ pending[t].wrong + 1 < MaxWrongCodes
                        THEN [pending[t] EXCEPT !.wrong = pending[t].wrong + 1] ELSE NoPending
    <3>1. after \in Pendings
      BY <2>3, NoPendingType
    <3>2. pending' = [pending EXCEPT ![t] = after]
      BY <2>1 DEF WrongCode
    <3> HIDE DEF after
    <3> QED BY <1>5, <3>1, <3>2
  <2> QED BY <1>3, <1>5, <2>1, <2>2, <2>4 DEF LoginInv
<1>14. ASSUME NEW t \in Tabs, MarkStep(t) PROVE LoginInv'
  <2>1. UNCHANGED <<clock, pending, authenticated, requests, loginTables>> /\ MarkUsed(tab[t].code)
    BY <1>14 DEF MarkStep, loginClock
  <2>2. tab[t].code \in Nat
    BY <1>0 DEF TabTypes, TabRequests
  <2>3. \A u \in usedSteps' : u \in UsedRecords
    BY <1>0, <2>1, <2>2, MarkTyped
  <2> QED BY <1>3, <1>4, <1>5, <2>1, <2>3 DEF LoginInv, loginTables
<1>15. ASSUME NEW t \in Tabs, OpenSession(t) PROVE LoginInv'
  <2>1. UNCHANGED <<clock, pending, usedSteps, requests, loginTables>>
        /\ authenticated' = [authenticated EXCEPT ![t] = clock + SessionLife]
    BY <1>15 DEF OpenSession, loginClock
  <2>2. authenticated' \in [Tabs -> Nat]
    BY <1>5, <1>6, <2>1
  <2> QED BY <1>3, <1>4, <1>5, <2>1, <2>2 DEF LoginInv, loginTables
<1>16. ASSUME NEW t \in Tabs, FinishVerify(t) PROVE LoginInv'
  <2>1. /\ UNCHANGED <<clock, authenticated, usedSteps, requests, loginFailures, sensitiveFailures>>
        /\ verifyFailures' = Cleared(verifyFailures, Browser)
        /\ pending' = [pending EXCEPT ![t] = NoPending]
    BY <1>16 DEF FinishVerify, loginClock
  <2>2. TablesFit'
    BY <1>1, <1>7, <2>1, FailureStep DEF TablesFit
  <2>3. pending' \in [Tabs -> Pendings]
    BY <1>5, <2>1, NoPendingType
  <2> QED BY <1>3, <1>5, <2>1, <2>2, <2>3 DEF LoginInv
<1>17. ASSUME NEW t \in Tabs, Logout(t) PROVE LoginInv'
  <2>1. UNCHANGED <<clock, pending, usedSteps, requests, loginTables>>
        /\ authenticated' = [authenticated EXCEPT ![t] = 0]
    BY <1>17 DEF Logout, loginClock
  <2>2. authenticated' \in [Tabs -> Nat]
    BY <1>5, <1>6, <2>1
  <2> QED BY <1>3, <1>4, <1>5, <2>1, <2>2 DEF LoginInv, loginTables
<1>18. CASE ClockTicks
  <2>1. clock' = clock + 1 /\ clock < MaxClock
        /\ UNCHANGED <<pending, authenticated, usedSteps, requests, loginTables>>
    BY <1>18 DEF ClockTicks, sessionStore
  <2>2. clock' \in 0..MaxClock /\ clock' \in Nat /\ clock <= clock'
    BY <1>1, <2>1, LoginBounds
  <2>3. TablesFit'
    BY <1>1, <1>7, <2>1, <2>2, FitsLater DEF TablesFit, loginTables
  <2> QED BY <1>0, <2>1, <2>2, <2>3 DEF LoginInv, StoreTypes
<1>19. CASE WallSetBack
  <2>1. UNCHANGED <<clock, pending, authenticated, usedSteps, requests, loginTables>>
    BY <1>19 DEF WallSetBack, sessionStore
  <2> QED BY <1>3, <1>4, <1>5, <2>1 DEF LoginInv, loginTables
<1> QED BY <1>8, <1>9, <1>10, <1>11, <1>12, <1>13, <1>14, <1>15, <1>16, <1>17, <1>18, <1>19
        DEF LoginNext

LEMMA LoginEdits == SpentInv /\ LoginInv /\ EditNext => LoginInv'
<1> SUFFICES ASSUME SpentInv, LoginInv, EditNext PROVE LoginInv'
  OBVIOUS
<1>0. StoreTypes /\ TablesFit /\ ClockTypes
  BY DEF LoginInv, SpentInv
<1>1. ASSUME UNCHANGED <<clock, requests, loginTables, pending>>,
             authenticated' \in [Tabs -> Nat], \A u \in usedSteps' : u \in UsedRecords
      PROVE  LoginInv'
  BY <1>0, <1>1 DEF LoginInv, StoreTypes, TablesFit, loginTables
<1>2. authenticated \in [Tabs -> Nat] /\ \A u \in usedSteps : u \in UsedRecords
  BY <1>0 DEF StoreTypes
<1>3. ASSUME NEW e \in Editors, ConfirmEdit(e) PROVE LoginInv'
  <2>1. UNCHANGED <<clock, requests, loginTables, pending, authenticated>>
        /\ (MarkUsed(Wall) \/ UNCHANGED usedSteps)
    BY <1>3 DEF ConfirmEdit, loginClock
  <2>2. \A u \in usedSteps' : u \in UsedRecords
    BY <1>0, <1>2, <2>1, WallIs, MarkTyped
  <2> QED BY <1>1, <1>2, <2>1, <2>2
<1>4. ASSUME NEW e \in Editors, ClearSessions(e) PROVE LoginInv'
  <2>1. UNCHANGED <<clock, requests, loginTables, pending, usedSteps>>
    BY <1>4 DEF ClearSessions, loginClock
  <2>2. clock + SessionLife \in Nat /\ 0 \in Nat
    BY <1>0, ClockIs, LoginBounds
  <2>3. authenticated' \in [Tabs -> Nat]
    BY <1>4, <2>2 DEF ClearSessions
  <2> QED BY <1>1, <1>2, <2>1, <2>3
<1>5. CASE Restart
  <2>1. UNCHANGED <<clock, requests>> /\ pending' = [t \in Tabs |-> NoPending]
        /\ authenticated' = [t \in Tabs |-> 0] /\ usedSteps' = {}
        /\ loginFailures' = EmptyTable /\ sensitiveFailures' = EmptyTable
        /\ verifyFailures' = EmptyTable
    BY <1>5 DEF Restart, loginClock
  <2>2. StoreTypes'
    BY <1>0, <2>1, NoPendingType DEF StoreTypes
  <2>3. TablesFit'
    BY <2>1, EmptyFits DEF TablesFit
  <2> QED BY <2>2, <2>3 DEF LoginInv
<1>6. ASSUME NEW e \in Editors,
             ReadConfig(e) \/ OpenTmp(e) \/ WriteTmp(e) \/ EditFails(e) \/ RenameTmp(e)
               \/ ApplyEdit(e) \/ \E k \in Kinds : BeginEdit(e, k)
      PROVE  LoginInv'
  <2>1. UNCHANGED <<clock, requests, loginTables, pending, authenticated, usedSteps>>
    BY <1>6 DEF ReadConfig, OpenTmp, WriteTmp, EditFails, RenameTmp, ApplyEdit, BeginEdit,
                loginVars, loginClock, sessionStore
  <2> QED BY <1>1, <1>2, <2>1
<1> QED BY <1>3, <1>4, <1>5, <1>6 DEF EditNext

LEMMA LoginInvariant == Spec => []LoginInv
<1>1. SpentInv /\ LoginInv /\ [Next]_vars => LoginInv'
  <2> SUFFICES ASSUME SpentInv, LoginInv, [Next]_vars PROVE LoginInv'
    OBVIOUS
  <2>1. CASE EditNext
    BY <2>1, LoginEdits
  <2>2. CASE LoginNext /\ UNCHANGED settingsVars
    BY <2>2, LoginSteps
  <2>3. CASE UNCHANGED panelVars
    BY <2>3 DEF panelVars, loginVars, loginClock, loginTables, sessionStore, LoginInv, StoreTypes,
                TablesFit
  <2> QED BY <2>1, <2>2, <2>3, PanelSteps
<1> QED BY <1>1, InitLogin, SpentInvariant, PTL DEF Spec

LEMMA LoginTyped == SettingsInv /\ SpentInv /\ LoginInv => LoginTypeOK /\ SettingsTypeOK
<1> SUFFICES ASSUME SettingsInv, SpentInv, LoginInv PROVE LoginTypeOK /\ SettingsTypeOK
  OBVIOUS
<1>1. SettingsTypes /\ ClockTypes /\ TabTypes /\ StoreTypes /\ TablesFit
  BY DEF SettingsInv, SpentInv, LoginInv
<1>2. auth \in [password : Nat, secret : Nat]
  BY <1>1, SettingsAssumption DEF SettingsTypes, Auths
<1>3. IsTable(loginFailures) /\ IsTable(sensitiveFailures) /\ IsTable(verifyFailures)
  BY <1>1, ClockIs, FitsIsTable DEF TablesFit
<1>4. LoginTypeOK
  BY <1>1, <1>2, <1>3
  DEF LoginTypeOK, ClockTypes, TabTypes, TabRequests, StoreTypes, Pendings, UsedRecords
<1>5. DOMAIN inode = 1..Len(inode) /\ 0..Len(inode) = (1..Len(inode)) \cup {0}
  BY <1>1 DEF SettingsTypes
<1>6. \A e \in Editors : edit[e].step \in EditSteps /\ edit[e].content \in Contents
  BY <1>1 DEF SettingsTypes, Edits
<1>7. SettingsTypeOK
  BY <1>1, <1>5, <1>6 DEF SettingsTypes, SettingsTypeOK
<1> QED BY <1>4, <1>7

LEMMA InstallTyped == InstallInv => InstallTypeOK
<1> SUFFICES ASSUME InstallInv PROVE InstallTypeOK
  OBVIOUS
<1>1. moment \in Nat /\ FitsTable(installFailures, moment) /\ InstallTypes
  BY InstallAssumption DEF InstallInv, InstallTypes
<1>2. IsTable(installFailures)
  BY <1>1, FitsIsTable
<1> QED BY <1>1, <1>2 DEF InstallTypes, InstallRecords, InstallTypeOK

================================================================================
