-------------------------------- MODULE Rows --------------------------------
(***************************************************************************)
(* Lemmas about tables, kept as sequences of rows: what an insertion and   *)
(* an update leave alone, and which rows a filter keeps.                   *)
(***************************************************************************)
EXTENDS Naturals, Sequences, Selection, SequenceTheorems, FiniteSetTheorems, TLAPS

\* A sequence whose elements are replaced is still one.
LEMMA Replaced ==
  ASSUME NEW S, NEW s \in Seq(S), NEW t \in [DOMAIN s -> S]
  PROVE  t \in Seq(S) /\ DOMAIN t = DOMAIN s /\ Len(t) = Len(s)
<1>1. DOMAIN s = 1..Len(s) /\ Len(s) \in Nat
  OBVIOUS
<1>2. t \in [1..Len(s) -> S]
  BY <1>1
<1> QED
  BY <1>1, <1>2

\* So is one with one element replaced, even if it has no such element.
LEMMA OneReplaced ==
  ASSUME NEW S, NEW s \in Seq(S), NEW i, NEW e, i \in DOMAIN s => e \in S
  PROVE  LET t == [s EXCEPT ![i] = e] IN
         /\ t \in Seq(S) /\ DOMAIN t = DOMAIN s /\ Len(t) = Len(s)
         /\ \A j \in DOMAIN s : t[j] = IF j = i THEN e ELSE s[j]
<1>1. s \in [DOMAIN s -> S]
  OBVIOUS
<1>2. [s EXCEPT ![i] = e] \in [DOMAIN s -> S]
  BY <1>1
<1> QED
  BY <1>1, <1>2, Replaced

\* What an element appended leaves alone.
LEMMA Appended ==
  ASSUME NEW S, NEW s \in Seq(S), NEW e \in S
  PROVE  LET t == Append(s, e) IN
         /\ t \in Seq(S) /\ Len(t) = Len(s) + 1 /\ t[Len(t)] = e
         /\ DOMAIN t = DOMAIN s \cup {Len(s) + 1} /\ Len(s) + 1 \notin DOMAIN s
         /\ DOMAIN s = 1..Len(s) /\ Len(s) \in Nat
         /\ \A j \in DOMAIN s : t[j] = s[j]
  BY AppendProperties

-----------------------------------------------------------------------------
\* A number of a finite set is its first, its second, ... or its last.
LEMMA RankRange ==
  ASSUME NEW S \in SUBSET Nat, IsFiniteSet(S), NEW l \in S
  PROVE  Rank(S, l) \in 1..Cardinality(S)
<1> DEFINE upTo == {x \in S : x <= l}
<1>1. upTo \in SUBSET S /\ l \in upTo
  OBVIOUS
<1>2. /\ IsFiniteSet(upTo) /\ Cardinality(upTo) <= Cardinality(S)
      /\ Cardinality(upTo) \in Nat /\ Cardinality(S) \in Nat
  BY <1>1, FS_Subset, FS_CardinalityType
<1>3. Cardinality(upTo) # 0
  BY <1>1, <1>2, FS_EmptySet
<1> QED
  BY <1>2, <1>3 DEF Rank

\* No two numbers of a finite set have the same rank.
LEMMA RankUnique ==
  ASSUME NEW S \in SUBSET Nat, IsFiniteSet(S), NEW l \in S, NEW m \in S,
         Rank(S, l) = Rank(S, m)
  PROVE  l = m
<1> DEFINE upTo(a) == {x \in S : x <= a}
<1>1. ASSUME NEW a \in S, NEW b \in S, a <= b, Rank(S, a) = Rank(S, b)
      PROVE  a = b
  <2>0. a \in Nat /\ b \in Nat /\ \A x \in S : x \in Nat
    OBVIOUS
  <2>1. upTo(a) \subseteq upTo(b)
    <3>1. \A x \in S : x <= a => x <= b
      BY <1>1, <2>0
    <3> QED
      BY <3>1
  <2>2. b \in upTo(b) /\ IsFiniteSet(upTo(b))
    BY <2>0, FS_Subset
  <2>3. upTo(a) = upTo(b)
    BY <1>1, <2>1, <2>2, FS_Subset DEF Rank
  <2>4. b <= a
    BY <2>2, <2>3
  <2> QED
    BY <1>1, <2>0, <2>4
<1>2. l <= m \/ m <= l
  OBVIOUS
<1> QED
  BY <1>1, <1>2

\* So its numbers are those from the first to the last, each at its rank.
LEMMA Ranks ==
  ASSUME NEW S \in SUBSET Nat, IsFiniteSet(S)
  PROVE  /\ Cardinality(S) \in Nat
         /\ \A k \in 1..Cardinality(S) : Nth(S, k) \in S /\ Rank(S, Nth(S, k)) = k
         /\ \A l \in S : \E k \in 1..Cardinality(S) : Nth(S, k) = l
<1> DEFINE rank == [l \in S |-> Rank(S, l)]
<1>1. Cardinality(S) \in Nat
  BY FS_CardinalityType
<1>2. IsFiniteSet(1..Cardinality(S)) /\ Cardinality(1..Cardinality(S)) = Cardinality(S)
  BY <1>1, FS_Interval
<1>3. rank \in Injection(S, 1..Cardinality(S))
  BY RankRange, RankUnique DEF Injection, IsInjective
<1>4. rank \in Surjection(S, 1..Cardinality(S))
  BY <1>2, <1>3, FS_Injection
<1>5. ASSUME NEW k \in 1..Cardinality(S)
      PROVE  Nth(S, k) \in S /\ Rank(S, Nth(S, k)) = k
  <2>1. \E l \in S : Rank(S, l) = k
    BY <1>4 DEF Surjection
  <2> QED
    BY <2>1 DEF Nth
<1>6. ASSUME NEW l \in S PROVE \E k \in 1..Cardinality(S) : Nth(S, k) = l
  <2>1. Rank(S, l) \in 1..Cardinality(S)
    BY RankRange
  <2>2. PICK m : m = Nth(S, Rank(S, l))
    OBVIOUS
  <2>3. m \in S /\ Rank(S, m) = Rank(S, l)
    BY <1>5, <2>1, <2>2
  <2>4. m = l
    BY <2>3, RankUnique
  <2> QED
    BY <2>1, <2>2, <2>4
<1> QED
  BY <1>1, <1>5, <1>6

\* A number beyond all of S comes last, and the others keep their rank.
LEMMA NthExtended ==
  ASSUME NEW S \in SUBSET Nat, IsFiniteSet(S),
         NEW n \in Nat, \A l \in S : l < n
  PROVE  /\ IsFiniteSet(S \cup {n}) /\ Cardinality(S \cup {n}) = Cardinality(S) + 1
         /\ Nth(S \cup {n}, Cardinality(S) + 1) = n
         /\ \A k \in 1..Cardinality(S) : Nth(S \cup {n}, k) = Nth(S, k)
<1> DEFINE T == S \cup {n}
           c == Cardinality(S)
<1>1. n \notin S /\ T \in SUBSET Nat
  OBVIOUS
<1>2. IsFiniteSet(T) /\ Cardinality(T) = c + 1 /\ c \in Nat
  BY <1>1, FS_AddElement, FS_CardinalityType
<1>3. ASSUME NEW l \in S PROVE Rank(T, l) = Rank(S, l)
  <2>1. ~(n <= l) /\ l \in Nat
    OBVIOUS
  <2>2. {x \in T : x <= l} = {x \in S : x <= l}
    BY <2>1
  <2> QED
    BY <2>2 DEF Rank
<1>4. Rank(T, n) = c + 1
  <2>0. \A x \in T : x <= n
    OBVIOUS
  <2>1. {x \in T : x <= n} = T
    BY <2>0
  <2> QED
    BY <1>2, <2>1 DEF Rank
<1>5. ASSUME NEW k \in 1..(c + 1) PROVE Nth(T, k) \in T /\ Rank(T, Nth(T, k)) = k
  <2> HIDE DEF T, c
  <2> QED
    BY <1>1, <1>2, Ranks
<1>6. Nth(T, c + 1) = n
  <2>1. c + 1 \in 1..(c + 1) /\ n \in T
    BY <1>2
  <2>2. PICK m : m = Nth(T, c + 1)
    OBVIOUS
  <2>3. m \in T /\ Rank(T, m) = Rank(T, n)
    BY <1>4, <1>5, <2>1, <2>2
  <2> HIDE DEF T, c
  <2>4. m = n
    BY <1>1, <1>2, <2>1, <2>3, RankUnique
  <2> QED
    BY <2>2, <2>4
<1>7. ASSUME NEW k \in 1..c PROVE Nth(T, k) = Nth(S, k)
  <2>1. Nth(S, k) \in S /\ Rank(S, Nth(S, k)) = k
    BY <1>7, Ranks
  <2>2. Nth(S, k) \in T /\ Rank(T, Nth(S, k)) = k
    BY <1>3, <2>1
  <2>3. k \in 1..(c + 1)
    BY <1>2, <1>7
  <2>4. Nth(T, k) \in T /\ Rank(T, Nth(T, k)) = k
    BY <1>5, <2>3
  <2>5. PICK l, m : l = Nth(T, k) /\ m = Nth(S, k)
    OBVIOUS
  <2> HIDE DEF T, c
  <2>6. l = m
    BY <1>1, <1>2, <2>2, <2>4, <2>5, RankUnique
  <2> QED
    BY <2>5, <2>6
<1> QED
  BY <1>2, <1>6, <1>7

=============================================================================
