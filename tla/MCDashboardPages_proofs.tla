------------------------- MODULE MCDashboardPages_proofs -------------------------
(***************************************************************************)
(* Theorems about the pages that keep what they show themselves.           *)
(***************************************************************************)
EXTENDS MCDashboardPages, FiniteSetTheorems, SequenceTheorems, TLAPS

-----------------------------------------------------------------------------
(* What filter keeps of a sequence                                         *)

\* The place of i among the numbers in P.
Rank(P, i) == Cardinality(P \cap (1..i))

\* The numbers up to n are n.
LEMMA UpTo ==
  ASSUME NEW n \in Nat
  PROVE  IsFiniteSet(1..n) /\ Cardinality(1..n) = n
<1>1. n \in Int /\ 1 \in Int /\ (1 <= n \/ n = 0)
  OBVIOUS
<1>2. IsFiniteSet(1..n) /\ Cardinality(1..n) = IF 1 > n THEN 0 ELSE n - 1 + 1
  BY ONLY <1>1, FS_Interval
<1> QED BY <1>1, <1>2

LEMMA RankedBy ==
  ASSUME NEW n \in Nat, NEW P \in SUBSET (1..n)
  PROVE  /\ IsFiniteSet(P) /\ Cardinality(P) \in Nat
         /\ \A i \in P : Rank(P, i) \in 1..Cardinality(P)
         /\ \A i, j \in P : i < j => Rank(P, i) < Rank(P, j)
         /\ \A k \in 1..Cardinality(P) : \E i \in P : Rank(P, i) = k
<1>1. IsFiniteSet(P) /\ Cardinality(P) \in Nat
  <2>1. IsFiniteSet(1..n)
    BY FS_Interval
  <2>2. IsFiniteSet(P)
    BY <2>1, FS_Subset
  <2> QED BY <2>2, FS_CardinalityType
<1>2. ASSUME NEW i \in P
      PROVE  /\ IsFiniteSet(P \cap (1..i)) /\ Cardinality(P \cap (1..i)) \in Nat
             /\ Cardinality(P \cap (1..i)) <= Cardinality(P)
             /\ Cardinality(P \cap (1..i)) # 0
  <2>1. P \cap (1..i) \in SUBSET P /\ i \in P \cap (1..i)
    OBVIOUS
  <2>2. IsFiniteSet(P \cap (1..i)) /\ Cardinality(P \cap (1..i)) <= Cardinality(P)
    BY ONLY <1>1, <2>1, FS_Subset
  <2>3. Cardinality(P \cap (1..i)) = 0 <=> P \cap (1..i) = {}
    BY ONLY <2>2, FS_EmptySet
  <2> QED BY ONLY <2>1, <2>2, <2>3, FS_CardinalityType
<1>3. ASSUME NEW i \in P PROVE Rank(P, i) \in 1..Cardinality(P)
  BY <1>1, <1>2 DEF Rank
<1>4. ASSUME NEW i \in P, NEW j \in P, i < j PROVE Rank(P, i) < Rank(P, j)
  <2>1. P \cap (1..i) \in SUBSET (P \cap (1..j)) /\ j \in P \cap (1..j) /\ j \notin P \cap (1..i)
    BY <1>4
  <2>2. /\ Cardinality(P \cap (1..i)) <= Cardinality(P \cap (1..j))
        /\ Cardinality(P \cap (1..j)) = Cardinality(P \cap (1..i)) => P \cap (1..j) = P \cap (1..i)
    BY ONLY <1>2, <2>1, FS_Subset
  <2> QED BY <1>2, <2>1, <2>2 DEF Rank
<1>5. ASSUME NEW k \in 1..Cardinality(P) PROVE \E i \in P : Rank(P, i) = k
  <2> DEFINE f == [i \in P |-> Rank(P, i)]
             K == 1..Cardinality(P)
  <2>1. f \in [P -> K]
    BY <1>3
  <2>2. \A i, j \in P : f[i] = f[j] => i = j
    <3> SUFFICES ASSUME NEW i \in P, NEW j \in P, f[i] = f[j], i # j PROVE FALSE
      OBVIOUS
    <3>1. Rank(P, i) = Rank(P, j) /\ Rank(P, i) \in Nat /\ Rank(P, j) \in Nat
      BY <1>3
    <3>2. i < j \/ j < i
      OBVIOUS
    <3> QED BY <1>4, <3>1, <3>2
  <2>3. f \in Injection(P, K)
    BY <2>1, <2>2 DEF Injection, IsInjective
  <2>4. IsFiniteSet(K) /\ Cardinality(K) = Cardinality(P)
    BY <1>1, FS_Interval
  <2>5. f \in Surjection(P, K)
    BY ONLY <2>3, <2>4, FS_Injection
  <2>6. \E i \in P : f[i] = k
    BY <2>5 DEF Surjection
  <2> QED BY <2>6
<1> QED BY <1>1, <1>3, <1>4, <1>5

\* g numbers, in their order, the n places of s whose entries are in S.
Keeps(s, S, n, g) ==
  /\ \A i, j \in 1..n : i < j => g[i] < g[j]
  /\ \A i \in 1..n : s[g[i]] \in S
  /\ \A i \in 1..Len(s) : s[i] \in S => \E k \in 1..n : g[k] = i
  /\ Filtered(s, S) = [k \in 1..n |-> s[g[k]]]

LEMMA FilterPlaces ==
  ASSUME NEW s, NEW S, Len(s) \in Nat
  PROVE  \E n \in 0..Len(s) : \E g \in [1..n -> 1..Len(s)] : Keeps(s, S, n, g)
<1> DEFINE kept == {i \in 1..Len(s) : s[i] \in S}
           n == Cardinality(kept)
           Nth(k) == CHOOSE i \in kept : Rank(kept, i) = k
           g == [k \in 1..n |-> Nth(k)]
<1>1. kept \in SUBSET (1..Len(s))
  OBVIOUS
<1>2. /\ n \in Nat
      /\ \A i \in kept : Rank(kept, i) \in 1..n
      /\ \A i, j \in kept : i < j => Rank(kept, i) < Rank(kept, j)
      /\ \A k \in 1..n : \E i \in kept : Rank(kept, i) = k
  BY <1>1, RankedBy
<1>10. n \in 0..Len(s)
  <2>1. IsFiniteSet(1..Len(s)) /\ Cardinality(1..Len(s)) = Len(s)
    BY UpTo
  <2>2. n <= Cardinality(1..Len(s))
    BY <1>1, <2>1, FS_Subset
  <2> QED BY <1>2, <2>1, <2>2
<1>3. \A k \in 1..n : Nth(k) \in kept /\ Rank(kept, Nth(k)) = k
  BY <1>2
<1>4. g \in [1..n -> 1..Len(s)]
  BY <1>3
<1>5. ASSUME NEW i \in 1..n, NEW j \in 1..n, i < j PROVE g[i] < g[j]
  <2>1. Nth(i) \in kept /\ Nth(j) \in kept /\ Rank(kept, Nth(i)) = i /\ Rank(kept, Nth(j)) = j
    BY <1>3
  <2>2. PICK a, b : a = Nth(i) /\ b = Nth(j)
    OBVIOUS
  <2>3. a \in kept /\ b \in kept /\ Rank(kept, a) = i /\ Rank(kept, b) = j
    BY <2>1, <2>2
  <2>4. a \in Nat /\ b \in Nat
    BY <1>1, <2>3
  <2>5. ~(b < a) /\ a # b
    BY <1>2, <1>5, <2>3
  <2>6. a < b
    BY <2>4, <2>5
  <2> QED BY <2>2, <2>6
<1>6. ASSUME NEW i \in 1..Len(s), s[i] \in S PROVE \E k \in 1..n : g[k] = i
  <2>1. i \in kept
    BY <1>6
  <2>2. PICK k \in 1..n : k = Rank(kept, i)
    BY <1>2, <2>1
  <2>3. Nth(k) \in kept /\ Rank(kept, Nth(k)) = Rank(kept, i)
    BY <1>3, <2>2
  <2>4. Nth(k) = i
    <3>1. Nth(k) \in Nat /\ i \in Nat /\ Rank(kept, i) \in Nat
      BY <1>1, <1>2, <2>1, <2>3
    <3> HIDE DEF Nth, kept, n
    <3>2. ~(Nth(k) < i) /\ ~(i < Nth(k))
      BY <1>2, <2>1, <2>3, <3>1
    <3> QED BY <3>1, <3>2
  <2> QED BY <2>4
<1>7. Filtered(s, S) = [k \in 1..n |-> s[g[k]]]
  BY DEF Filtered, Rank
<1>8. \A i \in 1..n : s[g[i]] \in S
  BY <1>3
<1> HIDE DEF g, n
<1>9. Keeps(s, S, n, g)
  BY <1>5, <1>6, <1>7, <1>8 DEF Keeps
<1> QED BY <1>4, <1>9, <1>10

\* The length of a sequence and the type of its entries.
LEMMA InSeq ==
  ASSUME NEW T, NEW s \in Seq(T)
  PROVE  /\ Len(s) \in Nat /\ DOMAIN s = 1..Len(s) /\ \A i \in 1..Len(s) : s[i] \in T
         /\ ToSet(s) = {s[i] : i \in 1..Len(s)} /\ ToSet(s) \subseteq T
BY LenProperties, ElementOfSeq DEF ToSet

\* What is kept is what is in the set, each entry as often as it was there.
LEMMA FilterKeeps ==
  ASSUME NEW T, NEW s \in Seq(T), NEW S
  PROVE  /\ Filtered(s, S) \in Seq(T)
         /\ ToSet(Filtered(s, S)) = ToSet(s) \cap S
         /\ IsInjective(s) => IsInjective(Filtered(s, S))
<1>1. Len(s) \in Nat /\ DOMAIN s = 1..Len(s) /\ \A i \in 1..Len(s) : s[i] \in T
  BY InSeq
<1>2. PICK n \in 0..Len(s) : \E g \in [1..n -> 1..Len(s)] : Keeps(s, S, n, g)
  BY <1>1, FilterPlaces
<1>0. PICK g \in [1..n -> 1..Len(s)] : Keeps(s, S, n, g)
  BY <1>2
<1> DEFINE r == [k \in 1..n |-> s[g[k]]]
<1>3. \A k \in 1..n : s[g[k]] \in T
  BY <1>1
<1>4. r \in Seq(T)
  BY <1>3, IsASeq
<1>5. ToSet(r) = ToSet(s) \cap S
  BY <1>1, <1>0 DEF ToSet, Keeps
<1>6. ASSUME IsInjective(s) PROVE IsInjective(r)
  <2> SUFFICES ASSUME NEW i \in 1..n, NEW j \in 1..n, r[i] = r[j], i # j PROVE FALSE
    BY DEF IsInjective
  <2>1. g[i] \in 1..Len(s) /\ g[j] \in 1..Len(s) /\ s[g[i]] = s[g[j]]
    OBVIOUS
  <2>2. g[i] = g[j]
    BY ONLY <1>1, <1>6, <2>1 DEF IsInjective
  <2>3. i < j \/ j < i
    OBVIOUS
  <2>4. g[i] < g[j] \/ g[j] < g[i]
    BY <1>0, <2>3 DEF Keeps
  <2>5. g[i] \in Nat /\ g[j] \in Nat
    BY <1>1, <2>1
  <2> QED BY <2>2, <2>4, <2>5
<1> HIDE DEF r
<1>7. Filtered(s, S) = r
  BY <1>0 DEF r, Keeps
<1> QED BY <1>4, <1>5, <1>6, <1>7

-----------------------------------------------------------------------------
(* Sequences without repetition                                            *)

Apart(s, u) == ToSet(s) \cap ToSet(u) = {}

LEMMA OnceConcat ==
  ASSUME NEW T, NEW s \in Seq(T), NEW u \in Seq(T)
  PROVE  /\ s \o u \in Seq(T) /\ ToSet(s \o u) = ToSet(s) \cup ToSet(u)
         /\ IsInjective(s) /\ IsInjective(u) /\ Apart(s, u) => IsInjective(s \o u)
<1>1. PICK r : r = s \o u
  OBVIOUS
<1>2. /\ r \in Seq(T) /\ Len(r) = Len(s) + Len(u)
      /\ \A i \in 1..Len(s) + Len(u) : r[i] = IF i <= Len(s) THEN s[i] ELSE u[i - Len(s)]
  BY <1>1, ConcatProperties
<1>3. /\ Len(s) \in Nat /\ Len(u) \in Nat
      /\ DOMAIN r = 1..Len(s) + Len(u) /\ DOMAIN s = 1..Len(s) /\ DOMAIN u = 1..Len(u)
  BY <1>2, InSeq
<1>4. \A i \in 1..Len(s) : r[i] = s[i]
  BY <1>2, <1>3
<1>5. \A i \in 1..Len(u) : r[i + Len(s)] = u[i]
  BY <1>2, <1>3
<1>6. \A i \in DOMAIN r : i \in 1..Len(s) \/ (i - Len(s) \in 1..Len(u) /\ r[i] = u[i - Len(s)])
  BY <1>2, <1>3
<1>7. ToSet(r) = ToSet(s) \cup ToSet(u)
  <2>1. ToSet(r) \subseteq ToSet(s) \cup ToSet(u)
    BY <1>3, <1>4, <1>6 DEF ToSet
  <2>2. \A i \in 1..Len(s) : i \in DOMAIN r
    BY <1>3
  <2>3. \A i \in 1..Len(u) : i + Len(s) \in DOMAIN r
    BY <1>3
  <2>4. ToSet(s) \subseteq ToSet(r)
    BY <1>3, <1>4, <2>2 DEF ToSet
  <2>5. ToSet(u) \subseteq ToSet(r)
    BY <1>3, <1>5, <2>3 DEF ToSet
  <2> QED BY <2>1, <2>4, <2>5
<1>8. ASSUME IsInjective(s), IsInjective(u), Apart(s, u)
      PROVE  IsInjective(r)
  <2> SUFFICES ASSUME NEW i \in DOMAIN r, NEW j \in DOMAIN r, r[i] = r[j] PROVE i = j
    BY DEF IsInjective
  <2>1. CASE i \in 1..Len(s) /\ j \in 1..Len(s)
    BY <1>3, <1>4, <1>8, <2>1 DEF IsInjective
  <2>2. CASE i \in 1..Len(s) /\ j \notin 1..Len(s)
    <3>1. s[i] = u[j - Len(s)] /\ j - Len(s) \in 1..Len(u)
      BY <1>4, <1>6, <2>2
    <3> QED BY <1>3, <1>8, <2>2, <3>1 DEF ToSet, Apart
  <2>3. CASE j \in 1..Len(s) /\ i \notin 1..Len(s)
    <3>1. s[j] = u[i - Len(s)] /\ i - Len(s) \in 1..Len(u)
      BY <1>4, <1>6, <2>3
    <3> QED BY <1>3, <1>8, <2>3, <3>1 DEF ToSet, Apart
  <2>4. CASE i \notin 1..Len(s) /\ j \notin 1..Len(s)
    <3>1. u[i - Len(s)] = u[j - Len(s)] /\ i - Len(s) \in 1..Len(u) /\ j - Len(s) \in 1..Len(u)
      BY <1>6, <2>4
    <3>2. i - Len(s) = j - Len(s)
      BY ONLY <1>3, <1>8, <3>1 DEF IsInjective
    <3> QED BY <1>3, <3>2
  <2> QED BY <2>1, <2>2, <2>3, <2>4
<1> QED BY <1>1, <1>2, <1>7, <1>8

\* A part of a sequence has no entry that it has not, and none twice.
LEMMA OncePart ==
  ASSUME NEW T, NEW s \in Seq(T), NEW m \in 1..Len(s) + 1, NEW n \in 0..Len(s)
  PROVE  /\ SubSeq(s, m, n) \in Seq(T)
         /\ ToSet(SubSeq(s, m, n)) = {s[i] : i \in m..n}
         /\ IsInjective(s) => IsInjective(SubSeq(s, m, n))
<1>1. Len(s) \in Nat /\ DOMAIN s = 1..Len(s) /\ \A i \in 1..Len(s) : s[i] \in T
  BY InSeq
<1>2. \A i \in m..n : i \in 1..Len(s)
  BY <1>1
<1>3. PICK r : r = SubSeq(s, m, n)
  OBVIOUS
<1>4. /\ r \in Seq(T) /\ Len(r) = IF m <= n THEN n - m + 1 ELSE 0
      /\ \A i \in 1..n - m + 1 : r[i] = s[m + i - 1]
  BY <1>1, <1>2, <1>3, SubSeqProperties
<1>5. DOMAIN r = 1..n - m + 1
  <2>1. DOMAIN r = 1..Len(r)
    BY <1>4, InSeq
  <2> QED BY <1>1, <1>4, <2>1
<1>6. ToSet(r) = {s[i] : i \in m..n}
  <2>1. \A i \in 1..n - m + 1 : m + i - 1 \in m..n
    BY <1>1
  <2>2. ToSet(r) \subseteq {s[i] : i \in m..n}
    BY <1>4, <1>5, <2>1 DEF ToSet
  <2>3. ASSUME NEW i \in m..n PROVE s[i] \in ToSet(r)
    <3>1. i - m + 1 \in 1..n - m + 1 /\ m + (i - m + 1) - 1 = i
      BY <1>1
    <3>2. r[i - m + 1] = s[i]
      BY <1>4, <3>1
    <3> QED BY <1>5, <3>1, <3>2 DEF ToSet
  <2> QED BY <2>2, <2>3
<1>7. ASSUME IsInjective(s) PROVE IsInjective(r)
  <2> SUFFICES ASSUME NEW i \in 1..n - m + 1, NEW j \in 1..n - m + 1, r[i] = r[j] PROVE i = j
    BY <1>5 DEF IsInjective
  <2>1. m + i - 1 \in 1..Len(s) /\ m + j - 1 \in 1..Len(s)
    BY <1>1
  <2>2. s[m + i - 1] = s[m + j - 1]
    BY <1>4
  <2>3. m + i - 1 = m + j - 1
    BY ONLY <1>1, <1>7, <2>1, <2>2 DEF IsInjective
  <2> QED BY <1>1, <2>3
<1> QED BY <1>3, <1>4, <1>6, <1>7

\* What is left when one is removed.
LEMMA Removal ==
  ASSUME NEW T, NEW s \in Seq(T), NEW i \in 1..Len(s)
  PROVE  /\ RemoveAt(s, i) \in Seq(T) /\ Len(RemoveAt(s, i)) + 1 = Len(s)
         /\ \A j \in DOMAIN RemoveAt(s, i) : \E k \in DOMAIN s : RemoveAt(s, i)[j] = s[k]
<1>1. Len(s) \in Nat /\ DOMAIN s = 1..Len(s)
  BY InSeq
<1>2. /\ 1 \in 1..Len(s) + 1 /\ i - 1 \in 0..Len(s)
      /\ i + 1 \in 1..Len(s) + 1 /\ Len(s) \in 0..Len(s)
  BY <1>1
<1>3. PICK a, b : a = SubSeq(s, 1, i - 1) /\ b = SubSeq(s, i + 1, Len(s))
  OBVIOUS
<1>4. /\ a \in Seq(T) /\ ToSet(a) = {s[j] : j \in 1..i - 1}
      /\ b \in Seq(T) /\ ToSet(b) = {s[j] : j \in i + 1..Len(s)}
  BY <1>2, <1>3, OncePart
<1>5. \A j \in (1..i - 1) \cup (i + 1..Len(s)) : j \in DOMAIN s
  BY <1>1
<1>6. PICK r : r = a \o b
  OBVIOUS
<1>7. r \in Seq(T) /\ ToSet(r) = ToSet(a) \cup ToSet(b)
  BY ONLY <1>4, <1>6, OnceConcat
<1>8. \A j \in DOMAIN r : \E k \in DOMAIN s : r[j] = s[k]
  <2> TAKE j \in DOMAIN r
  <2>1. r[j] \in {s[k] : k \in 1..i - 1} \cup {s[k] : k \in i + 1..Len(s)}
    BY <1>4, <1>7 DEF ToSet
  <2> QED BY ONLY <1>5, <2>1
<1>9. Len(a \o b) + 1 = Len(s)
  <2>1. Len(a) = i - 1
    BY <1>1, <1>3, SubSeqProperties
  <2>2. Len(b) = IF i + 1 <= Len(s) THEN Len(s) - (i + 1) + 1 ELSE 0
    BY <1>1, <1>3, SubSeqProperties
  <2>3. Len(b) = Len(s) - i
    <3>1. CASE i + 1 <= Len(s)
      <4>1. Len(s) - (i + 1) + 1 = Len(s) - i
        BY <1>1
      <4> QED BY <2>2, <3>1, <4>1
    <3>2. CASE ~(i + 1 <= Len(s))
      <4>1. i = Len(s)
        <5>1. PICK l \in Nat : l = Len(s)
          BY <1>1
        <5>2. i \in 1..l /\ ~(i + 1 <= l)
          BY <3>2, <5>1
        <5> QED BY ONLY <5>1, <5>2
      <4>2. Len(b) = 0
        BY <2>2, <3>2
      <4> QED BY <1>1, <4>1, <4>2
    <3> QED BY <3>1, <3>2
  <2>4. Len(a \o b) = Len(a) + Len(b)
    BY <1>4, ConcatProperties
  <2> QED BY <1>1, <2>1, <2>3, <2>4
<1> QED BY ONLY <1>3, <1>6, <1>7, <1>8, <1>9 DEF RemoveAt

LEMMA OnceRemoved ==
  ASSUME NEW T, NEW s \in Seq(T), IsInjective(s), NEW i \in 1..Len(s)
  PROVE  /\ RemoveAt(s, i) \in Seq(T) /\ IsInjective(RemoveAt(s, i))
         /\ ToSet(RemoveAt(s, i)) = ToSet(s) \ {s[i]}
         /\ Len(RemoveAt(s, i)) + 1 = Len(s)
<1>1. Len(s) \in Nat /\ DOMAIN s = 1..Len(s) /\ ToSet(s) = {s[j] : j \in 1..Len(s)}
  BY InSeq
<1>2. /\ 1 \in 1..Len(s) + 1 /\ i - 1 \in 0..Len(s)
      /\ i + 1 \in 1..Len(s) + 1 /\ Len(s) \in 0..Len(s)
  BY <1>1
<1>3. PICK a, b : a = SubSeq(s, 1, i - 1) /\ b = SubSeq(s, i + 1, Len(s))
  OBVIOUS
<1>4. /\ a \in Seq(T) /\ IsInjective(a) /\ ToSet(a) = {s[j] : j \in 1..i - 1}
      /\ b \in Seq(T) /\ IsInjective(b) /\ ToSet(b) = {s[j] : j \in i + 1..Len(s)}
  BY <1>2, <1>3, OncePart
<1>5. \A j, k \in 1..Len(s) : s[j] = s[k] => j = k
  BY <1>1 DEF IsInjective
<1>6. Apart(a, b)
  <2> SUFFICES ASSUME NEW j \in 1..i - 1, NEW k \in i + 1..Len(s), s[j] = s[k] PROVE FALSE
    BY <1>4 DEF Apart
  <2>1. j \in 1..Len(s) /\ k \in 1..Len(s) /\ j # k
    BY <1>1
  <2> QED BY <1>5, <2>1
<1>7. ToSet(a) \cup ToSet(b) = ToSet(s) \ {s[i]}
  <2>1. \A j \in 1..Len(s) : j \in 1..i - 1 \/ j = i \/ j \in i + 1..Len(s)
    BY <1>1
  <2>2. \A j \in (1..i - 1) \cup (i + 1..Len(s)) : j \in 1..Len(s) /\ j # i
    BY <1>1
  <2> QED BY <1>1, <1>4, <1>5, <2>1, <2>2
<1>8. RemoveAt(s, i) = a \o b
  BY <1>3 DEF RemoveAt
<1>9. Len(a \o b) + 1 = Len(s)
  BY <1>8, Removal
<1>10. a \o b \in Seq(T) /\ ToSet(a \o b) = ToSet(a) \cup ToSet(b) /\ IsInjective(a \o b)
  BY ONLY <1>4, <1>6, OnceConcat
<1> QED BY ONLY <1>7, <1>8, <1>9, <1>10

LEMMA OnceInserted ==
  ASSUME NEW T, NEW s \in Seq(T), IsInjective(s), NEW i \in 1..Len(s) + 1,
         NEW e \in T, e \notin ToSet(s)
  PROVE  /\ InsertAt(s, i, e) \in Seq(T) /\ IsInjective(InsertAt(s, i, e))
         /\ ToSet(InsertAt(s, i, e)) = ToSet(s) \cup {e}
<1>1. Len(s) \in Nat /\ DOMAIN s = 1..Len(s) /\ ToSet(s) = {s[j] : j \in 1..Len(s)}
  BY InSeq
<1>2. /\ 1 \in 1..Len(s) + 1 /\ i - 1 \in 0..Len(s) /\ Len(s) \in 0..Len(s)
  BY <1>1
<1>3. PICK a, b : a = SubSeq(s, 1, i - 1) /\ b = SubSeq(s, i, Len(s))
  OBVIOUS
<1>4. /\ a \in Seq(T) /\ IsInjective(a) /\ ToSet(a) = {s[j] : j \in 1..i - 1}
      /\ b \in Seq(T) /\ IsInjective(b) /\ ToSet(b) = {s[j] : j \in i..Len(s)}
  BY <1>2, <1>3, OncePart
<1>5. \A j, k \in 1..Len(s) : s[j] = s[k] => j = k
  BY <1>1 DEF IsInjective
<1>6. Apart(a, b)
  <2> SUFFICES ASSUME NEW j \in 1..i - 1, NEW k \in i..Len(s), s[j] = s[k] PROVE FALSE
    BY <1>4 DEF Apart
  <2>1. j \in 1..Len(s) /\ k \in 1..Len(s) /\ j # k
    BY <1>1
  <2> QED BY <1>5, <2>1
<1>7. ToSet(a) \cup ToSet(b) = ToSet(s)
  <2>1. \A j \in 1..Len(s) : j \in 1..i - 1 \/ j \in i..Len(s)
    BY <1>1
  <2>2. \A j \in (1..i - 1) \cup (i..Len(s)) : j \in 1..Len(s)
    BY <1>1
  <2> QED BY <1>1, <1>4, <2>1, <2>2
<1>8. <<e>> \in Seq(T) /\ IsInjective(<<e>>) /\ ToSet(<<e>>) = {e}
  BY DEF IsInjective, ToSet
<1>9. PICK d : d = <<e>>
  OBVIOUS
<1>14. PICK c : c = a \o d
  OBVIOUS
<1>10. c \in Seq(T) /\ IsInjective(c) /\ ToSet(c) = ToSet(a) \cup {e}
  <2>1. d \in Seq(T) /\ IsInjective(d) /\ ToSet(d) = {e}
    BY <1>8, <1>9
  <2>2. Apart(a, d)
    BY <1>7, <2>1 DEF Apart
  <2>3. c \in Seq(T) /\ ToSet(c) = ToSet(a) \cup ToSet(d) /\ IsInjective(c)
    BY ONLY <1>4, <1>14, <2>1, <2>2, OnceConcat
  <2> QED BY <2>1, <2>3
<1>11. Apart(c, b)
  BY <1>1, <1>6, <1>7, <1>10, <1>4 DEF Apart
<1>12. InsertAt(s, i, e) = c \o b
  BY <1>3, <1>9, <1>14 DEF InsertAt
<1>13. ToSet(c) \cup ToSet(b) = ToSet(s) \cup {e}
  BY <1>7, <1>10
<1>15. c \o b \in Seq(T) /\ ToSet(c \o b) = ToSet(c) \cup ToSet(b) /\ IsInjective(c \o b)
  BY ONLY <1>4, <1>10, <1>11, OnceConcat
<1> QED BY <1>12, <1>13, <1>15

-----------------------------------------------------------------------------
(* The order of the entries of sequences without repetition                *)

Once(T) == {s \in Seq(T) : IsInjective(s)}
Before(s, x, y) == \E i, j \in 1..Len(s) : i < j /\ s[i] = x /\ s[j] = y

LEMMA OnceIs ==
  ASSUME NEW T, NEW s \in Once(T)
  PROVE  /\ s \in Seq(T) /\ IsInjective(s) /\ Len(s) \in Nat /\ DOMAIN s = 1..Len(s)
         /\ ToSet(s) = {s[i] : i \in 1..Len(s)} /\ ToSet(s) \subseteq T
         /\ \A i, j \in 1..Len(s) : s[i] = s[j] => i = j
<1>1. s \in Seq(T) /\ IsInjective(s)
  BY DEF Once
<1>2. /\ Len(s) \in Nat /\ DOMAIN s = 1..Len(s)
      /\ ToSet(s) = {s[i] : i \in 1..Len(s)} /\ ToSet(s) \subseteq T
  BY <1>1, InSeq
<1> QED BY <1>1, <1>2 DEF IsInjective

\* One of two entries is before the other, as their places say.
LEMMA Places ==
  ASSUME NEW T, NEW s \in Once(T)
  PROVE  /\ \A i, j \in 1..Len(s) : Before(s, s[i], s[j]) <=> i < j
         /\ \A x, y \in ToSet(s) : Before(s, x, y) <=> x # y /\ ~Before(s, y, x)
         /\ \A x, y : Before(s, x, y) => x \in ToSet(s) /\ y \in ToSet(s)
<1>1. /\ Len(s) \in Nat /\ ToSet(s) = {s[i] : i \in 1..Len(s)}
      /\ \A i, j \in 1..Len(s) : s[i] = s[j] => i = j
  BY OnceIs
<1>2. \A i, j \in 1..Len(s) : Before(s, s[i], s[j]) <=> i < j
  <2> SUFFICES ASSUME NEW i \in 1..Len(s), NEW j \in 1..Len(s)
               PROVE  Before(s, s[i], s[j]) <=> i < j
    OBVIOUS
  <2>1. ASSUME Before(s, s[i], s[j]) PROVE i < j
    <3>1. PICK k, l \in 1..Len(s) : k < l /\ s[k] = s[i] /\ s[l] = s[j]
      BY <2>1 DEF Before
    <3> QED BY <1>1, <3>1
  <2> QED BY <2>1 DEF Before
<1>3. ASSUME NEW x \in ToSet(s), NEW y \in ToSet(s)
      PROVE  Before(s, x, y) <=> x # y /\ ~Before(s, y, x)
  <2>1. PICK i, j \in 1..Len(s) : s[i] = x /\ s[j] = y
    BY <1>1
  <2>2. (Before(s, x, y) <=> i < j) /\ (Before(s, y, x) <=> j < i) /\ (x = y <=> i = j)
    BY <1>1, <1>2, <2>1
  <2>3. i < j <=> i # j /\ ~(j < i)
    BY <1>1
  <2> QED BY <2>2, <2>3
<1>4. ASSUME NEW x, NEW y, Before(s, x, y) PROVE x \in ToSet(s) /\ y \in ToSet(s)
  BY <1>1, <1>4 DEF Before
<1> QED BY <1>2, <1>3, <1>4

\* An entry has as many others before it as its place says.
LEMMA Preceding ==
  ASSUME NEW T, NEW s \in Once(T), NEW i \in 1..Len(s)
  PROVE  Cardinality({x \in ToSet(s) : Before(s, x, s[i])}) = i - 1
<1>1. /\ Len(s) \in Nat /\ ToSet(s) = {s[j] : j \in 1..Len(s)}
      /\ \A j, k \in 1..Len(s) : s[j] = s[k] => j = k
  BY OnceIs
<1>2. \A j, k \in 1..Len(s) : Before(s, s[j], s[k]) <=> j < k
  BY Places
<1> DEFINE before == {x \in ToSet(s) : Before(s, x, s[i])}
           f == [j \in 1..i - 1 |-> s[j]]
<1>3. \A j \in 1..i - 1 : j \in 1..Len(s) /\ j < i
  BY <1>1
<1>4. f \in [1..i - 1 -> before]
  BY <1>1, <1>2, <1>3
<1>5. \A j, k \in 1..i - 1 : f[j] = f[k] => j = k
  BY <1>1, <1>3
<1>6. \A x \in before : \E j \in 1..i - 1 : f[j] = x
  <2> SUFFICES ASSUME NEW x \in before PROVE \E j \in 1..i - 1 : f[j] = x
    OBVIOUS
  <2>1. PICK j \in 1..Len(s) : s[j] = x
    BY <1>1
  <2>2. j < i
    BY <1>2, <2>1
  <2>3. j \in 1..i - 1
    BY <1>1, <2>2
  <2> QED BY <2>1, <2>3
<1> HIDE DEF f, before
<1>7. f \in Injection(1..i - 1, before) /\ f \in Surjection(1..i - 1, before)
  BY <1>4, <1>5, <1>6 DEF Injection, Surjection, IsInjective
<1>8. i - 1 \in Nat
  BY <1>1
<1>9. IsFiniteSet(1..i - 1) /\ Cardinality(1..i - 1) = i - 1
  BY ONLY <1>8, UpTo
<1>10. Cardinality(1..i - 1) = Cardinality(before)
  BY ONLY <1>7, <1>9, FS_Surjection
<1> QED BY <1>9, <1>10 DEF before

LEMMA LengthIs ==
  ASSUME NEW T, NEW s \in Once(T)
  PROVE  Cardinality(ToSet(s)) = Len(s)
<1>1. /\ Len(s) \in Nat /\ DOMAIN s = 1..Len(s) /\ ToSet(s) = {s[j] : j \in 1..Len(s)}
      /\ \A j, k \in 1..Len(s) : s[j] = s[k] => j = k
  BY OnceIs
<1> DEFINE f == [j \in 1..Len(s) |-> s[j]]
<1>2. f \in Injection(1..Len(s), ToSet(s)) /\ f \in Surjection(1..Len(s), ToSet(s))
  BY <1>1 DEF Injection, Surjection, IsInjective
<1>3. IsFiniteSet(1..Len(s)) /\ Cardinality(1..Len(s)) = Len(s)
  BY <1>1, UpTo
<1> HIDE DEF f
<1>4. Cardinality(1..Len(s)) = Cardinality(ToSet(s))
  BY ONLY <1>2, <1>3, FS_Surjection
<1> QED BY <1>3, <1>4

\* The same entries in the same order are the same sequence.
LEMMA SameOrder ==
  ASSUME NEW T, NEW s \in Once(T), NEW u \in Once(T), ToSet(s) = ToSet(u),
         \A x, y \in ToSet(s) : Before(s, x, y) <=> Before(u, x, y)
  PROVE  s = u
<1>1. /\ s \in Seq(T) /\ Len(s) \in Nat /\ ToSet(s) = {s[j] : j \in 1..Len(s)}
      /\ u \in Seq(T) /\ Len(u) \in Nat /\ ToSet(u) = {u[j] : j \in 1..Len(u)}
  BY OnceIs
<1>2. Len(s) = Len(u)
  BY LengthIs
<1>3. ASSUME NEW i \in 1..Len(s) PROVE s[i] = u[i]
  <2>1. PICK j \in 1..Len(u) : u[j] = s[i]
    BY <1>1
  <2>2. {x \in ToSet(s) : Before(s, x, s[i])} = {x \in ToSet(u) : Before(u, x, u[j])}
    BY <1>1, <2>1
  <2>3. /\ Cardinality({x \in ToSet(s) : Before(s, x, s[i])}) = i - 1
        /\ Cardinality({x \in ToSet(u) : Before(u, x, u[j])}) = j - 1
    BY Preceding
  <2>4. i - 1 = j - 1
    BY ONLY <2>2, <2>3
  <2>5. i \in Int /\ j \in Int
    BY <1>1
  <2>6. i = j
    BY ONLY <2>4, <2>5
  <2> QED BY <2>1, <2>6
<1> QED BY <1>1, <1>2, <1>3, SeqEqual

\* What is kept stays in its order.
LEMMA FilterOrder ==
  ASSUME NEW T, NEW s \in Once(T), NEW S
  PROVE  /\ Filtered(s, S) \in Once(T) /\ ToSet(Filtered(s, S)) = ToSet(s) \cap S
         /\ \A x, y : Before(Filtered(s, S), x, y) <=> Before(s, x, y) /\ x \in S /\ y \in S
<1>1. s \in Seq(T) /\ IsInjective(s) /\ Len(s) \in Nat
  BY OnceIs
<1>2. PICK n \in 0..Len(s) : \E h \in [1..n -> 1..Len(s)] : Keeps(s, S, n, h)
  BY <1>1, FilterPlaces
<1>3. PICK g \in [1..n -> 1..Len(s)] : Keeps(s, S, n, g)
  BY <1>2
<1>4. Filtered(s, S) \in Once(T) /\ ToSet(Filtered(s, S)) = ToSet(s) \cap S
  BY <1>1, FilterKeeps DEF Once
<1>5. PICK r : r = Filtered(s, S)
  OBVIOUS
<1>6. r = [k \in 1..n |-> s[g[k]]]
  BY <1>3, <1>5 DEF Keeps
<1>7. Len(r) = n
  BY <1>1, <1>6
<1>8. ASSUME NEW x, NEW y, Before(r, x, y) PROVE Before(s, x, y) /\ x \in S /\ y \in S
  <2>1. PICK i, j \in 1..n : i < j /\ r[i] = x /\ r[j] = y
    BY <1>7, <1>8 DEF Before
  <2>2. g[i] < g[j] /\ s[g[i]] = x /\ s[g[j]] = y /\ x \in S /\ y \in S
    BY <1>3, <1>6, <2>1 DEF Keeps
  <2>3. g[i] \in 1..Len(s) /\ g[j] \in 1..Len(s)
    OBVIOUS
  <2> QED BY <2>2, <2>3 DEF Before
<1>9. ASSUME NEW x, NEW y, Before(s, x, y), x \in S, y \in S PROVE Before(r, x, y)
  <2>1. PICK i, j \in 1..Len(s) : i < j /\ s[i] = x /\ s[j] = y
    BY <1>9 DEF Before
  <2>2. PICK k, l \in 1..n : g[k] = i /\ g[l] = j
    BY <1>3, <1>9, <2>1 DEF Keeps
  <2>3. k < l
    <3>1. ~(l < k) /\ k # l
      BY <1>1, <1>3, <2>1, <2>2 DEF Keeps
    <3> QED BY <3>1
  <2>4. r[k] = x /\ r[l] = y
    BY <1>6, <2>1, <2>2
  <2> QED BY <1>7, <2>3, <2>4 DEF Before
<1> QED BY <1>4, <1>5, <1>8, <1>9

\* The entries of the first sequence come before those of the second.
LEMMA ConcatOrder ==
  ASSUME NEW T, NEW s \in Once(T), NEW u \in Once(T), Apart(s, u)
  PROVE  /\ s \o u \in Once(T) /\ ToSet(s \o u) = ToSet(s) \cup ToSet(u)
         /\ \A x, y : Before(s \o u, x, y) <=>
              Before(s, x, y) \/ Before(u, x, y) \/ (x \in ToSet(s) /\ y \in ToSet(u))
<1>1. /\ s \in Seq(T) /\ IsInjective(s) /\ Len(s) \in Nat /\ ToSet(s) = {s[i] : i \in 1..Len(s)}
      /\ u \in Seq(T) /\ IsInjective(u) /\ Len(u) \in Nat /\ ToSet(u) = {u[i] : i \in 1..Len(u)}
  BY OnceIs
<1>2. PICK r : r = s \o u
  OBVIOUS
<1>3. r \in Once(T) /\ ToSet(r) = ToSet(s) \cup ToSet(u)
  BY ONLY <1>1, <1>2, OnceConcat, Apart(s, u) DEF Once
<1>4. /\ Len(r) = Len(s) + Len(u)
      /\ \A i \in 1..Len(s) + Len(u) : r[i] = IF i <= Len(s) THEN s[i] ELSE u[i - Len(s)]
  BY <1>1, <1>2, ConcatProperties
<1>5. PICK m, n \in Nat : m = Len(s) /\ n = Len(u)
  BY <1>1
<1>6. /\ \A i \in 1..m : i \in 1..m + n /\ r[i] = s[i]
      /\ \A i \in 1..n : i + m \in 1..m + n /\ r[i + m] = u[i]
      /\ \A i \in 1..m + n : i \in 1..m \/ (i - m \in 1..n /\ r[i] = u[i - m])
  BY <1>4, <1>5
<1>7. Len(r) = m + n
  BY <1>4, <1>5
<1>8. ASSUME NEW x, NEW y, Before(r, x, y)
      PROVE  Before(s, x, y) \/ Before(u, x, y) \/ (x \in ToSet(s) /\ y \in ToSet(u))
  <2>1. PICK i, j \in 1..m + n : i < j /\ r[i] = x /\ r[j] = y
    BY <1>7, <1>8 DEF Before
  <2>2. CASE i \in 1..m /\ j \in 1..m
    BY <1>5, <1>6, <2>1, <2>2 DEF Before
  <2>3. CASE i \in 1..m /\ j \notin 1..m
    <3>1. r[i] = s[i] /\ j - m \in 1..n /\ r[j] = u[j - m]
      BY <1>6, <2>3
    <3>2. x \in ToSet(s) /\ y \in ToSet(u)
      BY <1>1, <1>5, <2>1, <2>3, <3>1
    <3> QED BY <3>2
  <2>4. CASE i \notin 1..m
    <3>1. j \notin 1..m /\ i - m < j - m
      BY <2>1, <2>4
    <3>2. /\ i - m \in 1..n /\ r[i] = u[i - m] /\ j - m \in 1..n /\ r[j] = u[j - m]
      BY <1>6, <2>4, <3>1
    <3> QED BY <1>5, <2>1, <3>1, <3>2 DEF Before
  <2> QED BY <2>2, <2>3, <2>4
<1>9. ASSUME NEW x, NEW y, Before(s, x, y) PROVE Before(r, x, y)
  BY <1>5, <1>6, <1>7, <1>9 DEF Before
<1>10. ASSUME NEW x, NEW y, Before(u, x, y) PROVE Before(r, x, y)
  <2>1. PICK i, j \in 1..n : i < j /\ u[i] = x /\ u[j] = y
    BY <1>5, <1>10 DEF Before
  <2>2. i + m \in 1..m + n /\ j + m \in 1..m + n /\ i + m < j + m
    BY <2>1
  <2> QED BY <1>6, <1>7, <2>1, <2>2 DEF Before
<1>11. ASSUME NEW x \in ToSet(s), NEW y \in ToSet(u) PROVE Before(r, x, y)
  <2>1. PICK i \in 1..m : s[i] = x
    BY <1>1, <1>5
  <2>2. PICK j \in 1..n : u[j] = y
    BY <1>1, <1>5
  <2>3. i \in 1..m + n /\ j + m \in 1..m + n /\ i < j + m
    BY <2>1, <2>2
  <2> QED BY <1>6, <1>7, <2>1, <2>2, <2>3 DEF Before
<1> QED BY <1>2, <1>3, <1>8, <1>9, <1>10, <1>11

\* What is at every place after an insertion and after a removal.
LEMMA InsertedPlaces ==
  ASSUME NEW T, NEW s \in Seq(T), NEW k \in 1..Len(s) + 1, NEW e \in T
  PROVE  /\ InsertAt(s, k, e) \in Seq(T) /\ Len(InsertAt(s, k, e)) = Len(s) + 1
         /\ InsertAt(s, k, e)[k] = e
         /\ \A j \in 1..Len(s) : InsertAt(s, k, e)[IF j < k THEN j ELSE j + 1] = s[j]
<1>1. Len(s) \in Nat /\ \A i \in 1..Len(s) : s[i] \in T
  BY InSeq
<1>2. PICK m \in Nat : m = Len(s)
  BY <1>1
<1>3. PICK a, b, c, d, r : /\ a = SubSeq(s, 1, k - 1) /\ b = SubSeq(s, k, Len(s)) /\ d = <<e>>
                           /\ c = a \o d /\ r = c \o b
  OBVIOUS
<1>4. /\ a \in Seq(T) /\ Len(a) = k - 1
      /\ \A j \in 1..k - 1 : a[j] = s[j]
  <2>1. 1 \in 1..m + 1 /\ k - 1 \in 0..m
    BY <1>2
  <2>2. a \in Seq(T)
    BY <1>2, <1>3, <2>1, OncePart
  <2> QED BY <1>1, <1>2, <1>3, <2>1, <2>2, SubSeqProperties
<1>5. /\ b \in Seq(T) /\ Len(b) = m + 1 - k
      /\ \A j \in 1..m + 1 - k : b[j] = s[k + j - 1]
  <2>1. k \in 1..m + 1 /\ m \in 0..m
    BY <1>2
  <2>2. b \in Seq(T)
    BY <1>2, <1>3, <2>1, OncePart
  <2>3. /\ Len(b) = IF k <= m THEN m - k + 1 ELSE 0
        /\ \A j \in 1..m - k + 1 : b[j] = s[k + j - 1]
    BY <1>1, <1>2, <1>3, <2>1, SubSeqProperties
  <2>4. m - k + 1 = m + 1 - k /\ (~(k <= m) => m + 1 - k = 0)
    BY <2>1
  <2> QED BY <2>2, <2>3, <2>4
<1>6. d \in Seq(T) /\ Len(d) = 1 /\ d[1] = e
  BY <1>3
<1>7. /\ c \in Seq(T) /\ Len(c) = k
      /\ \A j \in 1..k : c[j] = IF j < k THEN s[j] ELSE e
  <2>1. /\ c \in Seq(T) /\ Len(c) = Len(a) + Len(d)
        /\ \A j \in 1..Len(a) + Len(d) : c[j] = IF j <= Len(a) THEN a[j] ELSE d[j - Len(a)]
    <3>1. a \in Seq(T) /\ d \in Seq(T) /\ c = a \o d
      BY <1>3, <1>4, <1>6
    <3> QED BY ONLY <3>1, ConcatProperties
  <2>2. Len(a) + Len(d) = k
    BY <1>2, <1>4, <1>6
  <2>3. \A j \in 1..k : c[j] = IF j <= k - 1 THEN s[j] ELSE e
    <3>1. ASSUME NEW j \in 1..k PROVE c[j] = IF j <= k - 1 THEN s[j] ELSE e
      <4>1. c[j] = IF j <= k - 1 THEN a[j] ELSE d[j - (k - 1)]
        BY <1>4, <2>1, <2>2
      <4>2. j <= k - 1 => a[j] = s[j]
        BY <1>2, <1>4
      <4>3. ~(j <= k - 1) => j - (k - 1) = 1
        BY <1>2
      <4> QED BY <1>6, <4>1, <4>2, <4>3
    <3> QED BY <3>1
  <2>4. \A j \in 1..k : j <= k - 1 <=> j < k
    BY <1>2
  <2> QED BY <2>1, <2>2, <2>3, <2>4
<1>8. /\ r \in Seq(T) /\ Len(r) = m + 1
      /\ \A j \in 1..m + 1 : r[j] = IF j <= k THEN c[j] ELSE b[j - k]
  <2>1. /\ r \in Seq(T) /\ Len(r) = Len(c) + Len(b)
        /\ \A j \in 1..Len(c) + Len(b) : r[j] = IF j <= Len(c) THEN c[j] ELSE b[j - Len(c)]
    <3>1. c \in Seq(T) /\ b \in Seq(T) /\ r = c \o b
      BY <1>3, <1>5, <1>7
    <3> QED BY ONLY <3>1, ConcatProperties
  <2>2. Len(c) + Len(b) = m + 1
    BY <1>2, <1>5, <1>7
  <2> QED BY <1>7, <2>1, <2>2
<1>9. r[k] = e
  BY <1>2, <1>7, <1>8
<1>10. ASSUME NEW j \in 1..m PROVE r[IF j < k THEN j ELSE j + 1] = s[j]
  <2>1. CASE j < k
    BY <1>2, <1>7, <1>8, <2>1
  <2>2. CASE ~(j < k)
    <3>1. j + 1 - k \in 1..m + 1 - k /\ k + (j + 1 - k) - 1 = j /\ j + 1 \in 1..m + 1 /\ ~(j + 1 <= k)
      BY <1>2, <2>2
    <3>2. r[j + 1] = b[j + 1 - k]
      <4>1. PICK l : l = j + 1
        OBVIOUS
      <4>2. l \in 1..m + 1 /\ ~(l <= k)
        BY <3>1, <4>1
      <4>3. r[l] = b[l - k]
        BY ONLY <1>8, <4>2
      <4> QED BY ONLY <4>1, <4>3
    <3>3. b[j + 1 - k] = s[k + (j + 1 - k) - 1]
      BY <1>5, <3>1
    <3> QED BY <2>2, <3>1, <3>2, <3>3
  <2> QED BY <2>1, <2>2
<1>11. r = InsertAt(s, k, e)
  BY <1>3 DEF InsertAt
<1> QED BY <1>2, <1>8, <1>9, <1>10, <1>11

LEMMA RemovedPlaces ==
  ASSUME NEW T, NEW s \in Seq(T), NEW k \in 1..Len(s)
  PROVE  /\ RemoveAt(s, k) \in Seq(T) /\ Len(RemoveAt(s, k)) + 1 = Len(s)
         /\ \A j \in 1..Len(RemoveAt(s, k)) : RemoveAt(s, k)[j] = s[IF j < k THEN j ELSE j + 1]
<1>1. Len(s) \in Nat /\ \A i \in 1..Len(s) : s[i] \in T
  BY InSeq
<1>2. PICK m \in Nat : m = Len(s)
  BY <1>1
<1>3. PICK a, b, r : a = SubSeq(s, 1, k - 1) /\ b = SubSeq(s, k + 1, Len(s)) /\ r = a \o b
  OBVIOUS
<1>4. a \in Seq(T) /\ Len(a) = k - 1 /\ \A j \in 1..k - 1 : a[j] = s[j]
  <2>1. 1 \in 1..m + 1 /\ k - 1 \in 0..m
    BY <1>2
  <2>2. a \in Seq(T)
    BY <1>2, <1>3, <2>1, OncePart
  <2> QED BY <1>1, <1>2, <1>3, <2>1, <2>2, SubSeqProperties
<1>5. b \in Seq(T) /\ Len(b) = m - k /\ \A j \in 1..m - k : b[j] = s[k + j]
  <2>1. k + 1 \in 1..m + 1 /\ m \in 0..m
    BY <1>2
  <2>2. b \in Seq(T)
    BY <1>2, <1>3, <2>1, OncePart
  <2>3. /\ Len(b) = IF k + 1 <= m THEN m - (k + 1) + 1 ELSE 0
        /\ \A j \in 1..m - (k + 1) + 1 : b[j] = s[(k + 1) + j - 1]
    BY <1>1, <1>2, <1>3, <2>1, SubSeqProperties
  <2>4. m - (k + 1) + 1 = m - k /\ (~(k + 1 <= m) => m - k = 0)
    BY <1>2
  <2>5. \A j \in 1..m - k : (k + 1) + j - 1 = k + j
    BY <1>2
  <2> QED BY <2>2, <2>3, <2>4, <2>5
<1>6. /\ r \in Seq(T) /\ Len(r) = m - 1
      /\ \A j \in 1..m - 1 : r[j] = IF j <= k - 1 THEN a[j] ELSE b[j - (k - 1)]
  <2>1. /\ r \in Seq(T) /\ Len(r) = Len(a) + Len(b)
        /\ \A j \in 1..Len(a) + Len(b) : r[j] = IF j <= Len(a) THEN a[j] ELSE b[j - Len(a)]
    <3>1. a \in Seq(T) /\ b \in Seq(T) /\ r = a \o b
      BY <1>3, <1>4, <1>5
    <3> QED BY ONLY <3>1, ConcatProperties
  <2>2. Len(a) + Len(b) = m - 1
    BY <1>2, <1>4, <1>5
  <2> QED BY <1>4, <2>1, <2>2
<1>7. ASSUME NEW j \in 1..m - 1 PROVE r[j] = s[IF j < k THEN j ELSE j + 1]
  <2>1. CASE j < k
    BY <1>2, <1>4, <1>6, <2>1
  <2>2. CASE ~(j < k)
    <3>1. j - (k - 1) \in 1..m - k /\ k + (j - (k - 1)) = j + 1 /\ ~(j <= k - 1)
      BY <1>2, <2>2
    <3>2. r[j] = b[j - (k - 1)] /\ b[j - (k - 1)] = s[k + (j - (k - 1))]
      BY <1>5, <1>6, <3>1
    <3> QED BY <2>2, <3>1, <3>2
  <2> QED BY <2>1, <2>2
<1>8. r = RemoveAt(s, k)
  BY <1>3 DEF RemoveAt
<1>9. m - 1 + 1 = m
  BY <1>2
<1> QED BY <1>2, <1>6, <1>7, <1>8, <1>9

\* n has the entries of s in the order of s, but for p, which it has before q
\* (side 0) or after q (side 1).
Beside(s, n, p, q, side) ==
  /\ ToSet(n) = ToSet(s) /\ p \in ToSet(s) /\ q \in ToSet(s) /\ p # q
  /\ \A x, y \in ToSet(s) \ {p} : Before(n, x, y) <=> Before(s, x, y)
  /\ \A x \in ToSet(s) \ {p} : Before(n, x, p) <=> Before(s, x, q) \/ (side = 1 /\ x = q)

LEMMA BesideUnique ==
  ASSUME NEW T, NEW s, NEW u \in Once(T), NEW n \in Once(T), NEW p, NEW q, NEW side,
         Beside(s, u, p, q, side), Beside(s, n, p, q, side)
  PROVE  u = n
<1>1. ToSet(u) = ToSet(n) /\ ToSet(u) = ToSet(s)
  BY DEF Beside
<1>2. ASSUME NEW x \in ToSet(u), NEW y \in ToSet(u) PROVE Before(u, x, y) <=> Before(n, x, y)
  <2>1. CASE x # p /\ y # p
    BY <1>1, <2>1 DEF Beside
  <2>2. CASE x # p /\ y = p
    BY <1>1, <2>2 DEF Beside
  <2>3. CASE x = p /\ y # p
    <3>1. Before(u, y, x) <=> Before(n, y, x)
      BY <1>1, <2>3 DEF Beside
    <3> QED BY <1>1, <3>1, Places
  <2>4. CASE x = p /\ y = p
    BY <1>1, <2>4, Places
  <2> QED BY <2>1, <2>2, <2>3, <2>4
<1> QED BY <1>1, <1>2, SameOrder

\* Seen among the entries in V only, the place is the same.
LEMMA BesideFiltered ==
  ASSUME NEW T, NEW s \in Once(T), NEW n \in Once(T), NEW p, NEW q, NEW side,
         Beside(s, n, p, q, side), NEW V, p \in V, q \in V
  PROVE  Beside(Filtered(s, V), Filtered(n, V), p, q, side)
<1>1. /\ ToSet(Filtered(s, V)) = ToSet(s) \cap V
      /\ ToSet(Filtered(n, V)) = ToSet(n) \cap V
      /\ \A x, y : Before(Filtered(s, V), x, y) <=> Before(s, x, y) /\ x \in V /\ y \in V
      /\ \A x, y : Before(Filtered(n, V), x, y) <=> Before(n, x, y) /\ x \in V /\ y \in V
  BY FilterOrder
<1>2. PICK a, b : a = Filtered(s, V) /\ b = Filtered(n, V)
  OBVIOUS
<1>3. Beside(a, b, p, q, side)
  BY <1>1, <1>2 DEF Beside
<1> QED BY <1>2, <1>3

\* And those among which it is not are the same as before.
LEMMA BesideOthers ==
  ASSUME NEW T, NEW s \in Once(T), NEW n \in Once(T), NEW p, NEW q, NEW side,
         Beside(s, n, p, q, side), NEW H, p \notin H
  PROVE  Filtered(n, H) = Filtered(s, H)
<1>1. /\ Filtered(s, H) \in Once(T) /\ ToSet(Filtered(s, H)) = ToSet(s) \cap H
      /\ Filtered(n, H) \in Once(T) /\ ToSet(Filtered(n, H)) = ToSet(n) \cap H
      /\ \A x, y : Before(Filtered(s, H), x, y) <=> Before(s, x, y) /\ x \in H /\ y \in H
      /\ \A x, y : Before(Filtered(n, H), x, y) <=> Before(n, x, y) /\ x \in H /\ y \in H
  BY FilterOrder
<1>2. PICK a, b : a = Filtered(s, H) /\ b = Filtered(n, H)
  OBVIOUS
<1>3. ToSet(a) = ToSet(b) /\ \A x, y \in ToSet(a) : Before(a, x, y) <=> Before(b, x, y)
  BY <1>1, <1>2 DEF Beside
<1>4. a = b
  BY <1>1, <1>2, <1>3, SameOrder
<1> QED BY <1>2, <1>4

LEMMA InsertedOrder ==
  ASSUME NEW T, NEW s \in Once(T), NEW k \in 1..Len(s) + 1, NEW e \in T, e \notin ToSet(s)
  PROVE  /\ InsertAt(s, k, e) \in Once(T) /\ ToSet(InsertAt(s, k, e)) = ToSet(s) \cup {e}
         /\ \A x, y \in ToSet(s) : Before(InsertAt(s, k, e), x, y) <=> Before(s, x, y)
         /\ \A j \in 1..Len(s) : Before(InsertAt(s, k, e), s[j], e) <=> j < k
<1>1. /\ s \in Seq(T) /\ IsInjective(s) /\ Len(s) \in Nat
      /\ ToSet(s) = {s[i] : i \in 1..Len(s)}
  BY OnceIs
<1>2. PICK n : n = InsertAt(s, k, e)
  OBVIOUS
<1>3. n \in Once(T) /\ ToSet(n) = ToSet(s) \cup {e}
  BY <1>1, <1>2, OnceInserted DEF Once
<1>4. PICK m \in Nat : m = Len(s)
  BY <1>1
<1> DEFINE P(j) == IF j < k THEN j ELSE j + 1
<1>5. Len(n) = m + 1 /\ n[k] = e /\ \A j \in 1..m : n[P(j)] = s[j]
  <2>1. /\ Len(n) = Len(s) + 1 /\ n[k] = e
        /\ \A j \in 1..Len(s) : n[IF j < k THEN j ELSE j + 1] = s[j]
    BY ONLY <1>1, <1>2, InsertedPlaces, k \in 1..Len(s) + 1, e \in T
  <2> QED BY <1>4, <2>1
<1>6. /\ \A j \in 1..m : P(j) \in 1..Len(n) /\ (P(j) < k <=> j < k)
      /\ \A i, j \in 1..m : P(i) < P(j) <=> i < j
      /\ k \in 1..Len(n)
  BY <1>4, <1>5
<1> HIDE DEF P
<1>7. \A i, j \in 1..Len(n) : Before(n, n[i], n[j]) <=> i < j
  BY <1>3, Places
<1>8. \A i, j \in 1..m : Before(s, s[i], s[j]) <=> i < j
  BY <1>4, Places
<1>9. ASSUME NEW x \in ToSet(s), NEW y \in ToSet(s) PROVE Before(n, x, y) <=> Before(s, x, y)
  <2>1. PICK i, j \in 1..m : s[i] = x /\ s[j] = y
    BY <1>1, <1>4
  <2>2. n[P(i)] = x /\ n[P(j)] = y /\ P(i) \in 1..Len(n) /\ P(j) \in 1..Len(n)
    BY <1>5, <1>6, <2>1
  <2> QED BY <1>6, <1>7, <1>8, <2>1, <2>2
<1>10. ASSUME NEW j \in 1..m PROVE Before(n, s[j], e) <=> j < k
  BY <1>5, <1>6, <1>7
<1> QED BY <1>2, <1>3, <1>4, <1>9, <1>10

LEMMA RemovedOrder ==
  ASSUME NEW T, NEW s \in Once(T), NEW k \in 1..Len(s)
  PROVE  RemoveAt(s, k) = Filtered(s, ToSet(s) \ {s[k]})
<1>1. /\ s \in Seq(T) /\ IsInjective(s) /\ Len(s) \in Nat
      /\ ToSet(s) = {s[i] : i \in 1..Len(s)}
  BY OnceIs
<1>2. PICK r, f, S : r = RemoveAt(s, k) /\ S = ToSet(s) \ {s[k]} /\ f = Filtered(s, S)
  OBVIOUS
<1>3. r \in Once(T) /\ ToSet(r) = S
  BY <1>1, <1>2, OnceRemoved DEF Once
<1>4. /\ f \in Once(T) /\ ToSet(f) = S
      /\ \A x, y : Before(f, x, y) <=> Before(s, x, y) /\ x \in S /\ y \in S
  BY <1>2, FilterOrder
<1> DEFINE Q(j) == IF j < k THEN j ELSE j + 1
<1>5. Len(r) + 1 = Len(s) /\ \A j \in 1..Len(r) : r[j] = s[Q(j)]
  BY <1>1, <1>2, RemovedPlaces
<1>6. Len(r) \in Nat /\ ToSet(r) = {r[i] : i \in 1..Len(r)}
  BY <1>3, OnceIs
<1>7. PICK m \in Nat : m = Len(r)
  BY <1>6
<1>8. /\ \A j \in 1..m : Q(j) \in 1..Len(s)
      /\ \A i, j \in 1..m : Q(i) < Q(j) <=> i < j
  BY <1>5, <1>7
<1> HIDE DEF Q
<1>9. ASSUME NEW x \in S, NEW y \in S PROVE Before(r, x, y) <=> Before(f, x, y)
  <2>1. PICK i, j \in 1..m : r[i] = x /\ r[j] = y
    BY <1>3, <1>6, <1>7
  <2>2. s[Q(i)] = x /\ s[Q(j)] = y
    BY <1>5, <1>7, <2>1
  <2>3. Before(r, x, y) <=> i < j
    BY <1>3, <1>7, <2>1, Places
  <2>4. Before(s, x, y) <=> Q(i) < Q(j)
    BY <1>8, <2>1, <2>2, Places
  <2> QED BY <1>4, <1>8, <2>3, <2>4
<1>10. r = f
  BY <1>3, <1>4, <1>9, SameOrder
<1> QED BY <1>2, <1>10

Side(from, to) == IF from < to THEN 1 ELSE 0

\* Taken out and put back beside another one.
LEMMA MovedBeside ==
  ASSUME NEW T, NEW s \in Once(T), NEW p \in ToSet(s), NEW q \in ToSet(s), p # q,
         NEW side \in {0, 1}, NEW rest, rest = Filtered(s, ToSet(s) \ {p}),
         NEW k \in 1..Len(rest), rest[k] = q
  PROVE  /\ InsertAt(rest, k + side, p) \in Once(T)
         /\ Beside(s, InsertAt(rest, k + side, p), p, q, side)
<1>1. /\ rest \in Once(T) /\ ToSet(rest) = ToSet(s) \ {p}
      /\ \A x, y : Before(rest, x, y) <=> Before(s, x, y) /\ x \in ToSet(s) \ {p} /\ y \in ToSet(s) \ {p}
  BY FilterOrder
<1>2. Len(rest) \in Nat /\ ToSet(rest) = {rest[i] : i \in 1..Len(rest)} /\ p \in T
  <2>1. Len(rest) \in Nat /\ ToSet(rest) = {rest[i] : i \in 1..Len(rest)}
    BY ONLY <1>1, OnceIs
  <2>2. ToSet(s) \subseteq T
    BY OnceIs
  <2> QED BY <2>1, <2>2
<1>3. PICK n, at : at = k + side /\ n = InsertAt(rest, at, p)
  OBVIOUS
<1>4. at \in 1..Len(rest) + 1
  BY <1>2, <1>3
<1>5. /\ n \in Once(T) /\ ToSet(n) = ToSet(rest) \cup {p}
      /\ \A x, y \in ToSet(rest) : Before(n, x, y) <=> Before(rest, x, y)
      /\ \A j \in 1..Len(rest) : Before(n, rest[j], p) <=> j < at
  <2>1. p \notin ToSet(rest) /\ p \in T /\ rest \in Once(T)
    BY <1>1, <1>2
  <2> QED BY ONLY <1>3, <1>4, <2>1, InsertedOrder
<1>6. ASSUME NEW x \in ToSet(s) \ {p}
      PROVE  Before(n, x, p) <=> Before(s, x, q) \/ (side = 1 /\ x = q)
  <2>1. PICK j \in 1..Len(rest) : rest[j] = x
    <3>1. x \in ToSet(rest)
      BY <1>1
    <3> QED BY ONLY <1>2, <3>1
  <2>2. Before(n, x, p) <=> j < at
    BY <1>5, <2>1
  <2>3. Before(s, x, q) <=> j < k
    <3>1. Before(rest, x, q) <=> j < k
      BY ONLY <1>1, <2>1, Places, k \in 1..Len(rest), rest[k] = q
    <3> QED BY <1>1, <3>1
  <2>4. x = q <=> j = k
    BY <1>1, <2>1, OnceIs
  <2>5. j < at <=> j < k \/ (side = 1 /\ j = k)
    BY <1>3
  <2> QED BY <2>2, <2>3, <2>4, <2>5
<1>7. Beside(s, n, p, q, side)
  <2>1. ToSet(n) = ToSet(s) /\ p \in ToSet(s) /\ q \in ToSet(s) /\ p # q
    BY <1>1, <1>5
  <2>2. \A x, y \in ToSet(s) \ {p} : Before(n, x, y) <=> Before(s, x, y)
    BY <1>1, <1>5
  <2> QED BY ONLY <1>6, <2>1, <2>2 DEF Beside
<1> QED BY <1>3, <1>5, <1>7

\* Taken out at one place and put back at another: beside the entry there.
LEMMA MovedPlace ==
  ASSUME NEW T, NEW s \in Once(T), NEW i \in 1..Len(s), NEW k \in 1..Len(s), i # k
  PROVE  /\ InsertAt(RemoveAt(s, i), k, s[i]) \in Once(T)
         /\ Beside(s, InsertAt(RemoveAt(s, i), k, s[i]), s[i], s[k], Side(i, k))
<1>1. /\ s \in Seq(T) /\ Len(s) \in Nat /\ ToSet(s) = {s[j] : j \in 1..Len(s)}
      /\ \A j, l \in 1..Len(s) : s[j] = s[l] => j = l
  BY OnceIs
<1>2. PICK rest : rest = RemoveAt(s, i)
  OBVIOUS
<1>3. rest = Filtered(s, ToSet(s) \ {s[i]})
  BY <1>2, RemovedOrder
<1>4. /\ Len(rest) + 1 = Len(s)
      /\ \A j \in 1..Len(rest) : rest[j] = s[IF j < i THEN j ELSE j + 1]
  BY <1>1, <1>2, RemovedPlaces
<1>5. rest \in Seq(T) /\ Len(rest) \in Nat
  <2>1. rest \in Once(T)
    BY <1>3, FilterOrder
  <2> QED BY <2>1, OnceIs
<1>6. PICK m \in Nat : m = Len(rest)
  BY <1>5
<1>7. PICK l, side : side = Side(i, k) /\ l = k - side
  OBVIOUS
<1>8. side \in {0, 1} /\ l \in 1..m /\ l + side = k /\ k = IF l < i THEN l ELSE l + 1
  BY <1>4, <1>6, <1>7 DEF Side
<1>9. rest[l] = s[k]
  BY <1>4, <1>6, <1>8
<1>10. s[i] \in ToSet(s) /\ s[k] \in ToSet(s) /\ s[i] # s[k]
  BY <1>1
<1>11. /\ InsertAt(rest, l + side, s[i]) \in Once(T)
       /\ Beside(s, InsertAt(rest, l + side, s[i]), s[i], s[k], side)
  BY <1>3, <1>6, <1>8, <1>9, <1>10, MovedBeside
<1> QED BY <1>2, <1>7, <1>8, <1>11

\* Put back where it was.
LEMMA PutBack ==
  ASSUME NEW T, NEW s \in Once(T), NEW i \in 1..Len(s)
  PROVE  InsertAt(RemoveAt(s, i), i, s[i]) = s
<1>1. s \in Seq(T) /\ Len(s) \in Nat /\ s[i] \in T
  BY OnceIs, ElementOfSeq
<1>2. PICK rest : rest = RemoveAt(s, i)
  OBVIOUS
<1>3. /\ rest \in Seq(T) /\ Len(rest) + 1 = Len(s)
      /\ \A j \in 1..Len(rest) : rest[j] = s[IF j < i THEN j ELSE j + 1]
  BY <1>1, <1>2, RemovedPlaces
<1>4. Len(rest) \in Nat
  BY <1>3, InSeq
<1>5. PICK m \in Nat : m = Len(rest)
  BY <1>4
<1>6. PICK n : n = InsertAt(rest, i, s[i])
  OBVIOUS
<1>7. i \in 1..m + 1
  BY <1>3, <1>5
<1>8. /\ n \in Seq(T) /\ Len(n) = m + 1 /\ n[i] = s[i]
      /\ \A j \in 1..m : n[IF j < i THEN j ELSE j + 1] = rest[j]
  <2>1. PICK e : e = s[i]
    OBVIOUS
  <2>2. rest \in Seq(T) /\ e \in T /\ i \in 1..Len(rest) + 1 /\ n = InsertAt(rest, i, e)
    BY <1>1, <1>3, <1>5, <1>6, <1>7, <2>1
  <2>3. /\ n \in Seq(T) /\ Len(n) = Len(rest) + 1 /\ n[i] = e
        /\ \A j \in 1..Len(rest) : n[IF j < i THEN j ELSE j + 1] = rest[j]
    BY ONLY <2>2, InsertedPlaces
  <2> QED BY <1>5, <2>1, <2>3
<1>9. ASSUME NEW j \in 1..m + 1 PROVE n[j] = s[j]
  <2>1. CASE j < i
    BY <1>3, <1>5, <1>7, <1>8, <2>1
  <2>2. CASE j = i
    BY <1>8, <2>2
  <2>3. CASE i < j
    <3>1. j - 1 \in 1..m /\ ~(j - 1 < i) /\ j - 1 + 1 = j
      BY <1>7, <2>3
    <3>2. n[j - 1 + 1] = rest[j - 1] /\ rest[j - 1] = s[j - 1 + 1]
      BY <1>3, <1>5, <1>8, <3>1
    <3> QED BY <3>1, <3>2
  <2>4. j < i \/ j = i \/ i < j
    BY <1>7
  <2> QED BY <2>1, <2>2, <2>3, <2>4
<1>10. n = s
  BY <1>1, <1>3, <1>5, <1>8, <1>9, SeqEqual
<1> QED BY <1>2, <1>6, <1>10

\* An entry that exchanges its place with a neighbour moves beside it.
LEMMA Exchanged ==
  ASSUME NEW T, NEW s \in Once(T), NEW i \in 1..Len(s), NEW k \in 1..Len(s),
         i + 1 = k \/ k + 1 = i
  PROVE  [s EXCEPT ![i] = s[k], ![k] = s[i]] = InsertAt(RemoveAt(s, i), k, s[i])
<1>1. s \in Seq(T) /\ Len(s) \in Nat /\ s[i] \in T /\ s[k] \in T /\ DOMAIN s = 1..Len(s)
  BY OnceIs, ElementOfSeq
<1>2. PICK rest : rest = RemoveAt(s, i)
  OBVIOUS
<1>3. /\ rest \in Seq(T) /\ Len(rest) + 1 = Len(s)
      /\ \A j \in 1..Len(rest) : rest[j] = s[IF j < i THEN j ELSE j + 1]
  BY <1>1, <1>2, RemovedPlaces
<1>4. Len(rest) \in Nat
  BY <1>3, InSeq
<1>5. PICK m \in Nat : m = Len(rest)
  BY <1>4
<1>6. PICK n : n = InsertAt(rest, k, s[i])
  OBVIOUS
<1>7. i \in 1..m + 1 /\ k \in 1..m + 1
  BY <1>3, <1>5
<1>8. /\ n \in Seq(T) /\ Len(n) = m + 1 /\ n[k] = s[i]
      /\ \A j \in 1..m : n[IF j < k THEN j ELSE j + 1] = rest[j]
  <2>1. PICK e : e = s[i]
    OBVIOUS
  <2>2. rest \in Seq(T) /\ e \in T /\ k \in 1..Len(rest) + 1 /\ n = InsertAt(rest, k, e)
    BY <1>1, <1>3, <1>5, <1>6, <1>7, <2>1
  <2>3. /\ n \in Seq(T) /\ Len(n) = Len(rest) + 1 /\ n[k] = e
        /\ \A j \in 1..Len(rest) : n[IF j < k THEN j ELSE j + 1] = rest[j]
    BY ONLY <2>2, InsertedPlaces
  <2> QED BY <1>5, <2>1, <2>3
<1>9. PICK w : w = [s EXCEPT ![i] = s[k], ![k] = s[i]]
  OBVIOUS
<1>10. /\ w \in Seq(T) /\ Len(w) = m + 1
       /\ \A j \in 1..m + 1 : w[j] = IF j = k THEN s[i] ELSE IF j = i THEN s[k] ELSE s[j]
  <2>1. PICK u : u = [s EXCEPT ![i] = s[k]]
    OBVIOUS
  <2>2. u \in Seq(T) /\ Len(u) = Len(s) /\ \A j \in 1..Len(s) : u[j] = IF j = i THEN s[k] ELSE s[j]
    BY <1>1, <2>1, ExceptSeq
  <2>3. w = [u EXCEPT ![k] = s[i]]
    BY <1>9, <2>1
  <2>4. w \in Seq(T) /\ Len(w) = Len(u) /\ \A j \in 1..Len(u) : w[j] = IF j = k THEN s[i] ELSE u[j]
    BY <1>1, <2>2, <2>3, ExceptSeq
  <2> QED BY <1>3, <1>5, <2>2, <2>4
<1>11. ASSUME NEW j \in 1..m + 1 PROVE n[j] = w[j]
  <2>1. w[j] = IF j = k THEN s[i] ELSE IF j = i THEN s[k] ELSE s[j]
    BY <1>10
  <2>2. CASE j = k
    BY <1>8, <2>1, <2>2
  <2>3. CASE j < k
    <3>1. j \in 1..m /\ n[j] = rest[j] /\ rest[j] = s[IF j < i THEN j ELSE j + 1]
      BY <1>3, <1>5, <1>7, <1>8, <2>3
    <3>2. j < i \/ (j = i /\ j + 1 = k)
      BY <1>7, <2>3
    <3> QED BY <1>7, <2>1, <2>3, <3>1, <3>2
  <2>4. CASE k < j
    <3>1. j - 1 \in 1..m /\ ~(j - 1 < k) /\ j - 1 + 1 = j
      BY <1>7, <2>4
    <3>2. n[j - 1 + 1] = rest[j - 1] /\ rest[j - 1] = s[IF j - 1 < i THEN j - 1 ELSE j - 1 + 1]
      BY <1>3, <1>5, <1>8, <3>1
    <3>3. (j - 1 < i /\ j = i /\ j - 1 = k) \/ (~(j - 1 < i) /\ j # i)
      BY <1>7, <2>4
    <3> QED BY <1>7, <2>1, <2>4, <3>1, <3>2, <3>3
  <2>5. j < k \/ j = k \/ k < j
    BY <1>7
  <2> QED BY <2>2, <2>3, <2>4, <2>5
<1>12. n = w
  BY <1>8, <1>10, <1>11, SeqEqual
<1> QED BY <1>2, <1>6, <1>9, <1>12

\* Places that differ in a sequence differ alike among what is kept of it.
LEMMA SideIs ==
  ASSUME NEW T, NEW s \in Once(T), NEW V, NEW v, v = Filtered(s, V),
         NEW i \in 1..Len(s), NEW k \in 1..Len(s),
         NEW a \in 1..Len(v), NEW b \in 1..Len(v), v[a] = s[i], v[b] = s[k]
  PROVE  Side(i, k) = Side(a, b)
<1>1. /\ v \in Once(T) /\ ToSet(v) = ToSet(s) \cap V
      /\ \A x, y : Before(v, x, y) <=> Before(s, x, y) /\ x \in V /\ y \in V
  BY FilterOrder
<1>2. v[a] \in V /\ v[b] \in V
  <2>1. v[a] \in ToSet(v) /\ v[b] \in ToSet(v)
    BY ONLY <1>1, OnceIs, a \in 1..Len(v), b \in 1..Len(v)
  <2> QED BY <1>1, <2>1
<1>3. Before(v, v[a], v[b]) <=> a < b
  BY ONLY <1>1, Places, a \in 1..Len(v), b \in 1..Len(v)
<1>4. Before(s, s[i], s[k]) <=> i < k
  BY ONLY Places, s \in Once(T), i \in 1..Len(s), k \in 1..Len(s)
<1>5. i < k <=> a < b
  BY <1>1, <1>2, <1>3, <1>4
<1> QED BY ONLY <1>5 DEF Side

\* An entry moved beside another one in the whole order is, among what is kept,
\* at the place of that one.
LEMMA KeptMoves ==
  ASSUME NEW T, NEW s \in Once(T), NEW V, NEW v, v = Filtered(s, V),
         NEW from \in 1..Len(v), NEW to \in 1..Len(v), from # to,
         NEW n \in Once(T), Beside(s, n, v[from], v[to], Side(from, to))
  PROVE  Filtered(n, V) = InsertAt(RemoveAt(v, from), to, v[from])
<1>1. v \in Once(T) /\ ToSet(v) = ToSet(s) \cap V
  BY FilterOrder
<1>2. v[from] \in V /\ v[to] \in V
  <2>1. v[from] \in ToSet(v) /\ v[to] \in ToSet(v)
    BY ONLY <1>1, OnceIs, from \in 1..Len(v), to \in 1..Len(v)
  <2> QED BY <1>1, <2>1
<1>3. PICK m, w : m = Filtered(n, V) /\ w = InsertAt(RemoveAt(v, from), to, v[from])
  OBVIOUS
<1>4. m \in Once(T)
  BY <1>3, FilterOrder
<1>5. Beside(v, m, v[from], v[to], Side(from, to))
  BY <1>2, <1>3, BesideFiltered
<1>6. w \in Once(T) /\ Beside(v, w, v[from], v[to], Side(from, to))
  BY ONLY <1>1, <1>3, MovedPlace, from \in 1..Len(v), to \in 1..Len(v), from # to
<1>7. m = w
  BY ONLY <1>4, <1>5, <1>6, BesideUnique
<1> QED BY <1>3, <1>7

\* The entries of s: first those that are in a stored order, then the rest.
Full(order, s) == Filtered(order, ToSet(s)) \o Filtered(s, ToSet(s) \ ToSet(order))

LEMMA FullOrderIs ==
  ASSUME NEW T, NEW order \in Once(T), NEW s \in Once(T)
  PROVE  /\ Full(order, s) \in Once(T) /\ ToSet(Full(order, s)) = ToSet(s)
         /\ \A x, y \in ToSet(s) : Before(Full(order, s), x, y) <=>
              \/ Before(order, x, y)
              \/ x \in ToSet(order) /\ y \notin ToSet(order)
              \/ x \notin ToSet(order) /\ y \notin ToSet(order) /\ Before(s, x, y)
<1>1. PICK a, b : a = Filtered(order, ToSet(s)) /\ b = Filtered(s, ToSet(s) \ ToSet(order))
  OBVIOUS
<1>2. /\ a \in Once(T) /\ ToSet(a) = ToSet(order) \cap ToSet(s)
      /\ \A x, y : Before(a, x, y) <=> Before(order, x, y) /\ x \in ToSet(s) /\ y \in ToSet(s)
  BY <1>1, FilterOrder
<1>3. /\ b \in Once(T) /\ ToSet(b) = ToSet(s) \ ToSet(order)
      /\ \A x, y : Before(b, x, y) <=>
           Before(s, x, y) /\ x \in ToSet(s) \ ToSet(order) /\ y \in ToSet(s) \ ToSet(order)
  <2>1. PICK S : S = ToSet(s) \ ToSet(order)
    OBVIOUS
  <2>2. /\ b \in Once(T) /\ ToSet(b) = ToSet(s) \cap S
        /\ \A x, y : Before(b, x, y) <=> Before(s, x, y) /\ x \in S /\ y \in S
    BY <1>1, <2>1, FilterOrder
  <2> QED BY <2>1, <2>2
<1>4. Apart(a, b)
  BY <1>2, <1>3 DEF Apart
<1>5. /\ a \o b \in Once(T) /\ ToSet(a \o b) = ToSet(a) \cup ToSet(b)
      /\ \A x, y : Before(a \o b, x, y) <=>
           Before(a, x, y) \/ Before(b, x, y) \/ (x \in ToSet(a) /\ y \in ToSet(b))
  BY ONLY <1>2, <1>3, <1>4, ConcatOrder
<1>6. PICK f : f = a \o b
  OBVIOUS
<1>7. f = Full(order, s)
  BY <1>1, <1>6 DEF Full
<1> QED BY <1>2, <1>3, <1>5, <1>6, <1>7

\* An order of all the entries is that of the list.
LEMMA FullAgain ==
  ASSUME NEW T, NEW order \in Once(T), NEW s \in Once(T), ToSet(order) = ToSet(s)
  PROVE  Full(order, s) = order
<1>1. PICK f : f = Full(order, s)
  OBVIOUS
<1>2. /\ f \in Once(T) /\ ToSet(f) = ToSet(s)
      /\ \A x, y \in ToSet(s) : Before(f, x, y) <=>
              \/ Before(order, x, y)
              \/ x \in ToSet(order) /\ y \notin ToSet(order)
              \/ x \notin ToSet(order) /\ y \notin ToSet(order) /\ Before(s, x, y)
  BY <1>1, FullOrderIs
<1>3. f = order
  BY <1>2, SameOrder
<1> QED BY <1>1, <1>3

-----------------------------------------------------------------------------
(* The panel. What tabs render, what they have stored and what an Undo     *)
(* would bring back are preferences that list no page twice.               *)

Prefs ==
  {x \in [order : Seq(Pages), hidden : SUBSET (Pages \ Pinned)] : IsInjective(x.order)}
Toast ==
  [kind : {"none", "hide", "reset"}, page : Pages \cup {"none"}, prefs : Prefs, before : Prefs]
PanelTab == [loaded : 1..Len(Releases), view : Prefs, toast : Toast]

PanelInv ==
  /\ stored \in Prefs
  /\ changes \in 0..MaxChanges /\ release \in 1..Len(Releases)
  /\ tab \in [Tabs -> PanelTab] /\ \A t \in Tabs : tab[t].loaded <= release
  /\ drag # NoDrag =>
       drag.tab \in Tabs /\ drag.page \in ToSet(Registry(drag.tab)) /\ changes < MaxChanges

LEMMA PanelBounds ==
  /\ Len(Releases) \in Nat \ {0} /\ MaxChanges \in Nat /\ "none" \notin Tabs
  /\ \A r \in 1..Len(Releases) : Releases[r] \in Seq(Pages) /\ IsInjective(Releases[r])
BY NavAssumption

LEMMA IndexIs ==
  ASSUME NEW T, NEW s \in Seq(T), NEW p \in ToSet(s)
  PROVE  IndexOf(s, p) \in 1..Len(s) /\ s[IndexOf(s, p)] = p
<1>1. \E i \in 1..Len(s) : s[i] = p
  BY InSeq
<1> QED BY <1>1 DEF IndexOf

\* Every page of a registry, once, in whatever order preferences hold.
LEMMA FullIs ==
  ASSUME NEW x \in Prefs, NEW pages \in Seq(Pages), IsInjective(pages)
  PROVE  /\ FullOrder(x, pages) \in Seq(Pages) /\ IsInjective(FullOrder(x, pages))
         /\ ToSet(FullOrder(x, pages)) = ToSet(pages)
<1>1. x.order \in Once(Pages) /\ pages \in Once(Pages)
  BY DEF Prefs, Once
<1>2. FullOrder(x, pages) = Full(x.order, pages)
  BY DEF FullOrder, Full, Without
<1>3. Full(x.order, pages) \in Once(Pages) /\ ToSet(Full(x.order, pages)) = ToSet(pages)
  BY <1>1, FullOrderIs
<1> QED BY <1>2, <1>3 DEF Once

\* The list that is rendered, and the one of its hidden pages.
LEMMA VisibleIs ==
  ASSUME NEW x \in Prefs, NEW pages \in Seq(Pages), IsInjective(pages)
  PROVE  /\ Visible(x, pages) \in Seq(Pages) /\ IsInjective(Visible(x, pages))
         /\ ToSet(Visible(x, pages)) = ToSet(pages) \ HiddenIds(x, pages)
<1>1. PICK f : f = FullOrder(x, pages)
  OBVIOUS
<1>2. f \in Seq(Pages) /\ IsInjective(f) /\ ToSet(f) = ToSet(pages)
  BY ONLY <1>1, FullIs, pages \in Seq(Pages), IsInjective(pages), x \in Prefs
<1>3. PICK S : S = ToSet(f) \ HiddenIds(x, pages)
  OBVIOUS
<1>4. /\ Filtered(f, S) \in Seq(Pages) /\ IsInjective(Filtered(f, S))
      /\ ToSet(Filtered(f, S)) = ToSet(f) \cap S
  BY ONLY <1>2, FilterKeeps
<1>5. Visible(x, pages) = Filtered(f, S)
  BY <1>1, <1>3 DEF Visible, Without
<1> QED BY <1>2, <1>3, <1>4, <1>5

LEMMA HiddenIs ==
  ASSUME NEW x \in Prefs, NEW pages \in Seq(Pages), IsInjective(pages)
  PROVE  /\ Hidden(x, pages) \in Seq(Pages) /\ IsInjective(Hidden(x, pages))
         /\ ToSet(Hidden(x, pages)) = HiddenIds(x, pages)
         /\ HiddenIds(x, pages) \subseteq ToSet(pages) \ Pinned
<1>1. PICK f : f = FullOrder(x, pages)
  OBVIOUS
<1>2. f \in Seq(Pages) /\ IsInjective(f) /\ ToSet(f) = ToSet(pages)
  BY ONLY <1>1, FullIs, pages \in Seq(Pages), IsInjective(pages), x \in Prefs
<1>3. PICK S : S = HiddenIds(x, pages)
  OBVIOUS
<1>4. /\ Filtered(f, S) \in Seq(Pages) /\ IsInjective(Filtered(f, S))
      /\ ToSet(Filtered(f, S)) = ToSet(f) \cap S
  BY ONLY <1>2, FilterKeeps
<1>5. Hidden(x, pages) = Filtered(f, S)
  BY <1>1, <1>3 DEF Hidden
<1>6. S \subseteq ToSet(pages) \ Pinned
  BY <1>3 DEF HiddenIds
<1> QED BY <1>2, <1>3, <1>4, <1>5, <1>6

LEMMA DefaultIsPrefs == DefaultPrefs \in Prefs /\ NoToast \in Toast
<1>1. <<>> \in Seq(Pages) /\ IsInjective(<<>>)
  BY DEF IsInjective
<1>2. DefaultPrefs \in Prefs
  BY <1>1 DEF DefaultPrefs, Prefs
<1> QED BY <1>2 DEF NoToast, Toast

LEMMA ReorderedIs ==
  ASSUME NEW x \in Prefs, NEW order \in Seq(Pages), IsInjective(order)
  PROVE  Reordered(x, order) \in Prefs /\ Reordered(x, order).hidden = x.hidden
BY DEF Reordered, Prefs

LEMMA MoveIs ==
  ASSUME NEW x \in Prefs, NEW pages \in Seq(Pages), IsInjective(pages), NEW p, NEW d \in Int
  PROVE  /\ MoveVisible(x, p, d, pages) \in Prefs
         /\ MoveVisible(x, p, d, pages).hidden = x.hidden
<1>1. CASE \/ ~IsShown(x, p, pages)
           \/ IndexOf(Visible(x, pages), p) + d \notin 1..Len(Visible(x, pages))
  BY <1>1 DEF MoveVisible
<1>2. CASE /\ IsShown(x, p, pages)
           /\ IndexOf(Visible(x, pages), p) + d \in 1..Len(Visible(x, pages))
  <2>1. PICK v, f : v = Visible(x, pages) /\ f = FullOrder(x, pages)
    OBVIOUS
  <2>2. /\ f \in Seq(Pages) /\ IsInjective(f) /\ ToSet(f) = ToSet(pages)
    BY ONLY <2>1, FullIs, pages \in Seq(Pages), IsInjective(pages), x \in Prefs
  <2>3. /\ v \in Seq(Pages) /\ ToSet(v) = ToSet(pages) \ HiddenIds(x, pages)
    BY ONLY <2>1, VisibleIs, pages \in Seq(Pages), IsInjective(pages), x \in Prefs
  <2>4. PICK i, target : i = IndexOf(v, p) + d /\ target = v[i]
    OBVIOUS
  <2>5. p \in ToSet(f) /\ target \in ToSet(f)
    <3>1. p \in ToSet(v) /\ i \in 1..Len(v)
      BY <1>2, <2>1, <2>4 DEF IsShown
    <3>2. target \in ToSet(v)
      BY <2>3, <2>4, <3>1, InSeq
    <3> QED BY <2>2, <2>3, <3>1, <3>2
  <2>6. PICK at, to : at = IndexOf(f, p) /\ to = IndexOf(f, target)
    OBVIOUS
  <2>7. at \in 1..Len(f) /\ to \in 1..Len(f) /\ f[at] = p /\ p \in Pages
    BY <2>2, <2>5, <2>6, IndexIs, InSeq
  <2>8. PICK r : r = RemoveAt(f, at)
    OBVIOUS
  <2>9. r \in Seq(Pages) /\ IsInjective(r) /\ ToSet(r) = ToSet(f) \ {p} /\ Len(r) + 1 = Len(f)
    BY <2>2, <2>7, <2>8, OnceRemoved
  <2>10. to \in 1..Len(r) + 1 /\ p \notin ToSet(r)
    BY <2>7, <2>9, InSeq
  <2>11. PICK order : order = InsertAt(r, to, p)
    OBVIOUS
  <2>12. order \in Seq(Pages) /\ IsInjective(order)
    BY ONLY <2>7, <2>9, <2>10, <2>11, OnceInserted
  <2>13. MoveVisible(x, p, d, pages) = Reordered(x, order)
    BY <1>2, <2>1, <2>4, <2>6, <2>8, <2>11 DEF MoveVisible
  <2> QED BY <2>12, <2>13, ReorderedIs
<1> QED BY <1>1, <1>2

LEMMA DropIs ==
  ASSUME NEW x \in Prefs, NEW pages \in Seq(Pages), IsInjective(pages), NEW from, NEW to
  PROVE  /\ MoveVisibleIndex(x, from, to, pages) \in Prefs
         /\ MoveVisibleIndex(x, from, to, pages).hidden = x.hidden
<1>1. CASE from = to \/ {from, to} \ DOMAIN Visible(x, pages) # {}
  BY <1>1 DEF MoveVisibleIndex
<1>2. CASE ~(from = to \/ {from, to} \ DOMAIN Visible(x, pages) # {})
  <2>1. PICK v, f : v = Visible(x, pages) /\ f = FullOrder(x, pages)
    OBVIOUS
  <2>2. /\ f \in Seq(Pages) /\ IsInjective(f) /\ ToSet(f) = ToSet(pages)
    BY ONLY <2>1, FullIs, pages \in Seq(Pages), IsInjective(pages), x \in Prefs
  <2>3. /\ v \in Seq(Pages) /\ IsInjective(v)
        /\ ToSet(v) = ToSet(pages) \ HiddenIds(x, pages)
    BY ONLY <2>1, VisibleIs, pages \in Seq(Pages), IsInjective(pages), x \in Prefs
  <2>4. PICK e, S, r : e = v[from] /\ S = ToSet(f) \ {e} /\ r = Filtered(f, S)
    OBVIOUS
  <2>5. from \in DOMAIN v /\ to \in DOMAIN v /\ from # to /\ e \in ToSet(v) /\ e \in Pages
    <3>1. from \in DOMAIN v /\ to \in DOMAIN v /\ from # to
      BY <1>2, <2>1
    <3> QED BY <2>3, <2>4, <3>1, InSeq
  <2>6. v[to] \in ToSet(v) /\ v[to] # e
    BY <2>3, <2>4, <2>5, InSeq DEF IsInjective
  <2>7. r \in Seq(Pages) /\ IsInjective(r) /\ ToSet(r) = ToSet(f) \cap S
    BY ONLY <2>2, <2>4, FilterKeeps
  <2>8. v[to] \in ToSet(r) /\ e \notin ToSet(r)
    BY <2>2, <2>3, <2>4, <2>6, <2>7
  <2>9. PICK target : target = IndexOf(r, v[to])
    OBVIOUS
  <2>10. target \in 1..Len(r) /\ Len(r) \in Nat
    BY <2>7, <2>8, <2>9, IndexIs, InSeq
  <2>11. PICK at : at = IF from < to THEN target + 1 ELSE target
    OBVIOUS
  <2>12. at \in 1..Len(r) + 1
    BY <2>10, <2>11
  <2>13. PICK order : order = InsertAt(r, at, e)
    OBVIOUS
  <2>14. order \in Seq(Pages) /\ IsInjective(order)
    BY ONLY <2>5, <2>7, <2>8, <2>12, <2>13, OnceInserted
  <2>15. MoveVisibleIndex(x, from, to, pages) = Reordered(x, order)
    BY <1>2, <2>1, <2>4, <2>9, <2>11, <2>13 DEF MoveVisibleIndex, Without
  <2> QED BY <2>14, <2>15, ReorderedIs
<1> QED BY <1>1, <1>2

LEMMA HideIs ==
  ASSUME NEW x \in Prefs, NEW pages \in Seq(Pages), IsInjective(pages), NEW p
  PROVE  /\ HidePage(x, p, pages) \in Prefs
         /\ x.hidden \subseteq HidePage(x, p, pages).hidden
<1>1. FullOrder(x, pages) \in Seq(Pages) /\ IsInjective(FullOrder(x, pages))
  BY FullIs
<1>2. p \in ToSet(pages) => p \in Pages
  BY InSeq
<1> QED BY <1>1, <1>2 DEF HidePage, Prefs

LEMMA ShowIs ==
  ASSUME NEW x \in Prefs, NEW p
  PROVE  ShowPage(x, p) \in Prefs /\ x.hidden \ ShowPage(x, p).hidden \subseteq {p}
BY DEF ShowPage, Prefs

-----------------------------------------------------------------------------
(* Every step of the panel keeps this, and every hidden page but those that *)
(* are shown.                                                              *)

LEMMA RegistryIs ==
  ASSUME PanelInv, NEW t \in Tabs
  PROVE  /\ Registry(t) \in Seq(Pages) /\ IsInjective(Registry(t))
         /\ tab[t] \in PanelTab /\ View(t) \in Prefs
<1>1. tab[t] \in PanelTab
  BY DEF PanelInv
<1>2. tab[t].loaded \in 1..Len(Releases) /\ tab[t].view \in Prefs
  BY <1>1 DEF PanelTab
<1> QED BY <1>1, <1>2, PanelBounds DEF Registry, View

\* A change of the stored preferences, rendered in the tab it is made in.
LEMMA UpdateKeeps ==
  ASSUME PanelInv, NEW t \in Tabs, NEW x \in Prefs, NEW toast \in Toast,
         Updated(t, x, toast), changes < MaxChanges
  PROVE  PanelInv'
<1>1. /\ changes' = changes + (IF x = stored THEN 0 ELSE 1) /\ stored' = x
      /\ tab' = [tab EXCEPT ![t].view = x, ![t].toast = toast]
      /\ drag' = NoDrag /\ release' = release
  BY DEF Updated
<1>2. changes' \in 0..MaxChanges
  BY <1>1, PanelBounds DEF PanelInv
<1>3. PICK new : new = [tab[t] EXCEPT !.view = x, !.toast = toast]
  OBVIOUS
<1>4. tab' = [tab EXCEPT ![t] = new]
  BY <1>1, <1>3, RegistryIs DEF PanelInv, PanelTab
<1>5. new \in PanelTab /\ new.loaded = tab[t].loaded
  BY <1>3, RegistryIs DEF PanelTab
<1> QED BY <1>1, <1>2, <1>4, <1>5 DEF PanelInv

\* Nothing stored changes, and a tab is as it was or has lost its toast.
LEMMA TabKeeps ==
  ASSUME PanelInv, NEW t \in Tabs, NEW new \in PanelTab, new.loaded <= release,
         tab' = [tab EXCEPT ![t] = new], UNCHANGED <<stored, changes, release, drag>>,
         drag.tab = t => new.loaded = tab[t].loaded
  PROVE  PanelInv'
<1>1. tab' \in [Tabs -> PanelTab] /\ \A s \in Tabs : tab'[s].loaded <= release
  BY DEF PanelInv
<1>2. ASSUME drag # NoDrag PROVE drag.page \in ToSet(Registry(drag.tab)')
  <2>1. drag.tab \in Tabs /\ drag.page \in ToSet(Registry(drag.tab))
    BY <1>2 DEF PanelInv
  <2>2. tab'[drag.tab].loaded = tab[drag.tab].loaded
    BY <2>1 DEF PanelInv
  <2> QED BY <2>1, <2>2 DEF Registry
<1> QED BY <1>1, <1>2 DEF PanelInv

LEMMA PanelStart == Init => PanelInv
<1> SUFFICES ASSUME Init PROVE PanelInv
  OBVIOUS
<1>1. stored \in Prefs /\ changes = 0 /\ release = 1 /\ drag = NoDrag
  BY DefaultIsPrefs DEF Init
<1>2. FreshTab(1) \in PanelTab /\ FreshTab(1).loaded = 1
  BY <1>1, PanelBounds, DefaultIsPrefs DEF FreshTab, PanelTab
<1>3. tab = [t \in Tabs |-> FreshTab(1)]
  BY DEF Init
<1> QED BY <1>1, <1>2, <1>3, PanelBounds DEF PanelInv

\* What Undo puts into the storage.
LEMMA UndoIs ==
  ASSUME PanelInv, NEW t \in Tabs
  PROVE  (IF tab[t].toast.kind = "hide" THEN ShowPage(stored, tab[t].toast.page)
          ELSE tab[t].toast.prefs) \in Prefs
<1>1. stored \in Prefs
  BY DEF PanelInv
<1>2. tab[t].toast.prefs \in Prefs
  BY RegistryIs DEF PanelTab, Toast
<1> QED BY <1>1, <1>2, ShowIs

LEMMA PanelStep ==
  ASSUME PanelInv, [Next]_vars
  PROVE  /\ PanelInv'
         /\ \A p \in stored.hidden \ stored'.hidden :
              \E t \in Tabs : Show(t, p) \/ Reset(t) \/ Undo(t)
<1> DEFINE Stays == \A p \in stored.hidden \ stored'.hidden :
                      \E t \in Tabs : Show(t, p) \/ Reset(t) \/ Undo(t)
<1>0. stored \in Prefs /\ drag.tab \in Tabs => drag # NoDrag
  BY PanelBounds DEF PanelInv, NoDrag
<1>1. CASE UNCHANGED vars
  <2>1. PanelInv'
    BY <1>1 DEF vars, PanelInv, Registry
  <2> QED BY <1>1, <2>1 DEF vars
<1>2. ASSUME NEW t \in Tabs, NEW p \in Pages, NEW d \in {0 - 1, 1}, Move(t, p, d)
      PROVE  PanelInv' /\ Stays
  <2>1. PICK x : x = MoveVisible(stored, p, d, Registry(t))
    OBVIOUS
  <2>2. x \in Prefs /\ x.hidden = stored.hidden
    BY <2>1, MoveIs, RegistryIs DEF PanelInv
  <2>3. Updated(t, x, tab[t].toast) /\ changes < MaxChanges
    BY <1>2, <2>1 DEF Move, MayAct
  <2>4. tab[t].toast \in Toast
    BY RegistryIs DEF PanelTab
  <2>5. stored' = x
    BY <2>3 DEF Updated
  <2> QED BY <2>2, <2>3, <2>4, <2>5, UpdateKeeps
<1>3. ASSUME NEW t \in Tabs, NEW p \in Pages, Hide(t, p) PROVE PanelInv' /\ Stays
  <2>1. PICK x, toast : /\ x = HidePage(stored, p, Registry(t))
                        /\ toast = [kind |-> "hide", page |-> p, prefs |-> DefaultPrefs, before |-> stored]
    OBVIOUS
  <2>2. x \in Prefs /\ stored.hidden \subseteq x.hidden
    BY <2>1, HideIs, RegistryIs DEF PanelInv
  <2>3. Updated(t, x, toast) /\ changes < MaxChanges
    BY <1>3, <2>1 DEF Hide, MayAct
  <2>4. toast \in Toast
    BY <1>0, <2>1, DefaultIsPrefs DEF Toast, PanelInv
  <2>5. stored' = x
    BY <2>3 DEF Updated
  <2> QED BY <2>2, <2>3, <2>4, <2>5, UpdateKeeps
<1>4. ASSUME NEW t \in Tabs, NEW p \in Pages, Show(t, p) PROVE PanelInv' /\ Stays
  <2>1. PICK x : x = ShowPage(stored, p)
    OBVIOUS
  <2>2. x \in Prefs /\ stored.hidden \ x.hidden \subseteq {p}
    BY <2>1, ShowIs DEF PanelInv
  <2>3. Updated(t, x, tab[t].toast) /\ changes < MaxChanges
    BY <1>4, <2>1 DEF Show, MayAct
  <2>4. tab[t].toast \in Toast
    BY RegistryIs DEF PanelTab
  <2>5. stored' = x
    BY <2>3 DEF Updated
  <2>6. PanelInv'
    BY <2>2, <2>3, <2>4, UpdateKeeps
  <2> QED BY <1>4, <2>2, <2>5, <2>6
<1>5. ASSUME NEW t \in Tabs, Reset(t) PROVE PanelInv' /\ Stays
  <2>1. PICK toast : toast = [kind |-> "reset", page |-> "none", prefs |-> View(t), before |-> stored]
    OBVIOUS
  <2>2. Updated(t, DefaultPrefs, toast) /\ changes < MaxChanges
    BY <1>5, <2>1 DEF Reset, MayAct
  <2>3. toast \in Toast
    BY <1>0, <2>1, RegistryIs DEF Toast, PanelInv
  <2>4. PanelInv'
    BY <2>2, <2>3, UpdateKeeps, DefaultIsPrefs
  <2> QED BY <1>5, <2>4
<1>6. ASSUME NEW t \in Tabs, Undo(t) PROVE PanelInv' /\ Stays
  <2>1. PICK x : x = IF tab[t].toast.kind = "hide" THEN ShowPage(stored, tab[t].toast.page)
                     ELSE tab[t].toast.prefs
    OBVIOUS
  <2>2. x \in Prefs
    BY <2>1, UndoIs
  <2>3. Updated(t, x, NoToast) /\ changes < MaxChanges
    BY <1>6, <2>1 DEF Undo, MayAct
  <2>4. PanelInv'
    BY <2>2, <2>3, UpdateKeeps, DefaultIsPrefs
  <2> QED BY <1>6, <2>4
<1>7. ASSUME NEW t \in Tabs, ToastExpires(t) PROVE PanelInv' /\ Stays
  <2>1. PICK new : new = [tab[t] EXCEPT !.toast = NoToast]
    OBVIOUS
  <2>2. new \in PanelTab /\ new.loaded = tab[t].loaded /\ tab[t].loaded <= release
    BY <2>1, RegistryIs, DefaultIsPrefs DEF PanelTab, PanelInv
  <2>3. tab' = [tab EXCEPT ![t] = new] /\ UNCHANGED <<stored, changes, release, drag>>
    BY <1>7, <2>1 DEF ToastExpires
  <2>4. PanelInv'
    BY <2>2, <2>3, TabKeeps
  <2> QED BY <2>3, <2>4
<1>8. ASSUME NEW t \in Tabs, NEW i, Grip(t, i) PROVE PanelInv' /\ Stays
  <2>1. PICK v : v = Visible(View(t), Registry(t))
    OBVIOUS
  <2>2. v \in Seq(Pages) /\ ToSet(v) = ToSet(Registry(t)) \ HiddenIds(View(t), Registry(t))
    BY <2>1, RegistryIs, VisibleIs
  <2>3. /\ i \in DOMAIN v /\ drag' = [tab |-> t, page |-> v[i], from |-> i] /\ changes < MaxChanges
        /\ UNCHANGED <<stored, changes, release, tab>>
    BY <1>8, <2>1 DEF Grip, MayAct
  <2>4. v[i] \in ToSet(Registry(t))
    BY <2>2, <2>3 DEF ToSet
  <2>5. drag'.tab = t /\ drag'.page \in ToSet(Registry(t)')
    BY <2>3, <2>4 DEF Registry
  <2>6. PanelInv'
    BY <2>3, <2>5 DEF PanelInv
  <2> QED BY <2>3, <2>6
<1>9. ASSUME NEW t \in Tabs, NEW i, Drop(t, i) PROVE PanelInv' /\ Stays
  <2>1. PICK x : x = MoveVisibleIndex(stored, drag.from, SlotToIndex(drag.from, i), Registry(t))
    OBVIOUS
  <2>2. x \in Prefs /\ x.hidden = stored.hidden
    BY <2>1, DropIs, RegistryIs DEF PanelInv
  <2>3. Updated(t, x, tab[t].toast) /\ drag.tab = t
    BY <1>9, <2>1 DEF Drop
  <2>4. tab[t].toast \in Toast
    BY RegistryIs DEF PanelTab
  <2>5. changes < MaxChanges
    BY <1>0, <2>3 DEF PanelInv
  <2>6. stored' = x
    BY <2>3 DEF Updated
  <2> QED BY <2>2, <2>3, <2>4, <2>5, <2>6, UpdateKeeps
<1>10. ASSUME NEW t \in Tabs, StorageEvent(t) PROVE PanelInv' /\ Stays
  <2>1. PICK new : new = [tab[t] EXCEPT !.view = stored]
    OBVIOUS
  <2>2. new \in PanelTab /\ new.loaded = tab[t].loaded /\ tab[t].loaded <= release
    BY <1>0, <2>1, RegistryIs DEF PanelTab, PanelInv
  <2>3. tab' = [tab EXCEPT ![t] = new] /\ UNCHANGED <<stored, changes, release, drag>>
    BY <1>10, <2>1 DEF StorageEvent
  <2>4. PanelInv'
    BY <2>2, <2>3, TabKeeps
  <2> QED BY <2>3, <2>4
<1>11. ASSUME NEW t \in Tabs, Load(t) PROVE PanelInv' /\ Stays
  <2>1. PICK new : new = FreshTab(release)
    OBVIOUS
  <2>2. new \in PanelTab /\ new.loaded = release /\ release <= release
    BY <2>1, DefaultIsPrefs DEF FreshTab, PanelTab, PanelInv
  <2>3. /\ tab' = [tab EXCEPT ![t] = new] /\ UNCHANGED <<stored, changes, release, drag>>
        /\ drag.tab # t
    BY <1>11, <2>1 DEF Load
  <2>4. PanelInv'
    BY <2>2, <2>3, TabKeeps
  <2> QED BY <2>3, <2>4
<1>12. CASE LetGo
  <2>1. drag' = NoDrag /\ UNCHANGED <<stored, changes, release, tab>>
    BY <1>12 DEF LetGo
  <2> QED BY <2>1 DEF PanelInv
<1>13. CASE Upgrade
  <2>1. release' = release + 1 /\ release < Len(Releases) /\ UNCHANGED <<stored, changes, tab, drag>>
    BY <1>13 DEF Upgrade
  <2>2. release' \in 1..Len(Releases) /\ release <= release'
    BY <2>1, PanelBounds DEF PanelInv
  <2>3. \A t \in Tabs : tab[t].loaded <= release'
    <3> TAKE t \in Tabs
    <3>1. tab[t].loaded \in 1..Len(Releases) /\ tab[t].loaded <= release /\ release \in 1..Len(Releases)
      BY RegistryIs DEF PanelTab, PanelInv
    <3> QED BY <2>2, <3>1, PanelBounds
  <2> QED BY <2>1, <2>2, <2>3 DEF PanelInv, Registry
<1> QED BY <1>1, <1>2, <1>3, <1>4, <1>5, <1>6, <1>7, <1>8, <1>9, <1>10, <1>11, <1>12, <1>13
        DEF Next

LEMMA PanelLists == PanelInv => TypeOK /\ EveryPageOnce
<1> SUFFICES ASSUME PanelInv PROVE TypeOK /\ EveryPageOnce
  OBVIOUS
<1>1. TypeOK
  <2>1. /\ stored \in [order : Seq(Pages), hidden : SUBSET (Pages \ Pinned)]
        /\ IsInjective(stored.order)
    BY DEF PanelInv, Prefs
  <2>2. ASSUME NEW t \in Tabs
        PROVE  tab[t].loaded \in 1..release /\ tab[t].toast.kind \in {"none", "hide", "reset"}
    <3>1. /\ tab[t].loaded \in 1..Len(Releases) /\ tab[t].loaded <= release
          /\ tab[t].toast \in Toast /\ release \in 1..Len(Releases)
      BY RegistryIs DEF PanelTab, PanelInv
    <3> QED BY <3>1, PanelBounds DEF Toast
  <2> QED BY <2>1, <2>2 DEF TypeOK, PanelInv
<1>2. ASSUME NEW t \in Tabs
      PROVE  LET listed == Visible(View(t), Registry(t)) \o Hidden(View(t), Registry(t))
             IN  /\ IsInjective(listed) /\ ToSet(listed) = ToSet(Registry(t))
                 /\ Pinned \cap ToSet(Hidden(View(t), Registry(t))) = {}
  <2>1. PICK v, h, H : /\ v = Visible(View(t), Registry(t)) /\ h = Hidden(View(t), Registry(t))
                       /\ H = HiddenIds(View(t), Registry(t))
    OBVIOUS
  <2>2. v \in Seq(Pages) /\ IsInjective(v) /\ ToSet(v) = ToSet(Registry(t)) \ H
    BY <2>1, VisibleIs, RegistryIs
  <2>3. /\ h \in Seq(Pages) /\ IsInjective(h) /\ ToSet(h) = H
        /\ H \subseteq ToSet(Registry(t)) \ Pinned
    BY <2>1, HiddenIs, RegistryIs
  <2>4. Apart(v, h)
    BY <2>2, <2>3 DEF Apart
  <2>5. IsInjective(v \o h) /\ ToSet(v \o h) = ToSet(v) \cup ToSet(h)
    BY ONLY <2>2, <2>3, <2>4, OnceConcat
  <2> QED BY <2>1, <2>2, <2>3, <2>5
<1> QED BY <1>1, <1>2 DEF EveryPageOnce

-----------------------------------------------------------------------------
(* What the controls of the panel do                                       *)

\* What is rendered is kept of the whole order.
LEMMA PanelIs ==
  ASSUME NEW x \in Prefs, NEW pages \in Once(Pages), NEW H, H = HiddenIds(x, pages)
  PROVE  /\ x.order \in Once(Pages) /\ FullOrder(x, pages) = Full(x.order, pages)
         /\ FullOrder(x, pages) \in Once(Pages) /\ ToSet(FullOrder(x, pages)) = ToSet(pages)
         /\ Visible(x, pages) = Filtered(FullOrder(x, pages), ToSet(pages) \ H)
         /\ Hidden(x, pages) = Filtered(FullOrder(x, pages), H)
<1>1. x.order \in Once(Pages)
  BY DEF Prefs, Once
<1>2. FullOrder(x, pages) = Full(x.order, pages)
  BY DEF FullOrder, Full, Without
<1>3. /\ FullOrder(x, pages) \in Once(Pages)
      /\ ToSet(FullOrder(x, pages)) = ToSet(pages)
  BY <1>1, <1>2, FullOrderIs
<1> QED BY <1>1, <1>2, <1>3 DEF Visible, Hidden, Without

\* A stored order of all the pages is rendered as it is.
LEMMA PanelReordered ==
  ASSUME NEW x \in Prefs, NEW pages \in Once(Pages), NEW H, H = HiddenIds(x, pages),
         NEW n \in Once(Pages), ToSet(n) = ToSet(pages)
  PROVE  /\ Visible(Reordered(x, n), pages) = Filtered(n, ToSet(pages) \ H)
         /\ Hidden(Reordered(x, n), pages) = Filtered(n, H)
<1>1. PICK y : y = Reordered(x, n)
  OBVIOUS
<1>2. y \in Prefs /\ y.order = n /\ y.hidden = x.hidden
  BY <1>1 DEF Reordered, Prefs, Once
<1>3. H = HiddenIds(y, pages)
  BY <1>2 DEF HiddenIds
<1>4. FullOrder(y, pages) = Full(n, pages)
  BY <1>2, <1>3, PanelIs
<1>5. FullOrder(y, pages) = n
  BY <1>4, FullAgain
<1>6. /\ Visible(y, pages) = Filtered(FullOrder(y, pages), ToSet(pages) \ H)
      /\ Hidden(y, pages) = Filtered(FullOrder(y, pages), H)
  BY ONLY <1>2, <1>3, PanelIs, pages \in Once(Pages)
<1> QED BY <1>1, <1>5, <1>6

\* Moving a visible page beside another is seen among the visible pages only.
LEMMA PanelMoved ==
  ASSUME NEW x \in Prefs, NEW pages \in Once(Pages), NEW v, v = Visible(x, pages),
         NEW from \in 1..Len(v), NEW to \in 1..Len(v), from # to,
         NEW n \in Once(Pages),
         Beside(FullOrder(x, pages), n, v[from], v[to], Side(from, to))
  PROVE  /\ Visible(Reordered(x, n), pages) = InsertAt(RemoveAt(v, from), to, v[from])
         /\ Hidden(Reordered(x, n), pages) = Hidden(x, pages)
<1>1. PICK o, H, V : o = FullOrder(x, pages) /\ H = HiddenIds(x, pages) /\ V = ToSet(pages) \ H
  OBVIOUS
<1>2. /\ o \in Once(Pages) /\ ToSet(o) = ToSet(pages)
      /\ v = Filtered(o, V) /\ Hidden(x, pages) = Filtered(o, H)
  BY <1>1, PanelIs
<1>3. ToSet(n) = ToSet(pages) /\ Beside(o, n, v[from], v[to], Side(from, to))
  BY <1>1, <1>2 DEF Beside
<1>4. /\ Visible(Reordered(x, n), pages) = Filtered(n, V)
      /\ Hidden(Reordered(x, n), pages) = Filtered(n, H)
  <2>1. ToSet(n) = ToSet(pages)
    BY <1>3
  <2>2. /\ Visible(Reordered(x, n), pages) = Filtered(n, ToSet(pages) \ H)
        /\ Hidden(Reordered(x, n), pages) = Filtered(n, H)
    BY ONLY <1>1, <2>1, PanelReordered, x \in Prefs, pages \in Once(Pages), n \in Once(Pages)
  <2> QED BY <1>1, <2>2
<1>5. v[from] \notin H
  <2>1. v \in Once(Pages) /\ ToSet(v) = ToSet(o) \cap V
    BY <1>2, FilterOrder
  <2>2. v[from] \in ToSet(v)
    BY ONLY <2>1, OnceIs, from \in 1..Len(v)
  <2> QED BY <1>1, <2>1, <2>2
<1>6. Filtered(n, V) = InsertAt(RemoveAt(v, from), to, v[from])
  BY ONLY <1>2, <1>3, KeptMoves, from \in 1..Len(v), to \in 1..Len(v), from # to, n \in Once(Pages)
<1>7. Filtered(n, H) = Filtered(o, H)
  BY ONLY <1>2, <1>3, <1>5, BesideOthers, n \in Once(Pages)
<1> QED BY <1>2, <1>4, <1>6, <1>7

LEMMA RegistryOnce ==
  ASSUME PanelInv, NEW t \in Tabs
  PROVE  Registry(t) \in Once(Pages) /\ stored \in Prefs
BY RegistryIs DEF Once, PanelInv

LEMMA PanelMoves == PanelInv => MovesByOne
<1> SUFFICES ASSUME PanelInv, NEW t \in Tabs, NEW p \in ToSet(Registry(t)), NEW d \in {0 - 1, 1},
                    NEW moved, moved = MoveVisible(stored, p, d, Registry(t)),
                    NEW before, before = Visible(stored, Registry(t)),
                    NEW at, at = IndexOf(before, p)
             PROVE  /\ Hidden(moved, Registry(t)) = Hidden(stored, Registry(t))
                    /\ Visible(moved, Registry(t)) =
                         IF p \in ToSet(before) /\ at + d \in DOMAIN before
                         THEN [before EXCEPT ![at] = before[at + d], ![at + d] = p]
                         ELSE before
  BY DEF MovesByOne
<1>1. Registry(t) \in Once(Pages) /\ stored \in Prefs
  BY RegistryOnce
<1>2. PICK g, o, H, V : /\ g = Registry(t) /\ o = FullOrder(stored, g)
                        /\ H = HiddenIds(stored, g) /\ V = ToSet(g) \ H
  OBVIOUS
<1>3. /\ o \in Once(Pages) /\ ToSet(o) = ToSet(g) /\ before = Filtered(o, V)
  BY <1>1, <1>2, PanelIs
<1>4. before \in Once(Pages) /\ ToSet(before) = ToSet(o) \cap V
  BY <1>3, FilterOrder
<1>5. before \in Seq(Pages) /\ DOMAIN before = 1..Len(before) /\ Len(before) \in Nat
  BY <1>4, OnceIs
<1>6. CASE ~(p \in ToSet(before) /\ at + d \in DOMAIN before)
  <2>1. moved = stored
    BY <1>5, <1>6 DEF MoveVisible, IsShown
  <2> QED BY <1>6, <2>1
<1>7. CASE p \in ToSet(before) /\ at + d \in DOMAIN before
  <2>1. at \in 1..Len(before) /\ before[at] = p
    BY <1>5, <1>7, IndexIs
  <2>2. PICK to : to = at + d
    OBVIOUS
  <2>3. to \in 1..Len(before) /\ (at + 1 = to \/ to + 1 = at) /\ at # to
    BY <1>5, <1>7, <2>1, <2>2
  <2>4. PICK q : q = before[to]
    OBVIOUS
  <2>5. q \in ToSet(before) /\ p # q
    BY <1>4, <2>1, <2>3, <2>4, OnceIs
  <2>6. PICK i, k : i = IndexOf(o, p) /\ k = IndexOf(o, q)
    OBVIOUS
  <2>7. i \in 1..Len(o) /\ k \in 1..Len(o) /\ o[i] = p /\ o[k] = q /\ i # k
    <3>1. o \in Seq(Pages) /\ p \in ToSet(o) /\ q \in ToSet(o)
      BY <1>3, <1>4, <1>7, <2>5, OnceIs
    <3> QED BY <2>5, <2>6, <3>1, IndexIs
  <2>8. PICK n : n = InsertAt(RemoveAt(o, i), k, p)
    OBVIOUS
  <2>9. n \in Once(Pages) /\ Beside(o, n, p, q, Side(i, k))
    BY <1>3, <2>7, <2>8, MovedPlace
  <2>10. Side(i, k) = Side(at, to)
    BY ONLY <1>3, <2>1, <2>3, <2>4, <2>7, SideIs
  <2>11. moved = Reordered(stored, n)
    <3>1. /\ at + d \in 1..Len(before) /\ IsShown(stored, p, g)
          /\ moved = MoveVisible(stored, p, d, g) /\ before = Visible(stored, g)
      BY <1>2, <1>5, <1>7 DEF IsShown
    <3> QED BY <1>2, <2>2, <2>4, <2>6, <2>8, <3>1 DEF MoveVisible
  <2>12. Beside(o, n, before[at], before[to], Side(at, to))
    BY <2>1, <2>4, <2>9, <2>10
  <2>13. /\ Visible(moved, g) = InsertAt(RemoveAt(before, at), to, before[at])
         /\ Hidden(moved, g) = Hidden(stored, g)
    BY <1>1, <1>2, <2>1, <2>3, <2>9, <2>11, <2>12, PanelMoved
  <2>14. [before EXCEPT ![at] = before[to], ![to] = before[at]]
           = InsertAt(RemoveAt(before, at), to, before[at])
    BY ONLY <1>4, <2>1, <2>3, Exchanged
  <2> QED BY <1>2, <1>7, <2>1, <2>2, <2>13, <2>14
<1> QED BY <1>6, <1>7

LEMMA PanelDropped ==
  ASSUME NEW x \in Prefs, NEW pages \in Once(Pages), NEW v, v = Visible(x, pages),
         NEW from \in DOMAIN v, NEW to \in DOMAIN v
  PROVE  Visible(MoveVisibleIndex(x, from, to, pages), pages)
           = InsertAt(Without(v, {v[from]}), to, v[from])
<1>1. PICK o, H, V : o = FullOrder(x, pages) /\ H = HiddenIds(x, pages) /\ V = ToSet(pages) \ H
  OBVIOUS
<1>2. o \in Once(Pages) /\ ToSet(o) = ToSet(pages) /\ v = Filtered(o, V)
  BY <1>1, PanelIs
<1>3. v \in Once(Pages) /\ ToSet(v) = ToSet(o) \cap V
  BY <1>2, FilterOrder
<1>4. from \in 1..Len(v) /\ to \in 1..Len(v) /\ Len(v) \in Nat
  BY <1>3, OnceIs
<1>5. InsertAt(Without(v, {v[from]}), to, v[from]) = InsertAt(RemoveAt(v, from), to, v[from])
  BY <1>3, <1>4, RemovedOrder DEF Without
<1>6. CASE from = to
  <2>1. MoveVisibleIndex(x, from, to, pages) = x
    BY <1>6 DEF MoveVisibleIndex
  <2>2. InsertAt(RemoveAt(v, from), from, v[from]) = v
    BY ONLY <1>3, <1>4, PutBack
  <2> QED BY <1>5, <1>6, <2>1, <2>2
<1>7. CASE from # to
  <2>1. PICK p, q, side : p = v[from] /\ q = v[to] /\ side = Side(from, to)
    OBVIOUS
  <2>2. p \in ToSet(o) /\ q \in ToSet(o) /\ p # q /\ side \in {0, 1}
    BY <1>3, <1>4, <1>7, <2>1, OnceIs DEF Side
  <2>3. PICK S, rest, k : S = ToSet(o) \ {p} /\ rest = Filtered(o, S) /\ k = IndexOf(rest, q)
    OBVIOUS
  <2>4. rest \in Once(Pages) /\ ToSet(rest) = ToSet(o) \cap S
    BY <1>2, <2>3, FilterOrder
  <2>5. k \in 1..Len(rest) /\ rest[k] = q
    <3>1. rest \in Seq(Pages) /\ q \in ToSet(rest)
      BY <2>2, <2>3, <2>4, OnceIs
    <3> QED BY <2>3, <3>1, IndexIs
  <2>6. PICK n : n = InsertAt(rest, k + side, p)
    OBVIOUS
  <2>7. n \in Once(Pages) /\ Beside(o, n, p, q, side)
    BY ONLY <1>2, <2>2, <2>3, <2>5, <2>6, MovedBeside
  <2>8. k + side = IF from < to THEN k + 1 ELSE k
    <3>1. k \in Int
      BY <2>4, <2>5, OnceIs
    <3> QED BY <2>1, <3>1 DEF Side
  <2>9. {from, to} \ DOMAIN v = {}
    OBVIOUS
  <2>10. MoveVisibleIndex(x, from, to, pages) = Reordered(x, n)
    BY <1>1, <1>7, <2>1, <2>3, <2>6, <2>8, <2>9 DEF MoveVisibleIndex, Without
  <2>11. Visible(Reordered(x, n), pages) = InsertAt(RemoveAt(v, from), to, v[from])
    BY <1>1, <1>4, <1>7, <2>1, <2>7, PanelMoved
  <2> QED BY <1>5, <2>10, <2>11
<1> QED BY <1>6, <1>7

LEMMA PanelDrops == PanelInv => DropsWhatWasGripped
<1> SUFFICES ASSUME PanelInv, NEW t \in Tabs, NEW slot,
                    NEW before, before = Visible(stored, Registry(t)),
                    NEW to, to = SlotToIndex(drag.from, slot),
                    drag.from \in DOMAIN before, to \in DOMAIN before,
                    before[drag.from] = drag.page
             PROVE  Visible(MoveVisibleIndex(stored, drag.from, to, Registry(t)), Registry(t))
                      = InsertAt(Without(before, {drag.page}), to, drag.page)
  BY DEF DropsWhatWasGripped
<1>1. Registry(t) \in Once(Pages) /\ stored \in Prefs
  BY RegistryOnce
<1> QED BY <1>1, PanelDropped

LEMMA PanelPlaces == PanelInv => PlacesAreKept
<1> SUFFICES ASSUME PanelInv, NEW t \in Tabs, NEW r \in 1..Len(Releases),
                    Filtered(Releases[r], ToSet(Registry(t)))
                      = Filtered(Registry(t), ToSet(Releases[r])),
                    NEW p \in ToSet(Registry(t)), NEW new,
                    new = IF p \in stored.hidden THEN ShowPage(stored, p)
                          ELSE HidePage(stored, p, Registry(t))
             PROVE  Filtered(FullOrder(stored, Releases[r]), ToSet(Registry(t)))
                      = Filtered(FullOrder(new, Releases[r]), ToSet(Registry(t)))
  BY DEF PlacesAreKept
<1>1. PICK g, f, G, F : g = Registry(t) /\ f = Releases[r] /\ G = ToSet(g) /\ F = ToSet(f)
  OBVIOUS
<1>2. g \in Once(Pages) /\ f \in Once(Pages) /\ stored \in Prefs /\ stored.order \in Once(Pages)
  BY <1>1, RegistryOnce, PanelBounds DEF Once, Prefs
<1>3. \A y, s : FullOrder(y, s) = Full(y.order, s)
  BY DEF FullOrder, Full, Without
<1>4. CASE new.order = stored.order
  <2>1. FullOrder(new, f) = FullOrder(stored, f)
    BY <1>3, <1>4
  <2> QED BY <1>1, <2>1
<1>5. CASE new.order = Full(stored.order, g)
  <2>1. PICK order, o, a, b : /\ order = stored.order /\ o = Full(order, g)
                              /\ a = Full(order, f) /\ b = Full(o, f)
    OBVIOUS
  <2>2. /\ o \in Once(Pages) /\ ToSet(o) = G
        /\ \A x, y \in G : Before(o, x, y) <=>
             \/ Before(order, x, y)
             \/ x \in ToSet(order) /\ y \notin ToSet(order)
             \/ x \notin ToSet(order) /\ y \notin ToSet(order) /\ Before(g, x, y)
    BY <1>1, <1>2, <2>1, FullOrderIs
  <2>3. /\ a \in Once(Pages) /\ ToSet(a) = F
        /\ \A x, y \in F : Before(a, x, y) <=>
             \/ Before(order, x, y)
             \/ x \in ToSet(order) /\ y \notin ToSet(order)
             \/ x \notin ToSet(order) /\ y \notin ToSet(order) /\ Before(f, x, y)
    BY <1>1, <1>2, <2>1, FullOrderIs
  <2>4. /\ b \in Once(Pages) /\ ToSet(b) = F
        /\ \A x, y \in F : Before(b, x, y) <=>
             \/ Before(o, x, y)
             \/ x \in ToSet(o) /\ y \notin ToSet(o)
             \/ x \notin ToSet(o) /\ y \notin ToSet(o) /\ Before(f, x, y)
    BY <1>1, <1>2, <2>1, <2>2, FullOrderIs
  <2>5. \A x, y \in F \cap G : Before(f, x, y) <=> Before(g, x, y)
    <3>1. \A x, y : Before(Filtered(f, G), x, y) <=> Before(f, x, y) /\ x \in G /\ y \in G
      BY <1>2, FilterOrder
    <3>2. \A x, y : Before(Filtered(g, F), x, y) <=> Before(g, x, y) /\ x \in F /\ y \in F
      BY <1>2, FilterOrder
    <3>3. Filtered(f, G) = Filtered(g, F)
      BY <1>1
    <3> QED BY <3>1, <3>2, <3>3
  <2>6. \A x, y \in F \cap G : Before(a, x, y) <=> Before(b, x, y)
    BY <2>2, <2>3, <2>4, <2>5
  <2>7. PICK c, e : c = Filtered(a, G) /\ e = Filtered(b, G)
    OBVIOUS
  <2>8. /\ c \in Once(Pages) /\ ToSet(c) = F \cap G
        /\ \A x, y : Before(c, x, y) <=> Before(a, x, y) /\ x \in G /\ y \in G
    BY <2>3, <2>7, FilterOrder
  <2>9. /\ e \in Once(Pages) /\ ToSet(e) = F \cap G
        /\ \A x, y : Before(e, x, y) <=> Before(b, x, y) /\ x \in G /\ y \in G
    BY <2>4, <2>7, FilterOrder
  <2>10. c = e
    BY <2>6, <2>8, <2>9, SameOrder
  <2>11. FullOrder(stored, f) = a /\ FullOrder(new, f) = b
    BY <1>3, <1>5, <2>1
  <2> QED BY <1>1, <2>7, <2>10, <2>11
<1>6. new.order = stored.order \/ new.order = Full(stored.order, g)
  <2>1. ShowPage(stored, p).order = stored.order
    BY <1>2 DEF ShowPage, Prefs
  <2>2. HidePage(stored, p, g) = stored \/ HidePage(stored, p, g).order = FullOrder(stored, g)
    BY DEF HidePage
  <2> QED BY <1>1, <1>3, <2>1, <2>2
<1> QED BY <1>4, <1>5, <1>6

LEMMA PanelUndone ==
  ASSUME PanelInv, NEW t \in Tabs, Undo(t), NEW toast, toast = tab[t].toast,
         stored = IF toast.kind = "reset" THEN DefaultPrefs
                  ELSE HidePage(toast.before, toast.page, Registry(t)),
         toast.page \notin toast.before.hidden,
         toast.kind = "reset" => toast.prefs = toast.before
  PROVE  Visible(stored', Registry(t)') = Visible(toast.before, Registry(t))
<1>1. PICK g, x, p : g = Registry(t) /\ x = toast.before /\ p = toast.page
  OBVIOUS
<1>2. g \in Once(Pages) /\ stored \in Prefs /\ x \in Prefs /\ toast.kind \in {"none", "hide", "reset"}
  <2>1. toast \in Toast
    BY RegistryIs DEF PanelTab
  <2> QED BY <1>1, <2>1, RegistryOnce DEF Toast
<1>3. /\ stored' = IF toast.kind = "hide" THEN ShowPage(stored, p) ELSE toast.prefs
      /\ toast.kind # "none"
  BY <1>1 DEF Undo, Updated
<1>4. Registry(t)' = g
  <2>1. tab'[t].loaded = tab[t].loaded
    BY DEF Undo, Updated, PanelInv, PanelTab
  <2> QED BY <1>1, <2>1 DEF Registry
<1>5. CASE toast.kind = "reset"
  BY <1>1, <1>3, <1>4, <1>5
<1>6. CASE toast.kind = "hide"
  <2>1. stored = HidePage(x, p, g) /\ p \notin x.hidden
    BY <1>1, <1>6
  <2>2. CASE p \in Pinned \/ p \notin ToSet(g)
    <3>1. ShowPage(x, p) = x
      BY <1>2, <2>1 DEF ShowPage, Prefs
    <3>2. stored = x
      BY <2>1, <2>2 DEF HidePage
    <3> QED BY <1>1, <1>3, <1>4, <1>6, <3>1, <3>2
  <2>3. CASE ~(p \in Pinned \/ p \notin ToSet(g))
    <3>1. PICK o, H : o = FullOrder(x, g) /\ H = HiddenIds(x, g)
      OBVIOUS
    <3>2. /\ o \in Once(Pages) /\ ToSet(o) = ToSet(g)
          /\ Visible(x, g) = Filtered(o, ToSet(g) \ H)
      BY <1>2, <3>1, PanelIs
    <3>3. stored = [order |-> o, hidden |-> x.hidden \cup {p}]
      BY <2>1, <2>3, <3>1 DEF HidePage
    <3>4. ShowPage(stored, p) = Reordered(x, o)
      <4>1. (x.hidden \cup {p}) \ {p} = x.hidden
        BY <2>1
      <4>2. ShowPage(stored, p) = [order |-> o, hidden |-> x.hidden]
        BY ONLY <3>3, <4>1 DEF ShowPage
      <4>3. x = [order |-> x.order, hidden |-> x.hidden]
        BY ONLY <1>2 DEF Prefs
      <4>4. Reordered(x, o) = [order |-> o, hidden |-> x.hidden]
        BY ONLY <4>3 DEF Reordered
      <4> QED BY ONLY <4>2, <4>4
    <3>5. Visible(Reordered(x, o), g) = Filtered(o, ToSet(g) \ H)
      BY <1>2, <3>1, <3>2, PanelReordered
    <3> QED BY <1>1, <1>3, <1>4, <1>6, <3>2, <3>4, <3>5
  <2> QED BY <2>2, <2>3
<1> QED BY <1>2, <1>3, <1>5, <1>6

-----------------------------------------------------------------------------
(* The columns of a table, in the same way. A table is sorted by a column   *)
(* that is stored as hidden only if one was sorted by while it was.        *)

Cols == Table!Columns
Sorts == {Table!NoSort} \cup [id : Cols, dir : {"asc", "desc"}]
Layout ==
  {x \in [order : Seq(Cols), hidden : SUBSET Cols, sort : Sorts] : IsInjective(x.order)}
IsSpec(spec) ==
  /\ spec.columns \in Seq(Cols) /\ spec.columns # <<>> /\ IsInjective(spec.columns)
  /\ spec.defaultHidden \subseteq Cols
TableTab == [loaded : 1..Len(TableReleases), view : Layout]
SortIsSeen(x) == x.sort.id \in x.hidden => x.sort.id \in blind

TableInv ==
  /\ prefs \in Layout /\ SortIsSeen(prefs)
  /\ edits \in 0..MaxChanges /\ version \in 1..Len(TableReleases)
  /\ table \in [Tabs -> TableTab] /\ \A t \in Tabs : table[t].loaded <= version
  /\ grip # Table!NoDrag => grip.tab \in Tabs /\ edits < MaxChanges
  /\ blind \subseteq Cols

LEMMA TableBounds ==
  /\ Len(TableReleases) \in Nat \ {0} /\ MaxChanges \in Nat /\ "none" \notin Tabs
  /\ "none" \notin Cols
  /\ \A r \in 1..Len(TableReleases) : IsSpec(TableReleases[r])
BY PartsAssumption DEF Table!ColumnsAssumption, IsSpec, Cols, Table!IsInjective, IsInjective

\* The table's helpers are the panel's.
LEMMA TableHelpers ==
  /\ \A s : Table!ToSet(s) = ToSet(s)
  /\ \A s, S : Table!Filtered(s, S) = Filtered(s, S)
  /\ \A s : Table!IsInjective(s) <=> IsInjective(s)
  /\ \A s, i : Table!RemoveAt(s, i) = RemoveAt(s, i)
  /\ \A s, i, e : Table!InsertAt(s, i, e) = InsertAt(s, i, e)
  /\ \A s, c : Table!IndexOf(s, c) = IndexOf(s, c)
<1>1. \A s, S : Table!Filtered(s, S) = Filtered(s, S)
  <2> TAKE s, S
  <2> QED BY DEF Table!Filtered, Filtered, Table!Cardinality, Cardinality
<1>2. \A s, c : Table!IndexOf(s, c) = IndexOf(s, c)
  BY DEF Table!IndexOf, IndexOf
<1>3. \A s, i, e : Table!InsertAt(s, i, e) = InsertAt(s, i, e)
  BY DEF Table!InsertAt, InsertAt
<1>4. \A s, i : Table!RemoveAt(s, i) = RemoveAt(s, i)
  BY DEF Table!RemoveAt, RemoveAt
<1> QED BY <1>1, <1>2, <1>3, <1>4 DEF Table!ToSet, ToSet, Table!IsInjective, IsInjective

LEMMA ColumnsIs ==
  ASSUME NEW x \in Layout, NEW spec, IsSpec(spec)
  PROVE  /\ Table!FullOrder(x, spec) \in Seq(Cols) /\ IsInjective(Table!FullOrder(x, spec))
         /\ ToSet(Table!FullOrder(x, spec)) = ToSet(spec.columns)
<1>1. x.order \in Once(Cols) /\ spec.columns \in Once(Cols)
  BY DEF Layout, IsSpec, Once
<1>2. Table!FullOrder(x, spec) = Full(x.order, spec.columns)
  BY TableHelpers DEF Table!FullOrder, Full, Table!Without
<1>3. /\ Full(x.order, spec.columns) \in Once(Cols)
      /\ ToSet(Full(x.order, spec.columns)) = ToSet(spec.columns)
  BY <1>1, FullOrderIs
<1> QED BY <1>2, <1>3 DEF Once

LEMMA ColumnsShown ==
  ASSUME NEW x \in Layout, NEW spec, IsSpec(spec)
  PROVE  /\ Table!Visible(x, spec) \in Seq(Cols) /\ IsInjective(Table!Visible(x, spec))
         /\ Table!Hidden(x, spec) \in Seq(Cols) /\ IsInjective(Table!Hidden(x, spec))
         /\ ToSet(Table!Visible(x, spec)) =
              IF Table!AllHidden(x, spec) THEN ToSet(spec.columns)
              ELSE ToSet(spec.columns) \ x.hidden
         /\ ToSet(Table!Hidden(x, spec)) =
              IF Table!AllHidden(x, spec) THEN {} ELSE ToSet(spec.columns) \cap x.hidden
         /\ ToSet(Table!Visible(x, spec)) # {}
<1>1. PICK f : f = Table!FullOrder(x, spec)
  OBVIOUS
<1>2. f \in Seq(Cols) /\ IsInjective(f) /\ ToSet(f) = ToSet(spec.columns)
  BY <1>1, ColumnsIs
<1>3. PICK S, H, a, b : S = ToSet(f) \ x.hidden /\ H = x.hidden
                        /\ a = Filtered(f, S) /\ b = Filtered(f, H)
  OBVIOUS
<1>4. a \in Seq(Cols) /\ IsInjective(a) /\ ToSet(a) = ToSet(f) \cap S
  BY ONLY <1>2, <1>3, FilterKeeps
<1>5. b \in Seq(Cols) /\ IsInjective(b) /\ ToSet(b) = ToSet(f) \cap H
  BY ONLY <1>2, <1>3, FilterKeeps
<1>6. CASE Table!AllHidden(x, spec)
  <2>1. Table!Visible(x, spec) = f /\ Table!Hidden(x, spec) = <<>>
    BY <1>1, <1>6 DEF Table!Visible, Table!Hidden
  <2>2. <<>> \in Seq(Cols) /\ IsInjective(<<>>) /\ ToSet(<<>>) = {}
    BY DEF IsInjective, ToSet
  <2>3. ToSet(spec.columns) # {}
    <3>1. PICK cs : cs = spec.columns
      OBVIOUS
    <3>2. cs \in Seq(Cols) /\ cs # <<>>
      BY <3>1 DEF IsSpec
    <3>3. Len(cs) \in Nat /\ Len(cs) # 0 /\ ToSet(cs) = {cs[i] : i \in 1..Len(cs)}
      BY <3>2, InSeq, EmptySeq
    <3>4. 1 \in 1..Len(cs)
      BY <3>3
    <3>5. cs[1] \in ToSet(cs)
      BY <3>3, <3>4
    <3> QED BY <3>1, <3>5
  <2> QED BY <1>2, <1>6, <2>1, <2>2, <2>3
<1>7. CASE ~Table!AllHidden(x, spec)
  <2>1. Table!Visible(x, spec) = a /\ Table!Hidden(x, spec) = b
    BY <1>1, <1>3, <1>7, TableHelpers DEF Table!Visible, Table!Hidden, Table!Without
  <2>2. ToSet(spec.columns) \ x.hidden # {}
    BY <1>7, TableHelpers DEF Table!AllHidden
  <2> QED BY <1>2, <1>3, <1>4, <1>5, <1>7, <2>1, <2>2
<1> QED BY <1>6, <1>7

LEMMA LayoutReordered ==
  ASSUME NEW x \in Layout, NEW order \in Seq(Cols), IsInjective(order)
  PROVE  /\ Table!Reordered(x, order) \in Layout
         /\ Table!Reordered(x, order).hidden = x.hidden
         /\ Table!Reordered(x, order).sort = x.sort
BY DEF Table!Reordered, Layout

LEMMA LayoutDropped ==
  ASSUME NEW x \in Layout, NEW spec, IsSpec(spec), NEW from, NEW to
  PROVE  /\ Table!MoveVisibleIndex(x, from, to, spec) \in Layout
         /\ Table!MoveVisibleIndex(x, from, to, spec).hidden = x.hidden
         /\ Table!MoveVisibleIndex(x, from, to, spec).sort = x.sort
<1>1. CASE from = to \/ {from, to} \ DOMAIN Table!Visible(x, spec) # {}
  BY <1>1 DEF Table!MoveVisibleIndex
<1>2. CASE ~(from = to \/ {from, to} \ DOMAIN Table!Visible(x, spec) # {})
  <2>1. PICK v, f : v = Table!Visible(x, spec) /\ f = Table!FullOrder(x, spec)
    OBVIOUS
  <2>2. f \in Seq(Cols) /\ IsInjective(f) /\ ToSet(f) = ToSet(spec.columns)
    BY <2>1, ColumnsIs
  <2>3. v \in Seq(Cols) /\ IsInjective(v) /\ ToSet(v) \subseteq ToSet(spec.columns)
    BY <2>1, ColumnsShown
  <2>4. PICK e, S, r : e = v[from] /\ S = ToSet(f) \ {e} /\ r = Filtered(f, S)
    OBVIOUS
  <2>5. from \in DOMAIN v /\ to \in DOMAIN v /\ from # to /\ e \in ToSet(v) /\ e \in Cols
    <3>1. from \in DOMAIN v /\ to \in DOMAIN v /\ from # to
      BY <1>2, <2>1
    <3> QED BY <2>3, <2>4, <3>1, InSeq
  <2>6. v[to] \in ToSet(v) /\ v[to] # e
    BY <2>3, <2>4, <2>5, InSeq DEF IsInjective
  <2>7. r \in Seq(Cols) /\ IsInjective(r) /\ ToSet(r) = ToSet(f) \cap S
    BY ONLY <2>2, <2>4, FilterKeeps
  <2>8. v[to] \in ToSet(r) /\ e \notin ToSet(r)
    BY <2>2, <2>3, <2>4, <2>6, <2>7
  <2>9. PICK target : target = IndexOf(r, v[to])
    OBVIOUS
  <2>10. target \in 1..Len(r) /\ Len(r) \in Nat
    BY <2>7, <2>8, <2>9, IndexIs, InSeq
  <2>11. PICK at : at = IF from < to THEN target + 1 ELSE target
    OBVIOUS
  <2>12. at \in 1..Len(r) + 1
    BY <2>10, <2>11
  <2>13. PICK order : order = InsertAt(r, at, e)
    OBVIOUS
  <2>14. order \in Seq(Cols) /\ IsInjective(order)
    BY ONLY <2>5, <2>7, <2>8, <2>12, <2>13, OnceInserted
  <2>15. Table!MoveVisibleIndex(x, from, to, spec) = Table!Reordered(x, order)
    BY <1>2, <2>1, <2>4, <2>9, <2>11, <2>13, TableHelpers
       DEF Table!MoveVisibleIndex, Table!Without
  <2> QED BY <2>14, <2>15, LayoutReordered
<1> QED BY <1>1, <1>2

LEMMA LayoutMoved ==
  ASSUME NEW x \in Layout, NEW spec, IsSpec(spec), NEW c, NEW d
  PROVE  /\ Table!MoveVisible(x, c, d, spec) \in Layout
         /\ Table!MoveVisible(x, c, d, spec).hidden = x.hidden
         /\ Table!MoveVisible(x, c, d, spec).sort = x.sort
BY LayoutDropped DEF Table!MoveVisible

\* Two entries of a sequence exchanged.
Swapped(s, i, j) == [s EXCEPT ![i] = s[j], ![j] = s[i]]

LEMMA OnceSwapped ==
  ASSUME NEW T, NEW s \in Seq(T), IsInjective(s), NEW i \in DOMAIN s, NEW j \in DOMAIN s
  PROVE  Swapped(s, i, j) \in Seq(T) /\ IsInjective(Swapped(s, i, j))
<1>1. Len(s) \in Nat /\ DOMAIN s = 1..Len(s) /\ \A k \in 1..Len(s) : s[k] \in T
  BY InSeq
<1>2. PICK r : r = Swapped(s, i, j)
  OBVIOUS
<1>3. /\ r \in [1..Len(s) -> T]
      /\ \A k \in DOMAIN s : r[k] = IF k = j THEN s[i] ELSE IF k = i THEN s[j] ELSE s[k]
  BY <1>1, <1>2 DEF Swapped
<1>4. r \in Seq(T) /\ DOMAIN r = DOMAIN s
  BY <1>1, <1>3, SeqDef
<1>5. \A k, l \in DOMAIN s : s[k] = s[l] => k = l
  BY DEF IsInjective
<1>6. IsInjective(r)
  BY <1>3, <1>4, <1>5 DEF IsInjective
<1> QED BY <1>2, <1>4, <1>6

LEMMA LayoutListed ==
  ASSUME NEW x \in Layout, NEW spec, IsSpec(spec), NEW c, NEW d
  PROVE  /\ Table!MoveInOrder(x, c, d, spec) \in Layout
         /\ Table!MoveInOrder(x, c, d, spec).hidden = x.hidden
         /\ Table!MoveInOrder(x, c, d, spec).sort = x.sort
<1>1. PICK f, from : f = Table!FullOrder(x, spec) /\ from = IndexOf(f, c)
  OBVIOUS
<1>2. CASE c \notin ToSet(f) \/ from + d \notin DOMAIN f
  BY <1>1, <1>2, TableHelpers DEF Table!MoveInOrder
<1>3. CASE c \in ToSet(f) /\ from + d \in DOMAIN f
  <2>1. f \in Seq(Cols) /\ IsInjective(f)
    BY <1>1, ColumnsIs
  <2>2. from \in DOMAIN f /\ f[from] = c
    BY <1>1, <1>3, <2>1, IndexIs, InSeq
  <2>3. PICK to, order : to = from + d /\ order = Swapped(f, from, to)
    OBVIOUS
  <2>4. order \in Seq(Cols) /\ IsInjective(order)
    BY <1>3, <2>1, <2>2, <2>3, OnceSwapped
  <2>5. Table!MoveInOrder(x, c, d, spec) = Table!Reordered(x, order)
    BY <1>1, <1>3, <2>2, <2>3, TableHelpers DEF Table!MoveInOrder, Swapped
  <2> QED BY <2>4, <2>5, LayoutReordered
<1> QED BY <1>2, <1>3

LEMMA LayoutHidden ==
  ASSUME NEW x \in Layout, NEW spec, IsSpec(spec), NEW c \in Cols
  PROVE  /\ Table!HideColumn(x, c, spec) \in Layout
         /\ SortIsSeen(x) => SortIsSeen(Table!HideColumn(x, c, spec))
<1>1. Table!FullOrder(x, spec) \in Seq(Cols) /\ IsInjective(Table!FullOrder(x, spec))
  BY ColumnsIs
<1>2. PICK f : f = Table!FullOrder(x, spec)
  OBVIOUS
<1>3. x.hidden \subseteq Cols /\ x.sort \in Sorts /\ Table!NoSort \in Sorts
      /\ Table!NoSort.id = "none"
  BY DEF Layout, Sorts, Table!NoSort
<1>4. PICK y : y = Table!HideColumn(x, c, spec)
  OBVIOUS
<1>5. CASE y = x
  BY <1>4, <1>5
<1>6. CASE y = [order |-> f, hidden |-> x.hidden \cup {c},
                sort |-> IF x.sort.id = c THEN Table!NoSort ELSE x.sort]
  <2>1. y \in Layout
    BY <1>1, <1>2, <1>3, <1>6 DEF Layout
  <2>2. y.sort.id # c /\ (y.sort.id = x.sort.id \/ y.sort.id = "none")
    BY <1>3, <1>6, TableBounds
  <2>3. y.hidden = x.hidden \cup {c} /\ "none" \notin x.hidden
    BY <1>3, <1>6, TableBounds
  <2> QED BY <1>4, <2>1, <2>2, <2>3 DEF SortIsSeen
<1> QED BY <1>2, <1>4, <1>5, <1>6 DEF Table!HideColumn

LEMMA LayoutShown ==
  ASSUME NEW x \in Layout, NEW c
  PROVE  /\ Table!ShowColumn(x, c) \in Layout
         /\ SortIsSeen(x) => SortIsSeen(Table!ShowColumn(x, c))
BY DEF Table!ShowColumn, Layout, SortIsSeen

LEMMA LayoutSorted ==
  ASSUME NEW x \in Layout, NEW sort \in Sorts
  PROVE  /\ Table!SetSort(x, sort) \in Layout
         /\ Table!SetSort(x, sort).hidden = x.hidden /\ Table!SetSort(x, sort).sort = sort
BY DEF Table!SetSort, Layout

LEMMA DefaultLayout ==
  /\ Table!Absent \in Layout
  /\ \A spec : IsSpec(spec) =>
       Table!DefaultPrefs(spec) \in Layout /\ SortIsSeen(Table!DefaultPrefs(spec))
<1>1. <<>> \in Seq(Cols) /\ IsInjective(<<>>)
  BY DEF IsInjective
<1>2. Table!Absent \in Layout
  BY <1>1 DEF Table!Absent, Layout, Sorts
<1>3. ASSUME NEW spec, IsSpec(spec)
      PROVE  Table!DefaultPrefs(spec) \in Layout /\ SortIsSeen(Table!DefaultPrefs(spec))
  BY <1>3, TableBounds DEF Table!DefaultPrefs, Layout, Sorts, IsSpec, SortIsSeen, Table!NoSort
<1> QED BY <1>2, <1>3

LEMMA TableIs ==
  ASSUME TableInv, NEW t \in Tabs
  PROVE  /\ IsSpec(Table!Table(t)) /\ table[t] \in TableTab /\ Table!View(t) \in Layout
         /\ Table!Current(t) \in Layout /\ SortIsSeen(Table!Current(t))
<1>1. table[t] \in TableTab
  BY DEF TableInv
<1>2. table[t].loaded \in 1..Len(TableReleases) /\ table[t].view \in Layout
  BY <1>1 DEF TableTab
<1>3. IsSpec(Table!Table(t))
  BY <1>2, TableBounds DEF Table!Table
<1>4. Table!Current(t) \in Layout /\ SortIsSeen(Table!Current(t))
  BY <1>3, DefaultLayout DEF Table!Current, Table!Loaded, TableInv
<1> QED BY <1>1, <1>2, <1>3, <1>4 DEF Table!View

\* A change of the stored layout, rendered in the tab it is made in.
LEMMA TableUpdated ==
  ASSUME TableInv, NEW t \in Tabs, NEW x \in Layout, Table!Updated(t, x),
         blind \subseteq blind', blind' \subseteq Cols,
         x.sort.id \in x.hidden => x.sort.id \in blind', edits < MaxChanges
  PROVE  TableInv'
<1>1. /\ prefs' = IF x = Table!Current(t) THEN prefs ELSE x
      /\ edits' = edits + (IF x = Table!Current(t) THEN 0 ELSE 1)
      /\ table' = [table EXCEPT ![t].view = x]
      /\ grip' = Table!NoDrag /\ version' = version
  BY DEF Table!Updated
<1>2. edits' \in 0..MaxChanges
  BY <1>1, TableBounds DEF TableInv
<1>3. PICK new : new = [table[t] EXCEPT !.view = x]
  OBVIOUS
<1>4. table' = [table EXCEPT ![t] = new]
  BY <1>1, <1>3, TableIs DEF TableInv, TableTab
<1>5. new \in TableTab /\ new.loaded = table[t].loaded
  BY <1>3, TableIs DEF TableTab
<1>6. prefs' \in Layout /\ SortIsSeen(prefs)'
  BY <1>1 DEF TableInv, SortIsSeen
<1> QED BY <1>1, <1>2, <1>4, <1>5, <1>6 DEF TableInv

\* Nothing stored changes, and one tab renders another layout.
LEMMA TableTabKeeps ==
  ASSUME TableInv, NEW t \in Tabs, NEW new \in TableTab, new.loaded <= version,
         table' = [table EXCEPT ![t] = new], UNCHANGED <<prefs, edits, version, grip, blind>>
  PROVE  TableInv'
BY DEF TableInv, SortIsSeen

LEMMA TableStart == Table!Init => TableInv
<1> SUFFICES ASSUME Table!Init PROVE TableInv
  OBVIOUS
<1>1. /\ prefs = Table!Absent /\ edits = 0 /\ version = 1 /\ grip = Table!NoDrag /\ blind = {}
      /\ table = [t \in Tabs |-> [loaded |-> 1, view |-> Table!DefaultPrefs(TableReleases[1])]]
  BY DEF Table!Init
<1>2. IsSpec(TableReleases[1]) /\ 1 \in 1..Len(TableReleases)
  BY TableBounds
<1>3. Table!DefaultPrefs(TableReleases[1]) \in Layout
  BY <1>2, DefaultLayout
<1>4. SortIsSeen(prefs) /\ prefs \in Layout
  BY <1>1, DefaultLayout DEF SortIsSeen, Table!Absent
<1>5. table \in [Tabs -> TableTab] /\ \A t \in Tabs : table[t].loaded <= version
  BY <1>1, <1>2, <1>3 DEF TableTab
<1> QED BY <1>1, <1>2, <1>4, <1>5, TableBounds DEF TableInv

LEMMA SortedSees ==
  ASSUME TableInv, NEW t \in Tabs, NEW c \in Cols, NEW sort \in Sorts,
         sort.id \in {c, "none"}, Table!Sorted(t, c), edits < MaxChanges,
         Table!Updated(t, Table!SetSort(Table!Current(t), sort))
  PROVE  TableInv'
<1>1. PICK x : x = Table!SetSort(Table!Current(t), sort)
  OBVIOUS
<1>2. x \in Layout /\ x.hidden = Table!Current(t).hidden /\ x.sort = sort
  BY <1>1, TableIs, LayoutSorted
<1>3. blind' = blind \cup ({c} \cap x.hidden)
  BY <1>2 DEF Table!Sorted
<1>4. x.hidden \subseteq Cols
  BY <1>2 DEF Layout
<1>5. x.sort.id \in x.hidden => x.sort.id \in blind'
  BY <1>2, <1>3, <1>4, TableBounds
<1>6. blind \subseteq blind' /\ blind' \subseteq Cols
  BY <1>3, <1>4 DEF TableInv
<1> QED BY <1>1, <1>2, <1>5, <1>6, TableUpdated

\* A change that leaves the sort, and what is hidden, or hides no sorted column.
LEMMA LaidOut ==
  ASSUME TableInv, NEW t \in Tabs, NEW x \in Layout, SortIsSeen(x),
         Table!Updated(t, x), UNCHANGED blind, edits < MaxChanges
  PROVE  TableInv'
<1>1. blind \subseteq blind' /\ blind' \subseteq Cols
  BY DEF TableInv
<1>2. x.sort.id \in x.hidden => x.sort.id \in blind'
  BY DEF SortIsSeen
<1> QED BY <1>1, <1>2, TableUpdated

LEMMA TableStep == TableInv /\ [Table!Next]_columnVars => TableInv'
<1> SUFFICES ASSUME TableInv, [Table!Next]_columnVars PROVE TableInv'
  OBVIOUS
<1>0. grip.tab \in Tabs => grip # Table!NoDrag
  BY TableBounds DEF Table!NoDrag
<1>1. CASE UNCHANGED columnVars
  BY <1>1 DEF columnVars, TableInv, SortIsSeen
<1>2. ASSUME NEW t \in Tabs, NEW c \in Cols, Table!ClickHeader(t, c) PROVE TableInv'
  <2>1. PICK x : x = Table!Current(t)
    OBVIOUS
  <2>2. PICK sort : sort = CASE x.sort.id # c -> [id |-> c, dir |-> "asc"]
                             [] x.sort = [id |-> c, dir |-> "asc"] -> [id |-> c, dir |-> "desc"]
                             [] OTHER -> Table!NoSort
    OBVIOUS
  <2>3. sort \in Sorts /\ sort.id \in {c, "none"}
    <3>1. \/ sort = [id |-> c, dir |-> "asc"] \/ sort = [id |-> c, dir |-> "desc"]
          \/ sort = Table!NoSort
      BY <2>2
    <3> QED BY <3>1 DEF Sorts, Table!NoSort
  <2>4. Table!CycleSort(x, c) = Table!SetSort(x, sort)
    BY <2>2 DEF Table!CycleSort
  <2>5. /\ Table!Updated(t, Table!SetSort(Table!Current(t), sort)) /\ Table!Sorted(t, c)
        /\ edits < MaxChanges
    BY <1>2, <2>1, <2>4 DEF Table!ClickHeader, Table!MayActOn, Table!MayAct
  <2> QED BY <2>3, <2>5, SortedSees
<1>3. ASSUME NEW t \in Tabs, NEW c \in Cols, NEW dir \in {"asc", "desc"}, Table!SortBy(t, c, dir)
      PROVE  TableInv'
  <2>1. PICK sort : sort = [id |-> c, dir |-> dir]
    OBVIOUS
  <2>2. sort \in Sorts /\ sort.id \in {c, "none"}
    BY <2>1 DEF Sorts
  <2>3. /\ Table!Updated(t, Table!SetSort(Table!Current(t), sort)) /\ Table!Sorted(t, c)
        /\ edits < MaxChanges
    BY <1>3, <2>1 DEF Table!SortBy, Table!MayActOn, Table!MayAct
  <2> QED BY <2>2, <2>3, SortedSees
<1>4. ASSUME NEW t \in Tabs, Table!ClearSort(t) PROVE TableInv'
  <2>1. PICK x : x = Table!SetSort(Table!Current(t), Table!NoSort)
    OBVIOUS
  <2>2. x \in Layout /\ x.hidden \subseteq Cols /\ x.sort.id = "none"
    BY <2>1, TableIs, LayoutSorted DEF Sorts, Layout, Table!NoSort
  <2>3. SortIsSeen(x)
    BY <2>2, TableBounds DEF SortIsSeen
  <2>4. Table!Updated(t, x) /\ edits < MaxChanges /\ UNCHANGED blind
    BY <1>4, <2>1 DEF Table!ClearSort, Table!MayAct
  <2> QED BY <2>2, <2>3, <2>4, LaidOut
<1>5. ASSUME NEW t \in Tabs, NEW c \in Cols, NEW d \in Table!Steps,
             Table!Move(t, c, d) \/ Table!MoveListed(t, c, d)
      PROVE  TableInv'
  <2>1. PICK x, y : /\ x = Table!MoveVisible(Table!Current(t), c, d, Table!Table(t))
                    /\ y = Table!MoveInOrder(Table!Current(t), c, d, Table!Table(t))
    OBVIOUS
  <2>2. x \in Layout /\ SortIsSeen(x)
    BY <2>1, TableIs, LayoutMoved DEF SortIsSeen
  <2>3. y \in Layout /\ SortIsSeen(y)
    BY <2>1, TableIs, LayoutListed DEF SortIsSeen
  <2>4. /\ Table!Updated(t, x) \/ Table!Updated(t, y)
        /\ edits < MaxChanges /\ UNCHANGED blind
    BY <1>5, <2>1 DEF Table!Move, Table!MoveListed, Table!MayActOn, Table!MayAct
  <2> QED BY <2>2, <2>3, <2>4, LaidOut
<1>6. ASSUME NEW t \in Tabs, NEW c \in Cols, Table!Hide(t, c) PROVE TableInv'
  <2>1. PICK x : x = Table!HideColumn(Table!Current(t), c, Table!Table(t))
    OBVIOUS
  <2>2. x \in Layout /\ SortIsSeen(x)
    BY <2>1, TableIs, LayoutHidden
  <2>3. Table!Updated(t, x) /\ edits < MaxChanges /\ UNCHANGED blind
    BY <1>6, <2>1 DEF Table!Hide, Table!MayActOn, Table!MayAct
  <2> QED BY <2>2, <2>3, LaidOut
<1>7. ASSUME NEW t \in Tabs, NEW c \in Cols, Table!Show(t, c) PROVE TableInv'
  <2>1. PICK x : x = Table!ShowColumn(Table!Current(t), c)
    OBVIOUS
  <2>2. x \in Layout /\ SortIsSeen(x)
    BY <2>1, TableIs, LayoutShown
  <2>3. Table!Updated(t, x) /\ edits < MaxChanges /\ UNCHANGED blind
    BY <1>7, <2>1 DEF Table!Show, Table!MayAct
  <2> QED BY <2>2, <2>3, LaidOut
<1>8. ASSUME NEW t \in Tabs, Table!Reset(t) PROVE TableInv'
  <2>1. PICK new : new = [table[t] EXCEPT !.view = Table!DefaultPrefs(Table!Table(t))]
    OBVIOUS
  <2>2. new \in TableTab /\ new.loaded = table[t].loaded
    BY <2>1, TableIs, DefaultLayout DEF TableTab
  <2>3. /\ prefs' = Table!Absent /\ edits' = edits + 1 /\ edits < MaxChanges
        /\ grip = Table!NoDrag /\ UNCHANGED <<version, grip, blind>>
    BY <1>8 DEF Table!Reset, Table!MayAct
  <2>4. table' = [table EXCEPT ![t] = new]
    BY <1>8, <2>1, TableIs DEF Table!Reset, TableInv, TableTab
  <2>5. edits' \in 0..MaxChanges
    BY <2>3, TableBounds DEF TableInv
  <2>6. prefs' \in Layout /\ SortIsSeen(prefs)'
    BY <2>3, DefaultLayout DEF SortIsSeen, Table!Absent
  <2> QED BY <2>2, <2>3, <2>4, <2>5, <2>6 DEF TableInv
<1>9. ASSUME NEW t \in Tabs, NEW i, Table!Grip(t, i) PROVE TableInv'
  <2>1. /\ grip'.tab = t /\ edits < MaxChanges
        /\ UNCHANGED <<prefs, edits, version, table, blind>>
    BY <1>9 DEF Table!Grip, Table!MayAct
  <2> QED BY <2>1 DEF TableInv, SortIsSeen
<1>10. ASSUME NEW t \in Tabs, NEW i, Table!Drop(t, i) PROVE TableInv'
  <2>1. PICK x : x = Table!MoveVisibleIndex(Table!Current(t), grip.from,
                                            Table!SlotToIndex(grip.from, i), Table!Table(t))
    OBVIOUS
  <2>2. x \in Layout /\ SortIsSeen(x)
    BY <2>1, TableIs, LayoutDropped DEF SortIsSeen
  <2>3. Table!Updated(t, x) /\ UNCHANGED blind /\ grip.tab = t
    BY <1>10, <2>1 DEF Table!Drop
  <2>4. edits < MaxChanges
    BY <1>0, <2>3 DEF TableInv
  <2> QED BY <2>2, <2>3, <2>4, LaidOut
<1>11. ASSUME NEW t \in Tabs, Table!StorageEvent(t) PROVE TableInv'
  <2>1. PICK new : new = [table[t] EXCEPT !.view = Table!Current(t)]
    OBVIOUS
  <2>2. new \in TableTab /\ new.loaded = table[t].loaded /\ table[t].loaded <= version
    BY <2>1, TableIs DEF TableTab, TableInv
  <2>3. table' = [table EXCEPT ![t] = new] /\ UNCHANGED <<prefs, edits, version, grip, blind>>
    BY <1>11, <2>1, TableIs DEF Table!StorageEvent, TableInv, TableTab
  <2> QED BY <2>2, <2>3, TableTabKeeps
<1>12. ASSUME NEW t \in Tabs, Table!Load(t) PROVE TableInv'
  <2>1. PICK new : new = [loaded |-> version, view |-> Table!Loaded(TableReleases[version])]
    OBVIOUS
  <2>2. Table!Loaded(TableReleases[version]) \in Layout
    BY TableBounds, DefaultLayout DEF Table!Loaded, TableInv
  <2>3. new \in TableTab /\ new.loaded = version /\ version <= version
    BY <2>1, <2>2 DEF TableTab, TableInv
  <2>4. table' = [table EXCEPT ![t] = new] /\ UNCHANGED <<prefs, edits, version, grip, blind>>
    BY <1>12, <2>1 DEF Table!Load
  <2> QED BY <2>3, <2>4, TableTabKeeps
<1>13. CASE Table!LetGo
  <2>1. grip' = Table!NoDrag /\ UNCHANGED <<prefs, edits, version, table, blind>>
    BY <1>13 DEF Table!LetGo
  <2> QED BY <2>1 DEF TableInv, SortIsSeen
<1>14. CASE Table!Upgrade
  <2>1. /\ version' = version + 1 /\ version < Len(TableReleases)
        /\ UNCHANGED <<prefs, edits, table, grip, blind>>
    BY <1>14 DEF Table!Upgrade
  <2>2. version' \in 1..Len(TableReleases) /\ version <= version'
    BY <2>1, TableBounds DEF TableInv
  <2>3. \A t \in Tabs : table[t].loaded <= version'
    <3> TAKE t \in Tabs
    <3>1. table[t].loaded \in 1..Len(TableReleases) /\ table[t].loaded <= version
          /\ version \in 1..Len(TableReleases)
      BY TableIs DEF TableTab, TableInv
    <3> QED BY <2>2, <3>1, TableBounds
  <2> QED BY <2>1, <2>2, <2>3 DEF TableInv, SortIsSeen
<1> QED BY <1>1, <1>2, <1>3, <1>4, <1>5, <1>6, <1>7, <1>8, <1>9, <1>10, <1>11, <1>12, <1>13, <1>14
        DEF Table!Next, Cols

LEMMA TableLists ==
  TableInv => Table!TypeOK /\ Table!NeverBlank /\ Table!SortedByShown
<1> SUFFICES ASSUME TableInv PROVE Table!TypeOK /\ Table!NeverBlank /\ Table!SortedByShown
  OBVIOUS
<1>1. Table!TypeOK
  <2>1. /\ prefs.order \in Seq(Cols) /\ Table!IsInjective(prefs.order) /\ prefs.hidden \subseteq Cols
        /\ prefs.sort = Table!NoSort \/ prefs.sort \in [id : Cols, dir : {"asc", "desc"}]
    BY TableHelpers DEF TableInv, Layout, Sorts
  <2>2. ASSUME NEW t \in Tabs PROVE table[t].loaded \in 1..version
    <3>1. /\ table[t].loaded \in 1..Len(TableReleases) /\ table[t].loaded <= version
          /\ version \in 1..Len(TableReleases)
      BY TableIs DEF TableTab, TableInv
    <3> QED BY <3>1, TableBounds
  <2> QED BY <2>1, <2>2 DEF Table!TypeOK, TableInv, Cols
<1>2. ASSUME NEW t \in Tabs
      PROVE  LET listed == Table!Visible(Table!View(t), Table!Table(t))
                             \o Table!Hidden(Table!View(t), Table!Table(t))
             IN  /\ Table!Visible(Table!View(t), Table!Table(t)) # <<>>
                 /\ Table!IsInjective(listed)
                 /\ Table!ToSet(listed) = Table!ToSet(Table!Table(t).columns)
  <2>1. PICK x, spec, v, h : /\ x = Table!View(t) /\ spec = Table!Table(t)
                             /\ v = Table!Visible(x, spec) /\ h = Table!Hidden(x, spec)
    OBVIOUS
  <2>2. x \in Layout /\ IsSpec(spec)
    BY <2>1, TableIs
  <2>3. /\ v \in Seq(Cols) /\ IsInjective(v) /\ h \in Seq(Cols) /\ IsInjective(h)
        /\ ToSet(v) \cap ToSet(h) = {} /\ ToSet(v) \cup ToSet(h) = ToSet(spec.columns)
        /\ ToSet(v) # {}
    BY <2>1, <2>2, ColumnsShown
  <2>4. Apart(v, h)
    BY <2>3 DEF Apart
  <2>5. IsInjective(v \o h) /\ ToSet(v \o h) = ToSet(v) \cup ToSet(h)
    BY ONLY <2>3, <2>4, OnceConcat
  <2>6. v # <<>>
    BY <2>3 DEF ToSet
  <2> QED BY <2>1, <2>3, <2>5, <2>6, TableHelpers
<1>3. ASSUME NEW t \in Tabs,
             Table!Current(t).sort.id \in Table!ToSet(Table!Table(t).columns) \ blind
      PROVE  Table!Current(t).sort.id \in Table!ToSet(Table!Visible(Table!Current(t), Table!Table(t)))
  <2>1. PICK x, spec : x = Table!Current(t) /\ spec = Table!Table(t)
    OBVIOUS
  <2>2. x \in Layout /\ IsSpec(spec) /\ SortIsSeen(x)
    BY <2>1, TableIs
  <2>3. x.sort.id \in ToSet(spec.columns) /\ x.sort.id \notin x.hidden
    BY <1>3, <2>1, <2>2, TableHelpers DEF SortIsSeen
  <2>4. x.sort.id \in ToSet(Table!Visible(x, spec))
    BY <2>2, <2>3, ColumnsShown
  <2> QED BY <2>1, <2>4, TableHelpers
<1> QED BY <1>1, <1>2, <1>3 DEF Table!NeverBlank, Table!SortedByShown

-----------------------------------------------------------------------------
(* What the controls of a table do                                         *)

\* The columns that are shown.
ShownOf(x, spec) ==
  IF Table!AllHidden(x, spec) THEN ToSet(spec.columns) ELSE ToSet(spec.columns) \ x.hidden

LEMMA LayoutIs ==
  ASSUME NEW x \in Layout, NEW spec, IsSpec(spec)
  PROVE  /\ spec.columns \in Once(Cols) /\ x.order \in Once(Cols)
         /\ Table!FullOrder(x, spec) = Full(x.order, spec.columns)
         /\ Table!FullOrder(x, spec) \in Once(Cols)
         /\ ToSet(Table!FullOrder(x, spec)) = ToSet(spec.columns)
         /\ Table!Visible(x, spec) = Filtered(Table!FullOrder(x, spec), ShownOf(x, spec))
<1>1. spec.columns \in Once(Cols) /\ x.order \in Once(Cols)
  BY DEF IsSpec, Layout, Once
<1>2. Table!FullOrder(x, spec) = Full(x.order, spec.columns)
  BY TableHelpers DEF Table!FullOrder, Full, Table!Without
<1>3. PICK o, cs : o = Table!FullOrder(x, spec) /\ cs = spec.columns
  OBVIOUS
<1>4. o \in Once(Cols) /\ ToSet(o) = ToSet(cs)
  BY <1>1, <1>2, <1>3, FullOrderIs
<1>5. Table!Visible(x, spec) = Filtered(o, ShownOf(x, spec))
  <2>1. CASE Table!AllHidden(x, spec)
    <3>1. Filtered(o, ToSet(o)) = o
      <4>1. PICK u : u = Filtered(o, ToSet(o))
        OBVIOUS
      <4>2. /\ u \in Once(Cols) /\ ToSet(u) = ToSet(o)
            /\ \A a, b : Before(u, a, b) <=> Before(o, a, b) /\ a \in ToSet(o) /\ b \in ToSet(o)
        BY <1>4, <4>1, FilterOrder
      <4>3. u = o
        BY <1>4, <4>2, SameOrder
      <4> QED BY <4>1, <4>3
    <3> QED BY <1>3, <1>4, <2>1, <3>1 DEF Table!Visible, ShownOf
  <2>2. CASE ~Table!AllHidden(x, spec)
    BY <1>3, <1>4, <2>2, TableHelpers DEF Table!Visible, ShownOf, Table!Without
  <2> QED BY <2>1, <2>2
<1> QED BY <1>1, <1>2, <1>3, <1>4, <1>5

\* A stored order of all the columns is rendered as it is.
LEMMA TableReordered ==
  ASSUME NEW x \in Layout, NEW spec, IsSpec(spec), NEW n \in Once(Cols),
         ToSet(n) = ToSet(spec.columns)
  PROVE  /\ Table!FullOrder(Table!Reordered(x, n), spec) = n
         /\ Table!Visible(Table!Reordered(x, n), spec) = Filtered(n, ShownOf(x, spec))
<1>1. PICK y : y = Table!Reordered(x, n)
  OBVIOUS
<1>2. y \in Layout /\ y.order = n /\ y.hidden = x.hidden
  BY <1>1 DEF Table!Reordered, Layout, Once
<1>3. ShownOf(y, spec) = ShownOf(x, spec)
  BY <1>2 DEF ShownOf, Table!AllHidden
<1>4. /\ Table!FullOrder(y, spec) = Full(n, spec.columns) /\ spec.columns \in Once(Cols)
      /\ Table!Visible(y, spec) = Filtered(Table!FullOrder(y, spec), ShownOf(y, spec))
  BY <1>2, LayoutIs
<1>5. Table!FullOrder(y, spec) = n
  BY <1>4, FullAgain
<1> QED BY <1>1, <1>3, <1>4, <1>5

\* A column that is moved to the place of another is seen there.
LEMMA TableDropped ==
  ASSUME NEW x \in Layout, NEW spec, IsSpec(spec), NEW v, v = Table!Visible(x, spec),
         NEW from \in DOMAIN v, NEW to \in DOMAIN v
  PROVE  Table!Visible(Table!MoveVisibleIndex(x, from, to, spec), spec)
           = InsertAt(RemoveAt(v, from), to, v[from])
<1>1. PICK o, V : o = Table!FullOrder(x, spec) /\ V = ShownOf(x, spec)
  OBVIOUS
<1>2. o \in Once(Cols) /\ ToSet(o) = ToSet(spec.columns) /\ v = Filtered(o, V)
  BY <1>1, LayoutIs
<1>3. v \in Once(Cols) /\ ToSet(v) = ToSet(o) \cap V
  BY <1>2, FilterOrder
<1>4. from \in 1..Len(v) /\ to \in 1..Len(v) /\ Len(v) \in Nat
  BY <1>3, OnceIs
<1>5. CASE from = to
  <2>1. Table!MoveVisibleIndex(x, from, to, spec) = x
    BY <1>5 DEF Table!MoveVisibleIndex
  <2>2. InsertAt(RemoveAt(v, from), from, v[from]) = v
    BY ONLY <1>3, <1>4, PutBack
  <2> QED BY <1>5, <2>1, <2>2
<1>6. CASE from # to
  <2>1. PICK p, q, side : p = v[from] /\ q = v[to] /\ side = Side(from, to)
    OBVIOUS
  <2>2. p \in ToSet(o) /\ q \in ToSet(o) /\ p # q /\ side \in {0, 1}
    BY <1>3, <1>4, <1>6, <2>1, OnceIs DEF Side
  <2>3. PICK S, rest, k : S = ToSet(o) \ {p} /\ rest = Filtered(o, S) /\ k = IndexOf(rest, q)
    OBVIOUS
  <2>4. rest \in Once(Cols) /\ ToSet(rest) = ToSet(o) \cap S
    BY <1>2, <2>3, FilterOrder
  <2>5. k \in 1..Len(rest) /\ rest[k] = q
    <3>1. rest \in Seq(Cols) /\ q \in ToSet(rest)
      BY <2>2, <2>3, <2>4, OnceIs
    <3> QED BY <2>3, <3>1, IndexIs
  <2>6. PICK n : n = InsertAt(rest, k + side, p)
    OBVIOUS
  <2>7. n \in Once(Cols) /\ Beside(o, n, p, q, side)
    BY ONLY <1>2, <2>2, <2>3, <2>5, <2>6, MovedBeside
  <2>8. k + side = IF from < to THEN k + 1 ELSE k
    <3>1. k \in Int
      BY <2>4, <2>5, OnceIs
    <3> QED BY <2>1, <3>1 DEF Side
  <2>9. {from, to} \ DOMAIN v = {}
    OBVIOUS
  <2>10. Table!MoveVisibleIndex(x, from, to, spec) = Table!Reordered(x, n)
    BY <1>1, <1>6, <2>1, <2>3, <2>6, <2>8, <2>9, TableHelpers
       DEF Table!MoveVisibleIndex, Table!Without
  <2>11. ToSet(n) = ToSet(spec.columns)
    BY <1>2, <2>7 DEF Beside
  <2>12. Table!Visible(Table!Reordered(x, n), spec) = Filtered(n, V)
    BY <1>1, <2>7, <2>11, TableReordered
  <2>13. Beside(o, n, v[from], v[to], Side(from, to))
    BY <2>1, <2>7
  <2>14. Filtered(n, V) = InsertAt(RemoveAt(v, from), to, v[from])
    BY ONLY <1>2, <1>4, <1>6, <2>7, <2>13, KeptMoves
  <2> QED BY <2>10, <2>12, <2>14
<1> QED BY <1>5, <1>6

LEMMA TableDrops == TableInv => Table!DropsWhatWasGripped
<1> SUFFICES ASSUME TableInv, NEW t \in Tabs, NEW slot,
                    NEW before, before = Table!Visible(Table!Current(t), Table!Table(t)),
                    NEW to, to = Table!SlotToIndex(grip.from, slot),
                    grip.from \in DOMAIN before, to \in DOMAIN before,
                    before[grip.from] = grip.page
             PROVE  Table!Visible(Table!MoveVisibleIndex(Table!Current(t), grip.from, to,
                                                         Table!Table(t)), Table!Table(t))
                      = Table!InsertAt(Table!Without(before, {grip.page}), to, grip.page)
  BY DEF Table!DropsWhatWasGripped
<1>1. IsSpec(Table!Table(t)) /\ Table!Current(t) \in Layout
  BY TableIs
<1>2. /\ before \in Once(Cols) /\ grip.from \in 1..Len(before)
  BY <1>1, LayoutIs, FilterOrder, OnceIs
<1>3. PICK i : i = grip.from
  OBVIOUS
<1>4. RemoveAt(before, i) = Filtered(before, ToSet(before) \ {before[i]})
  BY <1>2, <1>3, RemovedOrder
<1>5. Table!InsertAt(Table!Without(before, {grip.page}), to, grip.page)
        = InsertAt(RemoveAt(before, i), to, before[i])
  BY <1>3, <1>4, TableHelpers DEF Table!Without
<1> QED BY <1>1, <1>3, <1>5, TableDropped

\* c and its neighbour exchanged, if it has one there.
Stepped(s, c, d) ==
  IF c \in ToSet(s) /\ IndexOf(s, c) + d \in DOMAIN s
  THEN [s EXCEPT ![IndexOf(s, c)] = s[IndexOf(s, c) + d], ![IndexOf(s, c) + d] = s[IndexOf(s, c)]]
  ELSE s

LEMMA SteppedIs ==
  ASSUME NEW T, NEW s \in Once(T), NEW c \in ToSet(s), NEW d \in {0 - 1, 1}, NEW at, NEW to,
         at = IndexOf(s, c), to = at + d, to \in DOMAIN s
  PROVE  /\ at \in 1..Len(s) /\ to \in 1..Len(s) /\ at # to /\ s[at] = c
         /\ Stepped(s, c, d) = [s EXCEPT ![at] = s[to], ![to] = s[at]]
         /\ Stepped(s, c, d) = InsertAt(RemoveAt(s, at), to, s[at])
<1>1. s \in Seq(T) /\ DOMAIN s = 1..Len(s) /\ Len(s) \in Nat
  BY OnceIs
<1>2. at \in 1..Len(s) /\ s[at] = c
  BY <1>1, IndexIs
<1>3. to \in 1..Len(s) /\ (at + 1 = to \/ to + 1 = at) /\ at # to
  BY <1>1, <1>2
<1>4. Stepped(s, c, d) = [s EXCEPT ![at] = s[to], ![to] = s[at]]
  BY DEF Stepped
<1>5. [s EXCEPT ![at] = s[to], ![to] = s[at]] = InsertAt(RemoveAt(s, at), to, s[at])
  BY ONLY <1>2, <1>3, Exchanged, s \in Once(T)
<1> QED BY <1>2, <1>3, <1>4, <1>5

LEMMA TableMoves == TableInv => Table!MovesByOne
<1> SUFFICES ASSUME TableInv, NEW t \in Tabs, NEW spec, spec = Table!Table(t),
                    NEW c \in ToSet(spec.columns), NEW d \in {0 - 1, 1},
                    NEW x, x = Table!Current(t)
             PROVE  /\ Table!Visible(Table!MoveVisible(x, c, d, spec), spec)
                         = Stepped(Table!Visible(x, spec), c, d)
                    /\ Table!FullOrder(Table!MoveInOrder(x, c, d, spec), spec)
                         = Stepped(Table!FullOrder(x, spec), c, d)
  BY TableHelpers DEF Table!MovesByOne, Stepped, Table!Steps
<1>1. IsSpec(spec) /\ x \in Layout
  BY TableIs
<1>2. PICK o, v : o = Table!FullOrder(x, spec) /\ v = Table!Visible(x, spec)
  OBVIOUS
<1>3. o \in Once(Cols) /\ ToSet(o) = ToSet(spec.columns) /\ v \in Once(Cols)
  BY <1>1, <1>2, LayoutIs, FilterOrder
<1>4. PICK at, to : at = IndexOf(v, c) /\ to = at + d
  OBVIOUS
<1>5. Table!Visible(Table!MoveVisible(x, c, d, spec), spec) = Stepped(v, c, d)
  <2>1. CASE c \notin ToSet(v)
    BY <1>2, <2>1, TableHelpers DEF Table!MoveVisible, Stepped
  <2>2. CASE c \in ToSet(v)
    <3>1. Table!MoveVisible(x, c, d, spec) = Table!MoveVisibleIndex(x, at, to, spec)
      BY <1>2, <1>4, <2>2, TableHelpers DEF Table!MoveVisible
    <3>2. CASE to \notin DOMAIN v
      <4>1. Table!MoveVisibleIndex(x, at, to, spec) = x
        BY <1>2, <3>2 DEF Table!MoveVisibleIndex
      <4> QED BY <1>2, <1>4, <3>1, <3>2, <4>1 DEF Stepped
    <3>3. CASE to \in DOMAIN v
      <4>1. at \in 1..Len(v) /\ Stepped(v, c, d) = InsertAt(RemoveAt(v, at), to, v[at])
        BY ONLY <1>3, <1>4, <2>2, <3>3, SteppedIs, d \in {0 - 1, 1}
      <4>2. at \in DOMAIN v
        BY <1>3, <4>1, OnceIs
      <4> QED BY <1>1, <1>2, <3>1, <3>3, <4>1, <4>2, TableDropped
    <3> QED BY <3>2, <3>3
  <2> QED BY <2>1, <2>2
<1>6. Table!FullOrder(Table!MoveInOrder(x, c, d, spec), spec) = Stepped(o, c, d)
  <2>1. PICK i, k : i = IndexOf(o, c) /\ k = i + d
    OBVIOUS
  <2>2. CASE k \notin DOMAIN o
    BY <1>2, <1>3, <2>1, <2>2, TableHelpers DEF Table!MoveInOrder, Stepped
  <2>3. CASE k \in DOMAIN o
    <3>1. c \in ToSet(o)
      BY <1>3
    <3>2. /\ i \in 1..Len(o) /\ k \in 1..Len(o) /\ i # k /\ o[i] = c
          /\ Stepped(o, c, d) = [o EXCEPT ![i] = o[k], ![k] = o[i]]
          /\ Stepped(o, c, d) = InsertAt(RemoveAt(o, i), k, o[i])
      BY ONLY <1>3, <2>1, <2>3, <3>1, SteppedIs, d \in {0 - 1, 1}
    <3>3. PICK n : n = Stepped(o, c, d)
      OBVIOUS
    <3>4. n \in Once(Cols) /\ ToSet(n) = ToSet(o)
      BY <1>3, <3>2, <3>3, MovedPlace DEF Beside
    <3>5. Table!MoveInOrder(x, c, d, spec) = Table!Reordered(x, n)
      BY <1>2, <2>1, <2>3, <3>1, <3>2, <3>3, TableHelpers DEF Table!MoveInOrder
    <3> QED BY <1>1, <1>3, <3>3, <3>4, <3>5, TableReordered
  <2> QED BY <2>2, <2>3
<1> QED BY <1>2, <1>5, <1>6

LEMMA TableHides == TableInv => Table!HidingHides
<1> SUFFICES ASSUME TableInv, NEW t \in Tabs, NEW spec, spec = Table!Table(t),
                    NEW c \in ToSet(spec.columns), NEW x, x = Table!Current(t),
                    NEW v, v = Table!Visible(x, spec), Len(v) > 1, c \in ToSet(v),
                    NEW y, y = Table!HideColumn(x, c, spec)
             PROVE  /\ y.sort.id # c
                    /\ Table!Visible(y, spec) =
                         IF Table!AllHidden(x, spec) THEN v ELSE Table!Without(v, {c})
  BY TableHelpers DEF Table!HidingHides
<1>1. IsSpec(spec) /\ x \in Layout
  BY TableIs
<1>2. PICK o : o = Table!FullOrder(x, spec)
  OBVIOUS
<1>3. /\ o \in Once(Cols) /\ ToSet(o) = ToSet(spec.columns) /\ v = Filtered(o, ShownOf(x, spec))
  BY <1>1, <1>2, LayoutIs
<1>4. v \in Once(Cols) /\ ToSet(v) = ToSet(o) \cap ShownOf(x, spec)
  BY <1>3, FilterOrder
<1>5. y = [order |-> o, hidden |-> x.hidden \cup {c},
           sort |-> IF x.sort.id = c THEN Table!NoSort ELSE x.sort]
  <2>1. ~(Len(v) <= 1)
    BY <1>4, OnceIs
  <2> QED BY <1>2, <2>1, TableHelpers DEF Table!HideColumn
<1>6. c \in Cols
  BY <1>3, <1>4, OnceIs
<1>7. y.sort.id # c
  BY <1>5, <1>6, TableBounds DEF Table!NoSort
<1>8. y \in Layout
  <2>1. o \in Seq(Cols) /\ IsInjective(o)
    BY <1>3 DEF Once
  <2>2. x.hidden \cup {c} \in SUBSET Cols
    BY <1>1, <1>6 DEF Layout
  <2>3. (IF x.sort.id = c THEN Table!NoSort ELSE x.sort) \in Sorts
    BY <1>1 DEF Layout, Sorts
  <2> QED BY ONLY <1>5, <2>1, <2>2, <2>3 DEF Layout
<1>9. Table!FullOrder(y, spec) = o
  <2>1. Table!FullOrder(y, spec) = Full(y.order, spec.columns) /\ spec.columns \in Once(Cols)
    BY <1>1, <1>8, LayoutIs
  <2>2. y.order = o
    BY <1>5
  <2> QED BY <1>3, <2>1, <2>2, FullAgain
<1>10. Table!Visible(y, spec) = Filtered(o, ShownOf(y, spec))
  BY <1>1, <1>8, <1>9, LayoutIs
<1>11. CASE Table!AllHidden(x, spec)
  <2>1. ShownOf(y, spec) = ShownOf(x, spec)
    BY <1>5, <1>11 DEF ShownOf, Table!AllHidden
  <2> QED BY <1>3, <1>7, <1>10, <1>11, <2>1
<1>12. CASE ~Table!AllHidden(x, spec)
  <2>1. PICK e : e \in ToSet(v) /\ e # c
    <3>1. PICK i \in 1..Len(v) : v[i] = c
      BY <1>4, OnceIs
    <3>2. PICK j \in 1..Len(v) : j # i
      <4>1. 1 \in 1..Len(v) /\ 2 \in 1..Len(v)
        BY <1>4, OnceIs
      <4> QED BY <4>1
    <3>3. v[j] \in ToSet(v) /\ v[j] # v[i]
      BY ONLY <1>4, <3>1, <3>2, OnceIs
    <3> QED BY <3>1, <3>3
  <2>2. ShownOf(x, spec) = ToSet(spec.columns) \ x.hidden
    BY <1>12 DEF ShownOf
  <2>3. ~Table!AllHidden(y, spec)
    <3>1. e \in ToSet(spec.columns) /\ e \notin y.hidden
      BY <1>3, <1>4, <1>5, <2>1, <2>2
    <3> QED BY <3>1, TableHelpers DEF Table!AllHidden
  <2>4. ShownOf(y, spec) = ToSet(spec.columns) \ (x.hidden \cup {c})
    BY <1>5, <2>3 DEF ShownOf
  <2>5. PICK a, b, V, W, S : /\ a = Filtered(o, W) /\ b = Filtered(v, S)
                             /\ V = ShownOf(x, spec) /\ W = ShownOf(y, spec) /\ S = ToSet(v) \ {c}
    OBVIOUS
  <2>6. /\ a \in Once(Cols) /\ ToSet(a) = ToSet(o) \cap W
        /\ \A i, j : Before(a, i, j) <=> Before(o, i, j) /\ i \in W /\ j \in W
    BY <1>3, <2>5, FilterOrder
  <2>7. /\ b \in Once(Cols) /\ ToSet(b) = ToSet(v) \cap S
        /\ \A i, j : Before(b, i, j) <=> Before(v, i, j) /\ i \in S /\ j \in S
    BY <1>4, <2>5, FilterOrder
  <2>8. \A i, j : Before(v, i, j) <=> Before(o, i, j) /\ i \in V /\ j \in V
    BY <1>3, <2>5, FilterOrder
  <2>9. ToSet(a) = S /\ ToSet(b) = S /\ S \subseteq V /\ S \subseteq W
    BY <1>3, <1>4, <2>2, <2>4, <2>5, <2>6, <2>7
  <2>10. a = b
    BY <2>6, <2>7, <2>8, <2>9, SameOrder
  <2>11. Table!Without(v, {c}) = b
    BY <2>5, TableHelpers DEF Table!Without
  <2> QED BY <1>7, <1>10, <1>12, <2>5, <2>10, <2>11
<1> QED BY <1>11, <1>12

-----------------------------------------------------------------------------
(* The greenie board. An answer is of the page that is open, and has read   *)
(* all the passes it counted.                                              *)

Request ==
  [at : {"sent", "asking", "counted", "answered"}, answer : Board!Answers]
\* What an answer may say to a page.
Says(answer) ==
  /\ answer.kind = "ready" =>
       /\ answer.total <= answer.read /\ answer.read <= Len(passes)
       /\ answer.cap \in {Board!All, PerPilot}
  /\ answer.kind = "unconfigured" /\ answer.error = "no" => database = "unset"
  /\ IF page = "board" THEN answer.kind # "notice" ELSE answer.kind \in {"loading", "notice", "ready"}

BoardInv ==
  /\ passes \in Seq(PassKinds) /\ Len(passes) <= MaxPasses
  /\ database \in {"unset", "absent", "present"}
  /\ page \in {"board", "pilots"} /\ showAll \in {"yes", "no"}
  /\ shown \in Board!Answers /\ Says(shown)
  /\ requests \in Seq(Request) /\ Len(requests) <= MaxInFlight
  /\ \A i \in DOMAIN requests :
       /\ Says(requests[i].answer)
       /\ requests[i].answer.cap \in {Board!All, PerPilot}
       /\ requests[i].at \in {"asking", "counted"} => page = "board"
       /\ requests[i].at = "counted" => requests[i].answer.total <= Len(passes)
       /\ requests[i].at = "sent" => requests[i].answer.total = 0
       /\ requests[i].at # "answered" => requests[i].answer.kind = "loading"

LEMMA BoardBounds ==
  /\ PageLimit \in Nat \ {0} /\ PerPilot \in Nat \ {0}
  /\ MaxPasses \in Nat /\ MaxInFlight \in Nat
BY PartsAssumption DEF Board!BoardAssumption

LEMMA BoardHelpers ==
  /\ \A s : Board!ToSet(s) = ToSet(s)
  /\ \A s, S : Board!Filtered(s, S) = Filtered(s, S)
  /\ \A s, i : Board!RemoveAt(s, i) = RemoveAt(s, i)
  /\ \A S : Board!Cardinality(S) = Cardinality(S)
<1>1. \A s, S : Board!Filtered(s, S) = Filtered(s, S)
  <2> TAKE s, S
  <2> QED BY DEF Board!Filtered, Filtered, Board!Cardinality, Cardinality
<1>2. \A S : Board!Cardinality(S) = Cardinality(S)
  <2> TAKE S
  <2> QED BY DEF Board!Cardinality, Cardinality
<1>3. \A s, i : Board!RemoveAt(s, i) = RemoveAt(s, i)
  BY DEF Board!RemoveAt, RemoveAt
<1> QED BY <1>1, <1>2, <1>3 DEF Board!ToSet, ToSet

\* The ids in a set from the newest down.
LEMMA NewestFirstIs ==
  ASSUME NEW n \in Nat, NEW ids \in SUBSET (1..n)
  PROVE  /\ Board!NewestFirst(ids, n) \in Seq(1..n)
         /\ Len(Board!NewestFirst(ids, n)) \in 0..n
         /\ ToSet(Board!NewestFirst(ids, n)) = ids
         /\ \A i, j \in 1..Len(Board!NewestFirst(ids, n)) :
              i < j => Board!NewestFirst(ids, n)[i] > Board!NewestFirst(ids, n)[j]
<1>1. PICK s : s = [k \in 1..n |-> n + 1 - k]
  OBVIOUS
<1>2. s \in Seq(1..n) /\ Len(s) = n /\ \A k \in 1..n : s[k] = n + 1 - k
  <2>1. \A k \in 1..n : n + 1 - k \in 1..n
    OBVIOUS
  <2>2. s \in [1..n -> 1..n]
    BY <1>1, <2>1
  <2>3. s \in Seq(1..n)
    BY <2>2, SeqDef
  <2>4. Len(s) = n
    BY <2>2, <2>3, InSeq
  <2> QED BY <1>1, <2>3, <2>4
<1>3. PICK r : r = Filtered(s, ids)
  OBVIOUS
<1>4. r \in Seq(1..n) /\ ToSet(r) = ToSet(s) \cap ids
  BY ONLY <1>2, <1>3, FilterKeeps
<1>5. ToSet(s) = 1..n
  <2>1. \A k \in 1..n : n + 1 - k \in 1..n /\ s[n + 1 - k] = k
    <3> TAKE k \in 1..n
    <3>1. n + 1 - k \in 1..n /\ n + 1 - (n + 1 - k) = k
      OBVIOUS
    <3> QED BY <1>2, <3>1
  <2>2. ToSet(s) = {s[i] : i \in 1..n} /\ ToSet(s) \subseteq 1..n
    BY ONLY <1>2, InSeq
  <2>3. \A k \in 1..n : k \in ToSet(s)
    BY ONLY <2>1, <2>2
  <2> QED BY ONLY <2>2, <2>3
<1>6. PICK m \in 0..n : \E g \in [1..m -> 1..n] : Keeps(s, ids, m, g)
  BY <1>2, FilterPlaces
<1>7. PICK g \in [1..m -> 1..n] : Keeps(s, ids, m, g)
  BY <1>6
<1>8. r = [k \in 1..m |-> s[g[k]]]
  BY <1>3, <1>7 DEF Keeps
<1>9. Len(r) = m
  BY <1>4, <1>8, InSeq
<1>10. ASSUME NEW i \in 1..m, NEW j \in 1..m, i < j PROVE r[i] > r[j]
  <2>1. g[i] < g[j] /\ g[i] \in 1..n /\ g[j] \in 1..n
    BY <1>7, <1>10 DEF Keeps
  <2>2. r[i] = n + 1 - g[i] /\ r[j] = n + 1 - g[j]
    BY <1>2, <1>8, <2>1
  <2> QED BY ONLY <2>1, <2>2, n \in Nat
<1>11. Board!NewestFirst(ids, n) = r
  BY <1>1, <1>3, BoardHelpers DEF Board!NewestFirst
<1> QED BY <1>4, <1>5, <1>6, <1>9, <1>10, <1>11

\* All of them, each at its own place.
LEMMA AllNewestFirst ==
  ASSUME NEW n \in Nat
  PROVE  /\ Board!NewestFirst(1..n, n) \in Seq(1..n) /\ Len(Board!NewestFirst(1..n, n)) = n
         /\ \A k \in 1..n : Board!NewestFirst(1..n, n)[k] = n + 1 - k
<1>1. PICK s : s = [k \in 1..n |-> n + 1 - k]
  OBVIOUS
<1>2. s \in Seq(1..n) /\ Len(s) = n /\ \A k \in 1..n : s[k] = n + 1 - k /\ s[k] \in 1..n
  <2>1. \A k \in 1..n : n + 1 - k \in 1..n
    OBVIOUS
  <2>2. s \in [1..n -> 1..n]
    BY <1>1, <2>1
  <2>3. s \in Seq(1..n)
    BY <2>2, SeqDef
  <2>4. Len(s) = n
    BY <2>2, <2>3, InSeq
  <2> QED BY <1>1, <2>1, <2>3, <2>4
<1> DEFINE kept == {i \in 1..Len(s) : s[i] \in 1..n}
           Nth(k) == CHOOSE i \in kept : Cardinality(kept \cap (1..i)) = k
<1>3. kept = 1..n
  BY <1>2
<1>4. Cardinality(kept) = n /\ \A i \in kept : Cardinality(kept \cap (1..i)) = i
  <2>1. Cardinality(1..n) = n
    BY UpTo
  <2>2. ASSUME NEW i \in 1..n PROVE Cardinality((1..n) \cap (1..i)) = i
    <3>1. (1..n) \cap (1..i) = 1..i
      OBVIOUS
    <3>2. Cardinality(1..i) = i
      BY UpTo
    <3> QED BY <3>1, <3>2
  <2> HIDE DEF kept
  <2>3. \A i \in 1..n : Cardinality((1..n) \cap (1..i)) = i
    BY ONLY <2>2
  <2> QED BY ONLY <1>3, <2>1, <2>3
<1>5. Filtered(s, 1..n) = [k \in 1..n |-> s[Nth(k)]]
  BY <1>4 DEF Filtered
<1>6. \A k \in 1..n : Nth(k) = k
  BY <1>3, <1>4
<1>7. Filtered(s, 1..n) = [k \in 1..n |-> s[k]]
  BY <1>5, <1>6
<1>8. Filtered(s, 1..n) = s
  BY <1>1, <1>7
<1>9. Board!NewestFirst(1..n, n) = s
  BY <1>1, <1>8, BoardHelpers DEF Board!NewestFirst
<1> QED BY <1>2, <1>9

\* The first n of a sequence.
LEMMA FirstOf ==
  ASSUME NEW T, NEW s, NEW n \in Nat, \A i \in 1..n : s[i] \in T
  PROVE  /\ SubSeq(s, 1, n) \in Seq(T) /\ Len(SubSeq(s, 1, n)) = n
         /\ \A i \in 1..n : SubSeq(s, 1, n)[i] = s[i]
<1>1. PICK r : r = SubSeq(s, 1, n)
  OBVIOUS
<1>2. /\ r \in Seq(T) /\ Len(r) = IF 1 <= n THEN n - 1 + 1 ELSE 0
      /\ \A i \in 1..(n - 1 + 1) : r[i] = s[1 + i - 1]
  BY <1>1, SubSeqProperties
<1>3. n - 1 + 1 = n /\ \A i \in 1..n : 1 + i - 1 = i
  OBVIOUS
<1> QED BY <1>1, <1>2, <1>3

\* LIMIT keeps the first entries, and all of them if there are no more.
LEMMA LimitedIs ==
  ASSUME NEW T, NEW s \in Seq(T), NEW n \in Nat
  PROVE  /\ Board!Limited(s, n) \in Seq(T)
         /\ Len(Board!Limited(s, n)) = IF Len(s) < n THEN Len(s) ELSE n
         /\ Len(Board!Limited(s, n)) <= Len(s)
         /\ \A i \in 1..Len(Board!Limited(s, n)) : Board!Limited(s, n)[i] = s[i]
         /\ ToSet(Board!Limited(s, n)) \subseteq ToSet(s)
         /\ Len(s) <= n => ToSet(Board!Limited(s, n)) = ToSet(s)
<1>1. Len(s) \in Nat /\ DOMAIN s = 1..Len(s) /\ \A i \in 1..Len(s) : s[i] \in T
  BY InSeq
<1>2. PICK m \in 0..Len(s) :
        (Len(s) < n => m = Len(s)) /\ (~(Len(s) < n) => m = n)
  <2>1. PICK l \in Nat : l = Len(s)
    BY <1>1
  <2>2. \E m \in 0..l : (l < n => m = l) /\ (~(l < n) => m = n)
    BY ONLY n \in Nat, <2>1
  <2> QED BY ONLY <2>1, <2>2
<1>3. PICK r : r = SubSeq(s, 1, m)
  OBVIOUS
<1>4. r \in Seq(T) /\ Len(r) = m /\ \A i \in 1..m : r[i] = s[i]
  <2>1. \A i \in 1..m : s[i] \in T
    BY <1>1
  <2> QED BY <1>1, <1>3, <2>1, FirstOf
<1>5. ToSet(r) = {r[i] : i \in 1..m} /\ ToSet(s) = {s[i] : i \in 1..Len(s)}
  BY <1>4, InSeq
<1>6. ToSet(r) \subseteq ToSet(s) /\ (Len(s) <= n => ToSet(r) = ToSet(s))
  <2>1. \A i \in 1..m : i \in 1..Len(s) /\ r[i] = s[i]
    BY <1>1, <1>4
  <2>2. Len(s) <= n => m = Len(s)
    <3>1. PICK l \in Nat : l = Len(s)
      BY <1>1
    <3>2. m \in 0..l /\ (l < n => m = l) /\ (~(l < n) => m = n)
      BY <1>2, <3>1
    <3> QED BY ONLY n \in Nat, <3>1, <3>2
  <2> QED BY ONLY <1>5, <2>1, <2>2
<1>7. Board!Limited(s, n) = r
  <2>1. m = IF Len(s) < n THEN Len(s) ELSE n
    BY <1>2
  <2> QED BY ONLY <1>3, <2>1 DEF Board!Limited
<1>8. Len(r) = IF Len(s) < n THEN Len(s) ELSE n
  BY <1>2, <1>4
<1>9. Len(r) <= Len(s)
  BY <1>1, <1>4
<1> QED BY ONLY <1>4, <1>6, <1>7, <1>8, <1>9

LEMMA BoardStart == Board!Init => BoardInv
<1> SUFFICES ASSUME Board!Init PROVE BoardInv
  OBVIOUS
<1>1. Board!Loading \in Board!Answers /\ Says(Board!Loading)
  BY BoardBounds DEF Board!Loading, Board!Answers, Board!Init, Says
<1>2. passes \in Seq(PassKinds) /\ Len(passes) = 0 /\ requests \in Seq(Request) /\ Len(requests) = 0
  BY DEF Board!Init
<1> QED BY <1>1, <1>2, BoardBounds DEF Board!Init, BoardInv

\* A request that is sent.
LEMMA BoardAsks ==
  ASSUME BoardInv, NEW toggle, Len(requests) < MaxInFlight,
         requests' = Append(requests, Board!Sent(toggle)), showAll' \in {"yes", "no"},
         UNCHANGED <<passes, database, page, shown>>
  PROVE  BoardInv'
<1>1. PICK q : q = Board!Sent(toggle)
  OBVIOUS
<1>2. /\ q \in Request /\ q.at = "sent" /\ q.answer.total = 0 /\ Says(q.answer)
      /\ q.answer.cap \in {Board!All, PerPilot} /\ q.answer.kind = "loading"
  <2>1. PICK cap : cap = Board!Cap(toggle)
    OBVIOUS
  <2>2. cap \in {Board!All, PerPilot}
    BY <2>1 DEF Board!Cap
  <2>3. PICK a : a = [kind |-> "loading", total |-> 0, cap |-> cap, read |-> 0, error |-> "no"]
    OBVIOUS
  <2>4. a \in Board!Answers
    BY <2>2, <2>3, BoardBounds DEF Board!Answers
  <2>5. Says(a)
    BY <2>3 DEF Says, BoardInv
  <2>6. q = [at |-> "sent", answer |-> a]
    BY <1>1, <2>1, <2>3 DEF Board!Sent, Board!Loading
  <2> QED BY <2>2, <2>3, <2>4, <2>5, <2>6 DEF Request
<1>3. requests \in Seq(Request) /\ Len(requests) \in Nat /\ DOMAIN requests = 1..Len(requests)
  BY InSeq DEF BoardInv
<1>4. /\ requests' \in Seq(Request) /\ Len(requests') = Len(requests) + 1
      /\ DOMAIN requests' = 1..Len(requests) + 1
      /\ \A i \in DOMAIN requests' : requests'[i] = IF i \in DOMAIN requests THEN requests[i] ELSE q
  <2>1. PICK r : r = Append(requests, q)
    OBVIOUS
  <2>2. /\ r \in Seq(Request) /\ Len(r) = Len(requests) + 1
        /\ \A i \in 1..Len(requests) : r[i] = requests[i]
        /\ r[Len(requests) + 1] = q
    BY <1>2, <1>3, <2>1, AppendProperties
  <2>3. DOMAIN r = 1..Len(requests) + 1
    BY <2>2, InSeq
  <2>4. \A i \in 1..Len(requests) + 1 : i \in 1..Len(requests) \/ i = Len(requests) + 1
    BY <1>3
  <2>5. requests' = r
    BY <1>1, <2>1
  <2> QED BY <1>3, <2>2, <2>3, <2>4, <2>5
<1>5. Len(requests') <= MaxInFlight
  BY <1>3, <1>4, BoardBounds
<1>6. \A a : Says(a)' <=> Says(a)
  BY DEF Says
<1> QED BY <1>2, <1>4, <1>5, <1>6 DEF BoardInv

\* A request whose answer advances.
LEMMA BoardAnswers ==
  ASSUME BoardInv, NEW i \in DOMAIN requests, NEW at, NEW answer,
         requests' = Board!Advanced(i, at, answer), [at |-> at, answer |-> answer] \in Request,
         Says(answer), answer.cap = requests[i].answer.cap,
         at \in {"asking", "counted"} => page = "board",
         at = "counted" => answer.total <= Len(passes),
         at = "sent" => answer.total = 0, at # "answered" => answer.kind = "loading",
         UNCHANGED <<passes, database, page, showAll, shown>>
  PROVE  BoardInv'
<1>1. PICK q : q = [at |-> at, answer |-> answer]
  OBVIOUS
<1>2. q \in Request /\ q.at = at /\ q.answer = answer
  BY <1>1
<1>3. requests' = [requests EXCEPT ![i] = q]
  BY <1>1 DEF Board!Advanced
<1>4. requests \in Seq(Request) /\ Len(requests) <= MaxInFlight
  BY DEF BoardInv
<1>5. /\ requests' \in Seq(Request) /\ Len(requests') = Len(requests)
      /\ DOMAIN requests' = DOMAIN requests
      /\ \A j \in DOMAIN requests : requests'[j] = IF j = i THEN q ELSE requests[j]
  BY <1>2, <1>3, <1>4, InSeq, ExceptSeq
<1>6. \A a : Says(a)' <=> Says(a)
  BY DEF Says
<1> QED BY <1>2, <1>4, <1>5, <1>6 DEF BoardInv

\* A request that ends, with what is shown then.
LEMMA BoardEnds ==
  ASSUME BoardInv, NEW i \in DOMAIN requests, requests' = Board!RemoveAt(requests, i),
         shown' \in Board!Answers, Says(shown)', UNCHANGED <<passes, database, page, showAll>>
  PROVE  BoardInv'
<1>1. requests' = RemoveAt(requests, i)
  BY BoardHelpers
<1>2. requests \in Seq(Request) /\ Len(requests) <= MaxInFlight /\ i \in 1..Len(requests)
  BY InSeq DEF BoardInv
<1>3. PICK r : r = RemoveAt(requests, i)
  OBVIOUS
<1>4. /\ r \in Seq(Request) /\ Len(r) + 1 = Len(requests)
      /\ \A j \in DOMAIN r : \E k \in DOMAIN requests : r[j] = requests[k]
  BY ONLY <1>2, <1>3, Removal
<1>5. Len(r) \in Nat /\ Len(requests) \in Nat
  BY <1>2, <1>4, InSeq
<1>6. Len(r) <= MaxInFlight
  BY <1>2, <1>4, <1>5, BoardBounds
<1>7. \A a : Says(a)' <=> Says(a)
  BY DEF Says
<1> QED BY <1>1, <1>3, <1>4, <1>6, <1>7 DEF BoardInv

LEMMA BoardStep == BoardInv /\ [Board!Next]_boardVars => BoardInv'
<1> SUFFICES ASSUME BoardInv, [Board!Next]_boardVars PROVE BoardInv'
  OBVIOUS
<1>0. /\ requests \in Seq(Request) /\ Len(passes) \in Nat /\ Len(passes) <= MaxPasses
      /\ \A i \in DOMAIN requests : requests[i] \in Request
  BY InSeq DEF BoardInv
<1>1. CASE UNCHANGED boardVars
  BY <1>1 DEF boardVars, BoardInv, Says
<1>2. CASE Board!Create
  <2>1. database = "absent" /\ database' = "present" /\ UNCHANGED <<passes, page, showAll, shown, requests>>
    BY <1>2 DEF Board!Create
  <2>2. \A a : Says(a) => Says(a)'
    BY <2>1 DEF Says
  <2> QED BY <2>1, <2>2 DEF BoardInv
<1>3. ASSUME NEW kind \in PassKinds, Board!Record(kind) PROVE BoardInv'
  <2>1. /\ passes' = Append(passes, kind) /\ Len(passes) < MaxPasses
        /\ UNCHANGED <<database, page, showAll, shown, requests>>
    BY <1>3 DEF Board!Record
  <2>2. passes' \in Seq(PassKinds) /\ Len(passes') = Len(passes) + 1
    BY <2>1, AppendProperties DEF BoardInv
  <2>3. Len(passes') <= MaxPasses /\ \A n \in Nat : n <= Len(passes) => n <= Len(passes')
    BY <1>0, <2>1, <2>2, BoardBounds
  <2>4. \A i \in DOMAIN requests : requests[i].answer.total \in Nat /\ requests[i].answer \in Board!Answers
    BY <1>0, BoardBounds DEF Request, Board!Answers
  <2>5. \A a \in Board!Answers : Says(a) => Says(a)'
    <3> TAKE a \in Board!Answers
    <3>1. a.read \in Nat
      BY BoardBounds DEF Board!Answers
    <3>2. a.read <= Len(passes) => a.read <= Len(passes')
      BY <2>3, <3>1
    <3> QED BY <2>1, <3>2 DEF Says
  <2> QED BY <2>1, <2>2, <2>3, <2>4, <2>5 DEF BoardInv
<1>4. ASSUME NEW p \in {"board", "pilots"}, Board!Open(p) PROVE BoardInv'
  <2>1. /\ page' = p /\ showAll' = "no" /\ shown' = Board!Loading /\ requests' = <<>>
        /\ UNCHANGED <<passes, database>>
    BY <1>4 DEF Board!Open
  <2>2. shown' \in Board!Answers /\ Says(shown)'
    BY <2>1, BoardBounds DEF Board!Loading, Board!Answers, Says
  <2>3. requests' \in Seq(Request) /\ Len(requests') = 0
    BY <2>1
  <2> QED BY <2>1, <2>2, <2>3, BoardBounds DEF BoardInv
<1>5. CASE Board!Refresh
  <2>1. /\ Len(requests) < MaxInFlight /\ requests' = Append(requests, Board!Sent(showAll))
        /\ UNCHANGED <<passes, database, page, showAll, shown>>
    BY <1>5 DEF Board!Refresh
  <2>2. showAll' \in {"yes", "no"}
    BY <2>1 DEF BoardInv
  <2> QED BY <2>1, <2>2, BoardAsks
<1>6. CASE Board!Toggle
  <2>1. PICK toggle : toggle = IF showAll = "yes" THEN "no" ELSE "yes"
    OBVIOUS
  <2>2. /\ Len(requests) < MaxInFlight /\ requests' = Append(requests, Board!Sent(toggle))
        /\ UNCHANGED <<passes, database, page, shown>> /\ showAll' = toggle
    BY <1>6, <2>1 DEF Board!Toggle
  <2> QED BY <2>1, <2>2, BoardAsks
<1>7. ASSUME NEW i \in DOMAIN requests, Board!Serve(i) PROVE BoardInv'
  <2>1. PICK a : a = requests[i].answer
    OBVIOUS
  <2>2. /\ a \in Board!Answers /\ Says(a) /\ a.cap \in {Board!All, PerPilot}
        /\ requests[i].at \in {"sent", "asking", "counted", "answered"}
        /\ requests[i].at \in {"asking", "counted"} => page = "board"
        /\ requests[i].at = "counted" => a.total <= Len(passes)
        /\ requests[i].at = "sent" => a.total = 0
        /\ requests[i].at # "answered" => a.kind = "loading"
    BY <1>0, <2>1 DEF BoardInv, Request
  <2>3. CASE Board!NotFound(i)
    <3>1. PICK b : b = [a EXCEPT !.kind = "notice"]
      OBVIOUS
    <3>2. /\ requests[i].at = "sent" /\ UNCHANGED <<passes, database, page, showAll, shown>>
          /\ requests' = IF page = "board" THEN Board!Advanced(i, "asking", a)
                         ELSE Board!Advanced(i, "answered", b)
      BY <2>1, <2>3, <3>1 DEF Board!NotFound, Board!Answer
    <3>3. CASE page = "board"
      <4>1. [at |-> "asking", answer |-> a] \in Request
        BY <2>2 DEF Request
      <4> QED BY <2>1, <2>2, <3>2, <3>3, <4>1, BoardAnswers
    <3>4. CASE page # "board"
      <4>1. [at |-> "answered", answer |-> b] \in Request /\ Says(b) /\ b.cap = a.cap
        BY <2>2, <3>1, <3>4 DEF Request, Says, Board!Answers
      <4> QED BY <2>1, <3>2, <3>4, <4>1, BoardAnswers
    <3> QED BY <3>3, <3>4
  <2>4. CASE Board!Status(i)
    <3>1. PICK b : b = [a EXCEPT !.kind = IF database = "unset" THEN "unconfigured" ELSE "waiting"]
      OBVIOUS
    <3>2. /\ requests[i].at = "asking" /\ requests' = Board!Advanced(i, "answered", b)
          /\ UNCHANGED <<passes, database, page, showAll, shown>>
      BY <2>1, <2>4, <3>1 DEF Board!Status, Board!Answer
    <3>3. /\ [at |-> "answered", answer |-> b] \in Request /\ Says(b) /\ b.cap = a.cap
      BY <2>2, <3>1, <3>2 DEF Request, Says, Board!Answers
    <3> QED BY <2>1, <3>2, <3>3, BoardAnswers
  <2>5. CASE Board!Count(i)
    <3>1. PICK b : b = [a EXCEPT !.total = Len(passes)]
      OBVIOUS
    <3>2. /\ requests[i].at = "sent" /\ requests' = Board!Advanced(i, "counted", b)
          /\ page = "board" /\ UNCHANGED <<passes, database, page, showAll, shown>>
      BY <2>1, <2>5, <3>1 DEF Board!Count, Board!Answer
    <3>3. b \in Board!Answers /\ b.total = Len(passes) /\ b.cap = a.cap /\ b.kind = a.kind
          /\ b.error = a.error
      <4>1. a \in Board!Answers /\ Len(passes) \in 0..MaxPasses
        BY <1>0, <2>2, BoardBounds
      <4> QED BY ONLY <3>1, <4>1 DEF Board!Answers
    <3>4. [at |-> "counted", answer |-> b] \in Request
      BY <3>3 DEF Request
    <3>5. Says(b)
      BY <2>2, <3>2, <3>3 DEF Says
    <3>6. b.kind = "loading" /\ b.total <= Len(passes)
      BY <1>0, <2>2, <3>2, <3>3
    <3> QED BY <2>1, <3>2, <3>3, <3>4, <3>5, <3>6, BoardAnswers
  <2>6. CASE Board!Select(i)
    <3>1. PICK b : b = [a EXCEPT !.kind = "ready", !.read = Len(passes)]
      OBVIOUS
    <3>2. /\ requests[i].at \in {"sent", "counted"} /\ requests' = Board!Advanced(i, "answered", b)
          /\ UNCHANGED <<passes, database, page, showAll, shown>>
      BY <2>1, <2>6, <3>1 DEF Board!Select, Board!Answer
    <3>7. Len(passes) \in 0..MaxPasses
      BY <1>0, BoardBounds
    <3>3. /\ b \in Board!Answers /\ b.total = a.total /\ b.cap = a.cap /\ b.kind = "ready"
          /\ b.read = Len(passes)
      BY <2>2, <3>1, <3>7 DEF Board!Answers
    <3>4. [at |-> "answered", answer |-> b] \in Request
      BY <3>3 DEF Request
    <3>5. b.total <= b.read /\ b.read <= Len(passes)
      BY <1>0, <2>2, <3>2, <3>3
    <3>6. Says(b)
      BY <2>2, <3>3, <3>5 DEF Says
    <3> QED BY <2>1, <3>2, <3>3, <3>4, <3>6, BoardAnswers
  <2> QED BY <1>7, <2>3, <2>4, <2>5, <2>6 DEF Board!Serve
<1>8. ASSUME NEW i \in DOMAIN requests, Board!Show(i) PROVE BoardInv'
  <2>1. /\ shown' = requests[i].answer /\ requests' = Board!RemoveAt(requests, i)
        /\ UNCHANGED <<passes, database, page, showAll>>
    BY <1>8 DEF Board!Show
  <2>2. requests[i].answer \in Board!Answers /\ Says(requests[i].answer)
    BY <1>0 DEF BoardInv, Request
  <2>3. Says(shown)'
    BY <2>1, <2>2 DEF Says
  <2> QED BY <2>1, <2>2, <2>3, BoardEnds
<1>9. ASSUME NEW i \in DOMAIN requests, Board!Fail(i) PROVE BoardInv'
  <2>1. /\ shown' = Board!Failed /\ requests' = Board!RemoveAt(requests, i)
        /\ UNCHANGED <<passes, database, page, showAll>>
    BY <1>9 DEF Board!Fail
  <2>2. PICK kind : kind = IF page = "board" /\ shown.kind = "loading" THEN "unconfigured" ELSE shown.kind
    OBVIOUS
  <2>3. shown' = [shown EXCEPT !.kind = kind, !.error = "yes"]
    BY <2>1, <2>2 DEF Board!Failed
  <2>4. shown \in Board!Answers /\ Says(shown)
    BY DEF BoardInv
  <2>5. shown' \in Board!Answers
    BY <2>2, <2>3, <2>4 DEF Board!Answers
  <2>6. /\ shown'.kind = kind /\ shown'.error = "yes" /\ shown'.total = shown.total
        /\ shown'.cap = shown.cap /\ shown'.read = shown.read
    BY <2>3, <2>4 DEF Board!Answers
  <2>7. Says(shown)'
    BY <2>1, <2>2, <2>4, <2>6 DEF Says
  <2> QED BY <2>1, <2>5, <2>7, BoardEnds
<1> QED BY <1>1, <1>2, <1>3, <1>4, <1>5, <1>6, <1>7, <1>8, <1>9 DEF Board!Next

LEMMA BoardTypes == BoardInv => Board!TypeOK /\ Board!UnconfiguredIsSo
<1> SUFFICES ASSUME BoardInv PROVE Board!TypeOK /\ Board!UnconfiguredIsSo
  OBVIOUS
<1>1. requests \in Seq(Request) /\ \A i \in DOMAIN requests : requests[i] \in Request
  BY InSeq DEF BoardInv
<1>2. \A i \in DOMAIN requests :
        /\ requests[i].at \in {"sent", "asking", "counted", "answered"}
        /\ requests[i].answer \in Board!Answers
        /\ page = "pilots" => requests[i].at \notin {"asking", "counted"}
  BY <1>1 DEF BoardInv, Request
<1>3. /\ page = "pilots" => shown.kind \in {"loading", "notice", "ready"}
      /\ page = "board" => shown.kind # "notice"
  BY DEF BoardInv, Says
<1>4. Board!UnconfiguredIsSo
  BY DEF BoardInv, Says, Board!UnconfiguredIsSo
<1> QED BY <1>2, <1>3, <1>4 DEF Board!TypeOK, BoardInv

LEMMA BoardNumbers == BoardInv => Board!NumbersAreRight
<1> SUFFICES ASSUME BoardInv, page = "board", shown.kind = "ready" PROVE Board!NumbersAreRight
  BY DEF Board!NumbersAreRight
<1>1. PICK n, total : n = shown.read /\ total = shown.total
  OBVIOUS
<1>2. n \in Nat /\ total \in Nat /\ total <= n
  BY <1>1, BoardBounds DEF BoardInv, Says, Board!Answers
<1>3. PICK s : s = Board!NewestFirst(1..n, n)
  OBVIOUS
<1>4. s \in Seq(1..n) /\ Len(s) = n /\ \A k \in 1..n : s[k] = n + 1 - k
  BY <1>2, <1>3, AllNewestFirst
<1>5. PICK r : r = Board!Limited(s, PageLimit)
  OBVIOUS
<1>6. /\ r \in Seq(1..n) /\ Len(r) = IF n < PageLimit THEN n ELSE PageLimit
      /\ Len(r) <= n /\ \A k \in 1..Len(r) : r[k] = s[k]
  <2>1. PageLimit \in Nat
    BY BoardBounds
  <2>2. s \in Seq(1..n)
    BY <1>4
  <2>3. /\ r \in Seq(1..n) /\ Len(r) = IF Len(s) < PageLimit THEN Len(s) ELSE PageLimit
        /\ Len(r) <= Len(s) /\ \A k \in 1..Len(r) : r[k] = s[k]
    BY ONLY <1>5, <2>1, <2>2, LimitedIs
  <2> QED BY ONLY <1>4, <2>3
<1>7. DOMAIN r = 1..Len(r) /\ Len(r) \in Nat
  BY <1>6, InSeq
<1>8. \A k \in DOMAIN r : r[k] = (total + 1 - k) + (n - total)
  <2> TAKE k \in DOMAIN r
  <2>1. k \in 1..n
    BY <1>2, <1>6, <1>7
  <2>2. r[k] = n + 1 - k
    BY <1>4, <1>6, <1>7, <2>1
  <2> QED BY <1>2, <2>1, <2>2
<1>9. n - total >= 0
  BY <1>2
<1>10. Board!BoardRows = r
  BY <1>1, <1>3, <1>5 DEF Board!BoardRows, Board!ListPasses
<1> QED BY <1>1, <1>6, <1>8, <1>9, <1>10 DEF Board!NumbersAreRight

-----------------------------------------------------------------------------
(* Sums. What a recursive function over 0..n computes is found by its       *)
(* equation: if two functions satisfy it, or none does, there is a least    *)
(* number at which they differ, or to which none reaches.                   *)

LEMMA HasLeast ==
  ASSUME NEW T, T \subseteq Nat, T # {} PROVE \E x \in T : \A y \in T : x <= y
<1>1. PICK R : R = OpToRel(<, Nat)
  OBVIOUS
<1>2. IsWellFoundedOn(R, Nat)
  BY <1>1, NatLessThanWellFounded
<1>3. \A x, y \in Nat : y < x => <<y, x>> \in R
  BY <1>1 DEF OpToRel
<1>4. \E x \in T : \A y \in T : ~ (<<y, x>> \in R)
  BY <1>2, WFMin
<1>5. \A x, y \in Nat : ~(y < x) => x <= y
  OBVIOUS
<1> QED BY <1>3, <1>4, <1>5

\* f[k] is the sum of the first k of n numbers.
Sums(s, n, f) == f[0] = 0 /\ \A k \in 1..n : f[k] = f[k - 1] + s[k]

LEMMA SumsExist ==
  ASSUME NEW n \in Nat, NEW s \in [1..n -> Int]
  PROVE  \E f \in [0..n -> Int] : Sums(s, n, f)
<1> DEFINE Reached(m) == \E f \in [0..m -> Int] : Sums(s, m, f)
           T == {m \in 0..n : ~Reached(m)}
<1> SUFFICES ASSUME ~Reached(n) PROVE FALSE
  OBVIOUS
<1>1. T \subseteq Nat /\ T # {}
  OBVIOUS
<1>2. PICK m \in T : \A k \in T : m <= k
  BY ONLY <1>1, HasLeast
<1>3. m \in 0..n /\ ~Reached(m)
  OBVIOUS
<1>4. CASE m = 0
  <2> DEFINE f == [k \in 0..m |-> 0]
  <2>1. f \in [0..m -> Int] /\ Sums(s, m, f)
    BY <1>4 DEF Sums
  <2> QED BY <1>3, <2>1
<1>5. CASE m # 0
  <2>1. m - 1 \in 0..n /\ m \in 1..n /\ ~(m <= m - 1)
    BY <1>3, <1>5
  <2>2. Reached(m - 1)
    BY <1>2, <2>1
  <2>3. PICK g \in [0..m - 1 -> Int] : Sums(s, m - 1, g)
    BY <2>2
  <2> DEFINE f == [k \in 0..m |-> IF k = m THEN g[m - 1] + s[m] ELSE g[k]]
  <2>4. f \in [0..m -> Int]
    <3>1. \A k \in 0..m : k # m => k \in 0..m - 1
      BY <2>1
    <3>2. g[m - 1] \in Int /\ s[m] \in Int
      BY <2>1
    <3> QED BY <3>1, <3>2
  <2>5. Sums(s, m, f)
    <3>1. f[0] = 0
      BY <1>5, <2>1, <2>3 DEF Sums
    <3>2. ASSUME NEW k \in 1..m PROVE f[k] = f[k - 1] + s[k]
      <4>1. k - 1 \in 0..m /\ k - 1 # m /\ k \in 0..m
        BY <2>1
      <4>2. k # m => k \in 1..m - 1
        BY <2>1
      <4> QED BY <2>3, <4>1, <4>2 DEF Sums
    <3> QED BY <3>1, <3>2 DEF Sums
  <2> QED BY <1>3, <2>4, <2>5
<1> QED BY <1>4, <1>5

\* A function with the sums' equation has the sum of all at n.
LEMMA SumIs ==
  ASSUME NEW n \in Nat, NEW s \in [1..n -> Int], Len(s) = n, NEW f, Sums(s, n, f)
  PROVE  Board!SumOf(s) = f[n] /\ f[n] \in Int
<1> DEFINE Upto(g) == g = [k \in 0..Len(s) |-> IF k = 0 THEN 0 ELSE g[k - 1] + s[k]]
           u == CHOOSE g : Upto(g)
<1>1. PICK h \in [0..n -> Int] : Sums(s, n, h)
  BY SumsExist
<1>2. Upto(h)
  BY <1>1 DEF Sums
<1>3. Upto(u)
  BY <1>2
<1>4. Board!SumOf(s) = u[Len(s)]
  BY DEF Board!SumOf
<1> HIDE DEF u
<1>5. Sums(s, n, u)
  <2>1. u[0] = 0
    BY <1>3
  <2>2. \A k \in 1..n : u[k] = u[k - 1] + s[k]
    BY <1>3
  <2> QED BY <2>1, <2>2 DEF Sums
<1>6. ASSUME NEW a, NEW b, Sums(s, n, a), Sums(s, n, b) PROVE a[n] = b[n]
  <2> DEFINE T == {m \in 0..n : a[m] # b[m]}
  <2> SUFFICES ASSUME a[n] # b[n] PROVE FALSE
    OBVIOUS
  <2>1. T \subseteq Nat /\ T # {}
    OBVIOUS
  <2>2. PICK m \in T : \A k \in T : m <= k
    BY ONLY <2>1, HasLeast
  <2>3. m \in 0..n /\ a[m] # b[m]
    OBVIOUS
  <2>4. m # 0
    BY <1>6, <2>3 DEF Sums
  <2>5. m - 1 \in 0..n /\ m \in 1..n /\ ~(m <= m - 1)
    BY <2>3, <2>4
  <2>6. a[m - 1] = b[m - 1]
    BY <2>2, <2>5
  <2> QED BY <1>6, <2>3, <2>5, <2>6 DEF Sums
<1>7. u[n] = h[n] /\ f[n] = h[n] /\ h[n] \in Int
  BY <1>1, <1>5, <1>6
<1> QED BY <1>4, <1>7

-----------------------------------------------------------------------------
(* The weight of a set of the numbers up to n is the sum of what they weigh. *)

Part(w, n, S) == [i \in 1..n |-> IF i \in S THEN w[i] ELSE 0]
Weight(w, n, S) == Board!SumOf(Part(w, n, S))

LEMMA PartIs ==
  ASSUME NEW n \in Nat, NEW w \in [1..n -> Int], NEW S
  PROVE  /\ Part(w, n, S) \in [1..n -> Int] /\ Len(Part(w, n, S)) = n
         /\ Weight(w, n, S) \in Int
         /\ \E f \in [0..n -> Int] : Sums(Part(w, n, S), n, f) /\ Weight(w, n, S) = f[n]
<1>1. PICK s : s = Part(w, n, S)
  OBVIOUS
<1>2. s \in [1..n -> Int]
  BY <1>1 DEF Part
<1>3. s \in Seq(Int)
  BY <1>2, SeqDef
<1>4. Len(s) = n
  BY <1>2, <1>3, InSeq
<1>5. PICK f \in [0..n -> Int] : Sums(s, n, f)
  BY <1>2, SumsExist
<1>6. Board!SumOf(s) = f[n] /\ f[n] \in Int
  BY <1>2, <1>4, <1>5, SumIs
<1> QED BY <1>1, <1>2, <1>4, <1>5, <1>6 DEF Weight

LEMMA NoWeight ==
  ASSUME NEW n \in Nat, NEW w \in [1..n -> Int]
  PROVE  Weight(w, n, {}) = 0
<1>1. PICK s : s = Part(w, n, {})
  OBVIOUS
<1>2. s \in [1..n -> Int] /\ Len(s) = n
  BY <1>1, PartIs
<1>3. \A i \in 1..n : s[i] = 0
  BY <1>1 DEF Part
<1>4. PICK f : f = [k \in 0..n |-> 0]
  OBVIOUS
<1>5. Sums(s, n, f)
  BY <1>3, <1>4 DEF Sums
<1>6. Board!SumOf(s) = f[n]
  BY ONLY n \in Nat, <1>2, <1>5, SumIs
<1> QED BY <1>1, <1>4, <1>6 DEF Weight

LEMMA WeightOfOne ==
  ASSUME NEW n \in Nat, NEW w \in [1..n -> Int], NEW x \in 1..n
  PROVE  Weight(w, n, {x}) = w[x]
<1>1. PICK s : s = Part(w, n, {x})
  OBVIOUS
<1>2. s \in [1..n -> Int] /\ Len(s) = n
  BY <1>1, PartIs
<1>3. \A i \in 1..n : s[i] = IF i = x THEN w[x] ELSE 0
  BY <1>1 DEF Part
<1>4. PICK f : f = [k \in 0..n |-> IF k < x THEN 0 ELSE w[x]]
  OBVIOUS
<1>5. Sums(s, n, f)
  <2>1. f[0] = 0
    BY <1>4
  <2>2. ASSUME NEW k \in 1..n PROVE f[k] = f[k - 1] + s[k]
    <3>1. k \in 0..n /\ k - 1 \in 0..n /\ k \in Int /\ x \in Int /\ w[x] \in Int
      OBVIOUS
    <3>2. f[k] = (IF k < x THEN 0 ELSE w[x]) /\ f[k - 1] = (IF k - 1 < x THEN 0 ELSE w[x])
      BY <1>4, <3>1
    <3> QED BY <1>3, <3>1, <3>2
  <2> QED BY <2>1, <2>2 DEF Sums
<1>6. Board!SumOf(s) = f[n]
  BY ONLY n \in Nat, <1>2, <1>5, SumIs
<1>7. f[n] = w[x]
  BY <1>4
<1> QED BY <1>1, <1>6, <1>7 DEF Weight

\* Two sets that share nothing weigh together what they weigh apart.
LEMMA WeightAdds ==
  ASSUME NEW n \in Nat, NEW w \in [1..n -> Int], NEW S, NEW T, S \cap T = {}
  PROVE  Weight(w, n, S \cup T) = Weight(w, n, S) + Weight(w, n, T)
<1>1. PICK s, t, r : s = Part(w, n, S) /\ t = Part(w, n, T) /\ r = Part(w, n, S \cup T)
  OBVIOUS
<1>2. /\ r \in [1..n -> Int] /\ Len(r) = n
      /\ s \in [1..n -> Int] /\ t \in [1..n -> Int]
  BY <1>1, PartIs
<1>3. \A i \in 1..n : r[i] = s[i] + t[i]
  BY <1>1 DEF Part
<1>4. PICK f \in [0..n -> Int] : Sums(s, n, f) /\ Weight(w, n, S) = f[n]
  BY <1>1, PartIs
<1>5. PICK g \in [0..n -> Int] : Sums(t, n, g) /\ Weight(w, n, T) = g[n]
  BY <1>1, PartIs
<1>6. PICK h : h = [k \in 0..n |-> f[k] + g[k]]
  OBVIOUS
<1>7. Sums(r, n, h)
  <2>1. h[0] = 0
    BY <1>4, <1>5, <1>6 DEF Sums
  <2>2. ASSUME NEW k \in 1..n PROVE h[k] = h[k - 1] + r[k]
    <3>1. k \in 0..n /\ k - 1 \in 0..n
      OBVIOUS
    <3>2. /\ f[k] = f[k - 1] + s[k] /\ g[k] = g[k - 1] + t[k]
          /\ h[k] = f[k] + g[k] /\ h[k - 1] = f[k - 1] + g[k - 1] /\ r[k] = s[k] + t[k]
      BY <1>3, <1>4, <1>5, <1>6, <3>1 DEF Sums
    <3>3. PICK a, b, c, d \in Int : a = f[k - 1] /\ b = g[k - 1] /\ c = s[k] /\ d = t[k]
      BY <1>2, <3>1
    <3>4. h[k] = (a + c) + (b + d) /\ h[k - 1] + r[k] = (a + b) + (c + d)
      BY ONLY <3>2, <3>3
    <3>5. \A x, y, u, v \in Int : (x + y) + (u + v) = (x + u) + (y + v)
      OBVIOUS
    <3>6. (a + c) + (b + d) = (a + b) + (c + d)
      BY <3>5
    <3> QED BY ONLY <3>4, <3>6
  <2> QED BY <2>1, <2>2 DEF Sums
<1>8. Board!SumOf(r) = h[n]
  BY ONLY n \in Nat, <1>2, <1>7, SumIs
<1>9. h[n] = f[n] + g[n]
  BY <1>6
<1> QED BY <1>1, <1>4, <1>5, <1>8, <1>9 DEF Weight

\* G divides U into m sets of which no two share anything.
Divides(G, m, U) ==
  /\ \A k, l \in 1..m : k < l => G[k] \cap G[l] = {}
  /\ \A x : x \in U <=> \E k \in 1..m : x \in G[k]
Weighs(s, G, m, w, n) == \A k \in 1..m : s[k] = Weight(w, n, G[k])

\* The weights of the sets into which a set is divided add up to its own.
LEMMA WeightsAddUp ==
  ASSUME NEW n \in Nat, NEW w \in [1..n -> Int], NEW m \in Nat, NEW G, NEW U,
         Divides(G, m, U), NEW s \in [1..m -> Int], Weighs(s, G, m, w, n)
  PROVE  Board!SumOf(s) = Weight(w, n, U)
<1> DEFINE Upto(k) == UNION {G[j] : j \in 1..k}
<1>1. s \in [1..m -> Int]
  OBVIOUS
<1>2. Len(s) = m
  <2>1. s \in Seq(Int)
    BY <1>1, SeqDef
  <2> QED BY <1>1, <2>1, InSeq
<1>3. PICK f : f = [k \in 0..m |-> Weight(w, n, Upto(k))]
  OBVIOUS
<1>4. Sums(s, m, f)
  <2>1. f[0] = 0
    <3>1. Upto(0) = {}
      OBVIOUS
    <3>2. f[0] = Weight(w, n, Upto(0))
      BY <1>3
    <3> QED BY <3>1, <3>2, NoWeight
  <2>2. ASSUME NEW k \in 1..m PROVE f[k] = f[k - 1] + s[k]
    <3>1. k \in 0..m /\ k - 1 \in 0..m
      OBVIOUS
    <3>2. 1..k = (1..k - 1) \cup {k} /\ \A j \in 1..k - 1 : j \in 1..m /\ j < k
      OBVIOUS
    <3>3. PICK A, B : A = Upto(k - 1) /\ B = G[k]
      OBVIOUS
    <3>4. Upto(k) = A \cup B
      BY <3>2, <3>3
    <3>5. A \cap B = {}
      BY <3>2, <3>3 DEF Divides
    <3>6. Weight(w, n, A \cup B) = Weight(w, n, A) + Weight(w, n, B)
      BY ONLY n \in Nat, w \in [1..n -> Int], <3>5, WeightAdds
    <3>7. f[k] = Weight(w, n, A \cup B) /\ f[k - 1] = Weight(w, n, A)
      BY <1>3, <3>1, <3>3, <3>4
    <3>8. s[k] = Weight(w, n, B)
      BY <3>3 DEF Weighs
    <3> QED BY ONLY <3>6, <3>7, <3>8
  <2> QED BY <2>1, <2>2 DEF Sums
<1>5. Board!SumOf(s) = f[m]
  BY ONLY m \in Nat, <1>1, <1>2, <1>4, SumIs
<1>6. f[m] = Weight(w, n, U)
  <2>1. m \in 0..m
    OBVIOUS
  <2>2. U = Upto(m)
    BY DEF Divides
  <2> QED BY <1>3, <2>1, <2>2
<1> QED BY ONLY <1>5, <1>6

\* Numbers that are listed once weigh what the list does.
LEMMA WeightListed ==
  ASSUME NEW n \in Nat, NEW w \in [1..n -> Int], NEW g, g \in Seq(1..n), IsInjective(g),
         NEW s, s = [k \in 1..Len(g) |-> w[g[k]]]
  PROVE  Board!SumOf(s) = Weight(w, n, ToSet(g))
<1>1. /\ Len(g) \in Nat /\ DOMAIN g = 1..Len(g) /\ \A k \in 1..Len(g) : g[k] \in 1..n
      /\ ToSet(g) = {g[k] : k \in 1..Len(g)}
  BY InSeq
<1>2. PICK m \in Nat : m = Len(g)
  BY <1>1
<1>3. PICK G : G = [k \in 1..m |-> {g[k]}]
  OBVIOUS
<1>4. \A k, l \in 1..m : k < l => G[k] \cap G[l] = {}
  <2> SUFFICES ASSUME NEW k \in 1..m, NEW l \in 1..m, k < l PROVE g[k] # g[l]
    BY <1>3
  <2>1. k \in DOMAIN g /\ l \in DOMAIN g /\ k # l
    BY <1>1, <1>2
  <2> QED BY <2>1 DEF IsInjective
<1>5. \A k \in 1..m : Weight(w, n, G[k]) = w[g[k]]
  BY <1>1, <1>2, <1>3, WeightOfOne
<1>6. s \in [1..m -> Int] /\ Weighs(s, G, m, w, n)
  BY <1>1, <1>2, <1>5 DEF Weighs
<1>7. Divides(G, m, ToSet(g))
  BY <1>1, <1>2, <1>3, <1>4 DEF Divides
<1> QED BY ONLY n \in Nat, w \in [1..n -> Int], m \in Nat, <1>6, <1>7, WeightsAddUp

\* If each weighs one, a set weighs as many as it has, and a list its length.
One(n) == [i \in 1..n |-> 1]

LEMMA LengthWeighs ==
  ASSUME NEW n \in Nat, NEW g \in Seq(1..n), IsInjective(g)
  PROVE  Len(g) = Weight(One(n), n, ToSet(g))
<1>1. Len(g) \in Nat /\ \A k \in 1..Len(g) : g[k] \in 1..n
  BY InSeq
<1>2. PICK m \in Nat : m = Len(g)
  BY <1>1
<1>3. PICK s, f : s = [k \in 1..m |-> 1] /\ f = [k \in 0..m |-> k]
  OBVIOUS
<1>4. s \in [1..m -> Int]
  BY <1>3
<1>5. Len(s) = m
  <2>1. s \in Seq(Int)
    BY <1>4, SeqDef
  <2> QED BY <1>4, <2>1, InSeq
<1>6. Sums(s, m, f)
  BY <1>3 DEF Sums
<1>7. Board!SumOf(s) = f[m]
  BY ONLY m \in Nat, <1>4, <1>5, <1>6, SumIs
<1>8. One(n) \in [1..n -> Int] /\ s = [k \in 1..Len(g) |-> One(n)[g[k]]]
  BY <1>1, <1>2, <1>3 DEF One
<1>9. Board!SumOf(s) = Weight(One(n), n, ToSet(g))
  BY <1>8, WeightListed
<1> QED BY <1>2, <1>3, <1>7, <1>9

LEMMA SetWeighs ==
  ASSUME NEW n \in Nat, NEW S \in SUBSET (1..n)
  PROVE  Cardinality(S) = Weight(One(n), n, S)
<1>1. PICK s : s = Part(One(n), n, S)
  OBVIOUS
<1>2. s \in [1..n -> Int] /\ Len(s) = n
  <2>1. One(n) \in [1..n -> Int]
    BY DEF One
  <2> QED BY <1>1, <2>1, PartIs
<1>3. \A i \in 1..n : s[i] = IF i \in S THEN 1 ELSE 0
  BY <1>1 DEF Part, One
<1>4. PICK f : f = [k \in 0..n |-> Cardinality(S \cap (1..k))]
  OBVIOUS
<1>5. Sums(s, n, f)
  <2>1. f[0] = 0
    <3>1. S \cap (1..0) = {}
      OBVIOUS
    <3>2. f[0] = Cardinality(S \cap (1..0))
      BY <1>4
    <3> QED BY <3>1, <3>2, FS_EmptySet
  <2>2. ASSUME NEW k \in 1..n PROVE f[k] = f[k - 1] + s[k]
    <3>1. k \in 0..n /\ k - 1 \in 0..n
      OBVIOUS
    <3>2. PICK a, b : a = S \cap (1..k - 1) /\ b = S \cap (1..k)
      OBVIOUS
    <3>3. IsFiniteSet(a) /\ Cardinality(a) \in Nat
      <4>1. IsFiniteSet(1..n) /\ a \subseteq 1..n
        BY <3>1, <3>2, UpTo
      <4> QED BY ONLY <4>1, FS_Subset, FS_CardinalityType
    <3>4. f[k] = Cardinality(b) /\ f[k - 1] = Cardinality(a)
      BY <1>4, <3>1, <3>2
    <3>5. 1..k = (1..k - 1) \cup {k} /\ k \notin a
      BY <3>2
    <3>6. CASE k \in S
      <4>1. b = a \cup {k} /\ k \notin a
        BY <3>2, <3>5, <3>6
      <4>2. Cardinality(b) = Cardinality(a) + 1
        BY ONLY <3>3, <4>1, FS_AddElement
      <4> QED BY <1>3, <3>4, <3>6, <4>2
    <3>7. CASE k \notin S
      <4>1. b = a
        BY <3>2, <3>5, <3>7
      <4> QED BY <1>3, <3>3, <3>4, <3>7, <4>1
    <3> QED BY <3>6, <3>7
  <2> QED BY <2>1, <2>2 DEF Sums
<1>6. Board!SumOf(s) = f[n]
  BY ONLY n \in Nat, <1>2, <1>5, SumIs
<1>7. S \cap (1..n) = S
  OBVIOUS
<1> QED BY <1>1, <1>4, <1>6, <1>7 DEF Weight

-----------------------------------------------------------------------------
(* The pilots page                                                         *)

\* The rows of a key, and the newest rows of their keys.
Flown(key, n) == {id \in 1..n : Board!KeyOf(id, n) = key}
NewestOnes(n) ==
  {id \in 1..n : \A i \in 1..n : i > id => Board!KeyOf(i, n) # Board!KeyOf(id, n)}

\* The pilots listed are those of the newest rows f, in their order.
Listing(n, cap, f, list) ==
  /\ Len(f) \in Nat /\ DOMAIN list = 1..Len(f)
  /\ \A k \in 1..Len(f) : f[k] \in NewestOnes(n) /\ list[k].passes
       = Board!Limited(Board!NewestFirst(Flown(Board!KeyOf(f[k], n), n), n), cap)
  /\ \A m \in NewestOnes(n) : \E k \in 1..Len(f) : f[k] = m
  /\ \A k, l \in 1..Len(f) : k < l => f[k] > f[l]

LEMMA PilotsAre ==
  ASSUME NEW n \in Nat, NEW cap \in Nat, NEW f, f = Board!NewestFirst(NewestOnes(n), n),
         NEW list, list = Board!ListByPilot(cap, n)
  PROVE  Listing(n, cap, f, list)
<1>1. NewestOnes(n) \in SUBSET (1..n)
  BY DEF NewestOnes
<1>2. /\ f \in Seq(1..n) /\ ToSet(f) = NewestOnes(n)
      /\ \A k, l \in 1..Len(f) : k < l => f[k] > f[l]
  BY <1>1, NewestFirstIs
<1>3. Len(f) \in Nat /\ ToSet(f) = {f[k] : k \in 1..Len(f)}
  BY <1>2, InSeq
<1>4. list = [k \in 1..Len(f) |->
                Board!Pilot(Board!NewestFirst(Flown(Board!KeyOf(f[k], n), n), n), cap)]
  BY DEF Board!ListByPilot, Flown, NewestOnes
<1>5. \A rows : Board!Pilot(rows, cap).passes = Board!Limited(rows, cap)
  BY DEF Board!Pilot
<1>6. \A k \in 1..Len(f) : f[k] \in NewestOnes(n) /\ list[k].passes
        = Board!Limited(Board!NewestFirst(Flown(Board!KeyOf(f[k], n), n), n), cap)
  <2> TAKE k \in 1..Len(f)
  <2>1. list[k] = Board!Pilot(Board!NewestFirst(Flown(Board!KeyOf(f[k], n), n), n), cap)
    BY ONLY <1>4, k \in 1..Len(f)
  <2>2. f[k] \in NewestOnes(n)
    BY ONLY <1>2, <1>3, k \in 1..Len(f)
  <2> QED BY ONLY <1>5, <2>1, <2>2
<1>7. DOMAIN list = 1..Len(f)
  BY ONLY <1>4
<1>8. \A m \in NewestOnes(n) : \E k \in 1..Len(f) : f[k] = m
  BY ONLY <1>2, <1>3
<1> QED BY ONLY <1>2, <1>3, <1>6, <1>7, <1>8 DEF Listing

\* The passes of one pilot.
LEMMA PilotIs ==
  ASSUME NEW n \in Nat, NEW cap \in Nat \ {0}, NEW id \in NewestOnes(n),
         NEW p, p = Board!Limited(Board!NewestFirst(Flown(Board!KeyOf(id, n), n), n), cap)
  PROVE  /\ p \in Seq(1..n) /\ p[1] = id
         /\ \A i, j \in 1..Len(p) : i < j => p[i] > p[j]
         /\ ToSet(p) \subseteq Flown(Board!KeyOf(id, n), n)
         /\ n <= cap => ToSet(p) = Flown(Board!KeyOf(id, n), n)
<1>1. PICK g : g = Flown(Board!KeyOf(id, n), n)
  OBVIOUS
<1>2. /\ g \in SUBSET (1..n) /\ id \in 1..n /\ id \in g
      /\ \A i \in g : ~(i > id)
  BY <1>1 DEF Flown, NewestOnes
<1>3. PICK r : r = Board!NewestFirst(g, n)
  OBVIOUS
<1>4. /\ r \in Seq(1..n) /\ Len(r) \in 0..n /\ ToSet(r) = g
      /\ \A i, j \in 1..Len(r) : i < j => r[i] > r[j]
  BY <1>2, <1>3, NewestFirstIs
<1>5. ToSet(r) = {r[i] : i \in 1..Len(r)}
  BY <1>4, InSeq
<1>6. 1 \in 1..Len(r) /\ r[1] = id
  <2>1. PICK i \in 1..Len(r) : r[i] = id
    BY <1>2, <1>4, <1>5
  <2>2. 1 \in 1..Len(r) /\ (i = 1 \/ 1 < i)
    BY <1>4
  <2>3. r[1] \in g
    BY <1>4, <1>5, <2>2
  <2>4. ~(1 < i)
    BY <1>2, <1>4, <2>1, <2>2, <2>3
  <2> QED BY <2>1, <2>2, <2>4
<1>7. p = Board!Limited(r, cap)
  BY <1>1, <1>3
<1>8. /\ p \in Seq(1..n) /\ Len(p) = (IF Len(r) < cap THEN Len(r) ELSE cap) /\ Len(p) <= Len(r)
      /\ \A i \in 1..Len(p) : p[i] = r[i]
      /\ ToSet(p) \subseteq ToSet(r) /\ (Len(r) <= cap => ToSet(p) = ToSet(r))
  BY <1>4, <1>7, LimitedIs
<1>9. Len(p) \in Nat /\ 1 \in 1..Len(p)
  <2>1. PICK l \in Nat : l = Len(r) /\ 1 <= l
    BY <1>4, <1>6
  <2>2. Len(p) = IF l < cap THEN l ELSE cap
    BY <1>8, <2>1
  <2> QED BY ONLY cap \in Nat \ {0}, <2>1, <2>2
<1>10. \A i, j \in 1..Len(p) : i < j => p[i] > p[j]
  <2> TAKE i, j \in 1..Len(p)
  <2>1. i \in 1..Len(r) /\ j \in 1..Len(r)
    BY <1>4, <1>8, <1>9
  <2> QED BY <1>4, <1>8, <2>1
<1>11. n <= cap => Len(r) <= cap
  BY <1>4
<1> QED BY <1>1, <1>4, <1>6, <1>8, <1>9, <1>10, <1>11

\* Every row has a newest one of its key.
LEMMA GroupHasNewest ==
  ASSUME NEW n \in Nat, NEW id \in 1..n
  PROVE  \E m \in NewestOnes(n) : Board!KeyOf(m, n) = Board!KeyOf(id, n)
<1>1. PICK g : g = Flown(Board!KeyOf(id, n), n)
  OBVIOUS
<1>2. /\ g \in SUBSET (1..n) /\ id \in g
      /\ \A i \in 1..n : i \in g <=> Board!KeyOf(i, n) = Board!KeyOf(id, n)
  BY <1>1 DEF Flown
<1>3. PICK r : r = Board!NewestFirst(g, n)
  OBVIOUS
<1>4. /\ r \in Seq(1..n) /\ Len(r) \in 0..n /\ ToSet(r) = g
      /\ \A i, j \in 1..Len(r) : i < j => r[i] > r[j]
  BY <1>2, <1>3, NewestFirstIs
<1>5. ToSet(r) = {r[i] : i \in 1..Len(r)}
  BY <1>4, InSeq
<1>6. 1 \in 1..Len(r) /\ r[1] \in g
  BY <1>2, <1>4, <1>5
<1>7. \A i \in g : ~(i > r[1])
  <2> TAKE i \in g
  <2>1. PICK k \in 1..Len(r) : r[k] = i
    BY <1>4, <1>5
  <2>2. k = 1 \/ 1 < k
    BY <1>4
  <2>0. i \in 1..n /\ r[1] \in 1..n
    BY ONLY <1>2, <1>6, i \in g
  <2>3. i \in Nat /\ r[1] \in Nat
    BY ONLY <2>0
  <2>4. i = r[1] \/ r[1] > i
    BY <1>4, <1>6, <2>1, <2>2
  <2> QED BY <2>3, <2>4
<1>8. r[1] \in NewestOnes(n)
  BY <1>2, <1>6, <1>7 DEF NewestOnes
<1> QED BY <1>2, <1>6, <1>8

\* The UCIDs that are known of a name are finitely many.
LEMMA KnownOnce ==
  ASSUME NEW n \in Nat, NEW name
  PROVE  Board!Cardinality(Board!UcidsOf(name, n)) = 1 <=> \E u : Board!UcidsOf(name, n) = {u}
<1>1. PICK S : S = {i \in 1..n : Board!NameOf(i) = name}
  OBVIOUS
<1>2. IsFiniteSet(S)
  <2>1. IsFiniteSet(1..n) /\ S \subseteq 1..n
    BY <1>1, UpTo
  <2> QED BY ONLY <2>1, FS_Subset
<1>3. PICK U : U = {Board!UcidOf(i) : i \in S}
  OBVIOUS
<1>4. PICK g : g = [i \in S |-> Board!UcidOf(i)]
  OBVIOUS
<1>5. g \in Surjection(S, U)
  <2>1. g \in [S -> U]
    BY <1>3, <1>4
  <2>2. \A u \in U : \E i \in S : g[i] = u
    BY <1>3, <1>4
  <2> QED BY <2>1, <2>2 DEF Surjection
<1>6. IsFiniteSet(U)
  BY ONLY <1>2, <1>5, FS_Surjection
<1>7. PICK K : K = Board!UcidsOf(name, n)
  OBVIOUS
<1>8. K = U \ {NoUcid}
  BY <1>1, <1>3, <1>7 DEF Board!UcidsOf
<1>9. IsFiniteSet(K)
  BY <1>6, <1>8, FS_Subset
<1>10. Cardinality(K) = 1 <=> \E u : K = {u}
  BY ONLY <1>9, FS_Singleton
<1>11. Board!Cardinality(K) = Cardinality(K)
  BY BoardHelpers
<1> QED BY <1>7, <1>10, <1>11

\* Whose a row is.
LEMMA KeysOf ==
  ASSUME NEW n \in Nat, NEW i \in 1..n, NEW j \in 1..n, Board!UcidOf(j) # NoUcid
  PROVE  /\ Board!UcidOf(i) # NoUcid =>
              (Board!KeyOf(i, n) = Board!KeyOf(j, n) <=> Board!UcidOf(i) = Board!UcidOf(j))
         /\ Board!UcidOf(i) = NoUcid =>
              (Board!KeyOf(i, n) = Board!KeyOf(j, n)
                 <=> Board!UcidsOf(Board!NameOf(i), n) = {Board!UcidOf(j)})
<1>1. PICK u : u = Board!UcidOf(j)
  OBVIOUS
<1>2. Board!KeyOf(j, n) = <<"ucid", u>>
  BY <1>1 DEF Board!KeyOf
<1>3. ASSUME Board!UcidOf(i) # NoUcid
      PROVE  Board!KeyOf(i, n) = Board!KeyOf(j, n) <=> Board!UcidOf(i) = Board!UcidOf(j)
  <2>1. Board!KeyOf(i, n) = <<"ucid", Board!UcidOf(i)>>
    BY <1>3 DEF Board!KeyOf
  <2> QED BY <1>1, <1>2, <2>1
<1>4. ASSUME Board!UcidOf(i) = NoUcid
      PROVE  Board!KeyOf(i, n) = Board!KeyOf(j, n)
               <=> Board!UcidsOf(Board!NameOf(i), n) = {Board!UcidOf(j)}
  <2>1. PICK K, name : K = Board!UcidsOf(name, n) /\ name = Board!NameOf(i)
    OBVIOUS
  <2>2. Board!Cardinality(K) = 1 <=> \E x : K = {x}
    BY <2>1, KnownOnce
  <2>3. Board!KeyOf(i, n) = IF Board!Cardinality(K) = 1 THEN <<"ucid", CHOOSE x \in K : TRUE>>
                            ELSE <<"name", name>>
    BY <1>4, <2>1 DEF Board!KeyOf
  <2>4. CASE Board!Cardinality(K) = 1
    <3>1. PICK x : K = {x}
      BY <2>2, <2>4
    <3>2. (CHOOSE y \in K : TRUE) = x
      BY <3>1
    <3>3. Board!KeyOf(i, n) = <<"ucid", x>>
      BY <2>3, <2>4, <3>2
    <3>4. Board!KeyOf(i, n) = Board!KeyOf(j, n) <=> x = u
      BY <1>2, <3>3
    <3> QED BY <1>1, <2>1, <3>1, <3>4
  <2>5. CASE Board!Cardinality(K) # 1
    <3>1. Board!KeyOf(i, n) = <<"name", name>>
      BY <2>3, <2>5
    <3>2. Board!KeyOf(i, n) # Board!KeyOf(j, n)
      BY <1>2, <3>1
    <3> QED BY <2>1, <2>2, <2>5, <3>2
  <2> QED BY <2>4, <2>5
<1> QED BY <1>3, <1>4

LEMMA BoardPilotsRight == BoardInv => Board!PassesAreTheirPilots
<1> SUFFICES ASSUME BoardInv, page = "pilots", shown.kind = "ready"
             PROVE  Board!PassesAreTheirPilots
  BY DEF Board!PassesAreTheirPilots
<1> DEFINE n == shown.read
           cap == shown.cap
           list == Board!BoardPilots
<1>1. n = shown.read /\ cap = shown.cap /\ list = Board!ListByPilot(cap, n)
  BY DEF Board!BoardPilots
<1> HIDE DEF n, cap, list
<1>2. n \in Nat /\ n <= MaxPasses /\ cap \in Nat /\ cap \in {Board!All, PerPilot} /\ Board!All = MaxPasses
  BY <1>1, BoardBounds DEF BoardInv, Says, Board!Answers, Board!All
<1>3. PICK f : f = Board!NewestFirst(NewestOnes(n), n)
  OBVIOUS
<1>4. /\ Len(f) \in Nat /\ DOMAIN list = 1..Len(f)
      /\ \A k \in 1..Len(f) : f[k] \in NewestOnes(n) /\ list[k].passes
           = Board!Limited(Board!NewestFirst(Flown(Board!KeyOf(f[k], n), n), n), cap)
      /\ \A m \in NewestOnes(n) : \E k \in 1..Len(f) : f[k] = m
      /\ \A k, l \in 1..Len(f) : k < l => f[k] > f[l]
  <2>1. n \in Nat /\ cap \in Nat
    BY <1>2
  <2>2. Listing(n, cap, f, list)
    BY ONLY <1>1, <1>3, <2>1, PilotsAre
  <2> QED BY ONLY <2>2 DEF Listing
<1>5. ASSUME NEW k \in DOMAIN list
      PROVE  /\ list[k].passes \in Seq(1..n) /\ list[k].passes[1] = f[k]
             /\ \A i, j \in 1..Len(list[k].passes) : i < j => list[k].passes[i] > list[k].passes[j]
             /\ ToSet(list[k].passes) \subseteq Flown(Board!KeyOf(f[k], n), n)
             /\ n <= cap => ToSet(list[k].passes) = Flown(Board!KeyOf(f[k], n), n)
  <2>1. PICK id, p : id = f[k] /\ p = list[k].passes
    OBVIOUS
  <2>2. id \in NewestOnes(n) /\ p = Board!Limited(Board!NewestFirst(Flown(Board!KeyOf(id, n), n), n), cap)
    BY <1>4, <1>5, <2>1
  <2>3. id \in 1..n
    BY <2>2 DEF NewestOnes
  <2>4. cap \in Nat \ {0}
    BY <1>2, <2>3, BoardBounds
  <2>5. /\ p \in Seq(1..n) /\ p[1] = id
        /\ \A i, j \in 1..Len(p) : i < j => p[i] > p[j]
        /\ ToSet(p) \subseteq Flown(Board!KeyOf(id, n), n)
        /\ n <= cap => ToSet(p) = Flown(Board!KeyOf(id, n), n)
    BY ONLY <1>2, <2>2, <2>4, PilotIs
  <2> QED BY ONLY <2>1, <2>5
<1>6. ASSUME NEW k \in DOMAIN list, NEW l \in DOMAIN list, k < l
      PROVE  /\ ToSet(list[k].passes) \cap ToSet(list[l].passes) = {}
             /\ list[k].passes[1] > list[l].passes[1]
  <2>1. f[k] > f[l] /\ f[k] \in NewestOnes(n) /\ f[l] \in NewestOnes(n)
    BY <1>4, <1>6
  <2>2. Board!KeyOf(f[k], n) # Board!KeyOf(f[l], n)
    BY <2>1 DEF NewestOnes
  <2>3. Flown(Board!KeyOf(f[k], n), n) \cap Flown(Board!KeyOf(f[l], n), n) = {}
    BY <2>2 DEF Flown
  <2>4. list[k].passes[1] = f[k] /\ list[l].passes[1] = f[l]
    BY <1>5
  <2>5. /\ ToSet(list[k].passes) \subseteq Flown(Board!KeyOf(f[k], n), n)
        /\ ToSet(list[l].passes) \subseteq Flown(Board!KeyOf(f[l], n), n)
    BY <1>5
  <2> QED BY ONLY <2>1, <2>3, <2>4, <2>5
<1>7. ASSUME cap = Board!All
      PROVE  \A i \in 1..n : \E k \in DOMAIN list :
               i \in ToSet(list[k].passes) /\ Board!KeyOf(f[k], n) = Board!KeyOf(i, n)
  <2> TAKE i \in 1..n
  <2>1. PICK m \in NewestOnes(n) : Board!KeyOf(m, n) = Board!KeyOf(i, n)
    BY <1>2, GroupHasNewest
  <2>2. PICK k \in 1..Len(f) : f[k] = m
    BY <1>4
  <2>3. k \in DOMAIN list /\ n <= cap
    BY <1>2, <1>4, <1>7
  <2>4. ToSet(list[k].passes) = Flown(Board!KeyOf(f[k], n), n)
    BY <1>5, <2>3
  <2>5. i \in Flown(Board!KeyOf(f[k], n), n)
    BY <2>1, <2>2 DEF Flown
  <2> QED BY <2>1, <2>2, <2>3, <2>4, <2>5
<1>8. ASSUME cap = Board!All
      PROVE  UNION {ToSet(list[k].passes) : k \in DOMAIN list} = 1..n
  <2>1. \A k \in DOMAIN list : ToSet(list[k].passes) \subseteq 1..n
    BY <1>5, InSeq
  <2>2. 1..n \subseteq UNION {ToSet(list[k].passes) : k \in DOMAIN list}
    BY ONLY <1>7, <1>8
  <2> QED BY ONLY <2>1, <2>2
<1>9. ASSUME cap = Board!All, NEW i \in 1..n, NEW j \in 1..n
      PROVE  (\E k \in DOMAIN list : {i, j} \subseteq ToSet(list[k].passes))
               <=> Board!KeyOf(i, n) = Board!KeyOf(j, n)
  <2>1. ASSUME NEW k \in DOMAIN list, {i, j} \subseteq ToSet(list[k].passes)
        PROVE  Board!KeyOf(i, n) = Board!KeyOf(j, n)
    <3>1. ToSet(list[k].passes) \subseteq Flown(Board!KeyOf(f[k], n), n)
      BY <1>5
    <3> QED BY <2>1, <3>1 DEF Flown
  <2>2. ASSUME Board!KeyOf(i, n) = Board!KeyOf(j, n)
        PROVE  \E k \in DOMAIN list : {i, j} \subseteq ToSet(list[k].passes)
    <3>1. PICK k \in DOMAIN list :
            i \in ToSet(list[k].passes) /\ Board!KeyOf(f[k], n) = Board!KeyOf(i, n)
      BY ONLY <1>7, <1>9
    <3>2. ToSet(list[k].passes) = Flown(Board!KeyOf(f[k], n), n)
      <4>1. n <= cap
        BY <1>2, <1>9
      <4> QED BY <1>5, <4>1
    <3>3. j \in Flown(Board!KeyOf(f[k], n), n)
      BY <2>2, <3>1 DEF Flown
    <3> QED BY <3>1, <3>2, <3>3
  <2> QED BY ONLY <2>1, <2>2
<1>10. ASSUME cap = Board!All, NEW i \in 1..n, NEW j \in 1..n
       PROVE  LET shares == \E k \in DOMAIN list : {i, j} \subseteq ToSet(list[k].passes)
              IN  /\ Board!UcidOf(i) # NoUcid /\ Board!UcidOf(j) # NoUcid =>
                       (shares <=> Board!UcidOf(i) = Board!UcidOf(j))
                  /\ Board!UcidOf(i) = NoUcid /\ Board!UcidOf(j) # NoUcid =>
                       (shares <=> Board!UcidsOf(Board!NameOf(i), n) = {Board!UcidOf(j)})
  <2>1. (\E k \in DOMAIN list : {i, j} \subseteq ToSet(list[k].passes))
          <=> Board!KeyOf(i, n) = Board!KeyOf(j, n)
    BY <1>9, <1>10
  <2>2. Board!UcidOf(j) # NoUcid =>
          /\ Board!UcidOf(i) # NoUcid =>
               (Board!KeyOf(i, n) = Board!KeyOf(j, n) <=> Board!UcidOf(i) = Board!UcidOf(j))
          /\ Board!UcidOf(i) = NoUcid =>
               (Board!KeyOf(i, n) = Board!KeyOf(j, n)
                  <=> Board!UcidsOf(Board!NameOf(i), n) = {Board!UcidOf(j)})
    BY <1>2, KeysOf
  <2> QED BY ONLY <2>1, <2>2
<1>12. \A s : Board!ToSet(s) = ToSet(s)
  BY BoardHelpers
<1>13. \A k \in DOMAIN list : \A i, j \in 1..Len(list[k].passes) :
         i < j => list[k].passes[i] > list[k].passes[j]
  BY <1>5
<1>14. \A k, l \in DOMAIN list : k < l =>
         /\ Board!ToSet(list[k].passes) \cap Board!ToSet(list[l].passes) = {}
         /\ list[k].passes[1] > list[l].passes[1]
  BY <1>6, <1>12
<1>15. cap = Board!All =>
         /\ UNION {Board!ToSet(list[k].passes) : k \in DOMAIN list} = 1..n
         /\ \A i, j \in 1..n :
              LET shares == \E k \in DOMAIN list : {i, j} \subseteq Board!ToSet(list[k].passes)
              IN  /\ Board!UcidOf(i) # NoUcid /\ Board!UcidOf(j) # NoUcid =>
                       (shares <=> Board!UcidOf(i) = Board!UcidOf(j))
                  /\ Board!UcidOf(i) = NoUcid /\ Board!UcidOf(j) # NoUcid =>
                       (shares <=> Board!UcidsOf(Board!NameOf(i), n) = {Board!UcidOf(j)})
  BY <1>8, <1>10, <1>12
<1>16. \A name : Board!UcidsOf(name, n)
          = {Board!UcidOf(i) : i \in {j \in 1..n : Board!NameOf(j) = name}} \ {NoUcid}
  BY DEF Board!UcidsOf
<1>17. LET Rows(k) == Board!ToSet(list[k].passes)
           Shares(i, j) == \E k \in DOMAIN list : {i, j} \subseteq Rows(k)
           Known(name) ==
             {Board!UcidOf(i) : i \in {j \in 1..n : Board!NameOf(j) = name}} \ {NoUcid}
       IN  /\ \A k, l \in DOMAIN list : k < l =>
                Rows(k) \cap Rows(l) = {} /\ list[k].passes[1] > list[l].passes[1]
           /\ \A k \in DOMAIN list : \A i, j \in 1..Len(list[k].passes) :
                i < j => list[k].passes[i] > list[k].passes[j]
           /\ cap = Board!All =>
                /\ UNION {Rows(k) : k \in DOMAIN list} = 1..n
                /\ \A i, j \in 1..n :
                     /\ Board!UcidOf(i) # NoUcid /\ Board!UcidOf(j) # NoUcid =>
                          (Shares(i, j) <=> Board!UcidOf(i) = Board!UcidOf(j))
                     /\ Board!UcidOf(i) = NoUcid /\ Board!UcidOf(j) # NoUcid =>
                          (Shares(i, j) <=> Known(Board!NameOf(i)) = {Board!UcidOf(j)})
  <2>1. ASSUME cap = Board!All, NEW i \in 1..n, NEW j \in 1..n
        PROVE  LET shares == \E k \in DOMAIN list : {i, j} \subseteq Board!ToSet(list[k].passes)
                   known == {Board!UcidOf(x) : x \in {y \in 1..n : Board!NameOf(y) = Board!NameOf(i)}}
                              \ {NoUcid}
               IN  /\ Board!UcidOf(i) # NoUcid /\ Board!UcidOf(j) # NoUcid =>
                        (shares <=> Board!UcidOf(i) = Board!UcidOf(j))
                   /\ Board!UcidOf(i) = NoUcid /\ Board!UcidOf(j) # NoUcid =>
                        (shares <=> known = {Board!UcidOf(j)})
    BY ONLY <1>15, <1>16, <2>1
  <2> QED BY ONLY <1>13, <1>14, <1>15, <2>1
<1> QED BY ONLY <1>17 DEF n, cap, list, Board!PassesAreTheirPilots, Board!IsSorted

-----------------------------------------------------------------------------
(* The statistics of the pilots page                                       *)

\* What the passes are worth that are graded.
Points(n) == [i \in 1..n |-> IF Board!PointsOf(i) # NoPoints THEN Board!PointsOf(i) ELSE 0]
GradedOf(n) == {i \in 1..n : Board!PointsOf(i) # NoPoints}

LEMMA PointsAre ==
  ASSUME BoardInv, NEW n \in Nat, n <= Len(passes)
  PROVE  Points(n) \in [1..n -> Int]
<1>1. passes \in Seq(PassKinds) /\ \A kind \in PassKinds : kind.points # NoPoints => kind.points \in Int
  BY PartsAssumption DEF BoardInv, Board!BoardAssumption
<1>2. \A i \in 1..n : passes[i] \in PassKinds
  <2>1. PICK l \in Nat : l = Len(passes) /\ \A i \in 1..l : passes[i] \in PassKinds
    BY <1>1, InSeq
  <2> QED BY <2>1
<1> QED BY <1>1, <1>2 DEF Points, Board!PointsOf

\* The statistics of a pilot are of all the rows of the key.
LEMMA PilotCounts ==
  ASSUME NEW n \in Nat, Points(n) \in [1..n -> Int], NEW key, NEW cap, NEW p,
         p = Board!Pilot(Board!NewestFirst(Flown(key, n), n), cap)
  PROVE  /\ p.total = Weight(One(n), n, Flown(key, n))
         /\ p.graded = Weight(One(n), n, Flown(key, n) \cap GradedOf(n))
         /\ p.points = Weight(Points(n), n, Flown(key, n) \cap GradedOf(n))
<1>1. PICK rows, g : rows = Board!NewestFirst(Flown(key, n), n) /\ g = Flown(key, n)
  OBVIOUS
<1>2. /\ g \in SUBSET (1..n) /\ rows \in Seq(1..n) /\ Len(rows) \in Nat /\ ToSet(rows) = g
      /\ \A i, j \in 1..Len(rows) : i < j => rows[i] > rows[j]
  <2>1. g \in SUBSET (1..n)
    BY <1>1 DEF Flown
  <2>2. rows = Board!NewestFirst(g, n)
    BY <1>1
  <2> QED BY <2>1, <2>2, NewestFirstIs, InSeq
<1>3. IsInjective(rows)
  <2>1. DOMAIN rows = 1..Len(rows) /\ \A i \in 1..Len(rows) : rows[i] \in 1..n
    BY <1>2, InSeq
  <2> SUFFICES ASSUME NEW i \in 1..Len(rows), NEW j \in 1..Len(rows), i # j PROVE rows[i] # rows[j]
    BY <2>1 DEF IsInjective
  <2>2. i < j \/ j < i
    BY <1>2
  <2>3. PICK x, y \in Int : x = rows[i] /\ y = rows[j]
    BY <2>1
  <2>4. x > y \/ y > x
    BY ONLY <1>2, <2>2, <2>3, i \in 1..Len(rows), j \in 1..Len(rows)
  <2>5. x # y
    BY ONLY <2>3, <2>4
  <2> QED BY ONLY <2>3, <2>5
<1>4. PICK r : r = Board!Graded(rows)
  OBVIOUS
<1>5. r \in Seq(1..n) /\ ToSet(r) = g \cap GradedOf(n) /\ IsInjective(r)
  <2>1. PICK S : S = {id \in ToSet(rows) : Board!PointsOf(id) # NoPoints}
    OBVIOUS
  <2>2. Board!Graded(rows) = Filtered(rows, S)
    BY <2>1, BoardHelpers DEF Board!Graded
  <2>3. g \cap S = g \cap GradedOf(n)
    BY <1>2, <2>1 DEF GradedOf
  <2>4. Filtered(rows, S) \in Seq(1..n) /\ ToSet(Filtered(rows, S)) = ToSet(rows) \cap S
        /\ IsInjective(Filtered(rows, S))
    BY ONLY <1>2, <1>3, FilterKeeps
  <2> QED BY ONLY <1>2, <1>4, <2>2, <2>3, <2>4
<1>6. PICK s : s = [i \in 1..Len(r) |-> Board!PointsOf(r[i])]
  OBVIOUS
<1>7. p.total = Len(rows) /\ p.graded = Len(r) /\ p.points = Board!SumOf(s)
  <2>1. p = Board!Pilot(rows, cap)
    BY <1>1
  <2> QED BY ONLY <1>4, <1>6, <2>1 DEF Board!Pilot
<1>8. Len(rows) = Weight(One(n), n, g)
  BY ONLY n \in Nat, <1>2, <1>3, LengthWeighs
<1>9. Len(r) = Weight(One(n), n, g \cap GradedOf(n))
  BY ONLY n \in Nat, <1>5, LengthWeighs
<1>10. s = [k \in 1..Len(r) |-> Points(n)[r[k]]]
  <2>1. \A k \in 1..Len(r) : r[k] \in 1..n /\ r[k] \in GradedOf(n)
    <3>1. (\A k \in 1..Len(r) : r[k] \in 1..n) /\ ToSet(r) = {r[k] : k \in 1..Len(r)}
      BY ONLY <1>5, InSeq
    <3>2. \A k \in 1..Len(r) : r[k] \in g \cap GradedOf(n)
      BY ONLY <1>5, <3>1
    <3> QED BY ONLY <3>1, <3>2
  <2>2. \A k \in 1..Len(r) : Points(n)[r[k]] = Board!PointsOf(r[k])
    BY <2>1 DEF Points, GradedOf
  <2> QED BY <1>6, <2>2
<1>11. Board!SumOf(s) = Weight(Points(n), n, ToSet(r))
  BY ONLY n \in Nat, Points(n) \in [1..n -> Int], <1>5, <1>10, WeightListed
<1>12. Board!SumOf(s) = Weight(Points(n), n, g \cap GradedOf(n))
  BY ONLY <1>5, <1>11
<1> QED BY ONLY <1>1, <1>7, <1>8, <1>9, <1>12

LEMMA BoardStatistics == BoardInv => Board!StatisticsCoverAll
<1> SUFFICES ASSUME BoardInv, page = "pilots", shown.kind = "ready"
             PROVE  Board!StatisticsCoverAll
  BY DEF Board!StatisticsCoverAll
<1>1. PICK n, cap, list, f :
        /\ n = shown.read /\ cap = shown.cap /\ list = Board!ListByPilot(cap, n)
        /\ f = Board!NewestFirst(NewestOnes(n), n)
  OBVIOUS
<1>2. n \in Nat /\ n <= Len(passes) /\ cap \in Nat
  BY <1>1, BoardBounds DEF BoardInv, Says, Board!Answers, Board!All
<1>3. /\ Len(f) \in Nat
      /\ \A k \in 1..Len(f) : f[k] \in NewestOnes(n)
      /\ \A m \in NewestOnes(n) : \E k \in 1..Len(f) : f[k] = m
      /\ \A k, l \in 1..Len(f) : k < l => f[k] > f[l]
  <2>1. Listing(n, cap, f, list)
    BY ONLY <1>1, <1>2, PilotsAre
  <2> QED BY ONLY <2>1 DEF Listing
<1>4. PICK m \in Nat : m = Len(f)
  BY <1>3
<1>5. list = [k \in 1..m |-> Board!Pilot(Board!NewestFirst(Flown(Board!KeyOf(f[k], n), n), n), cap)]
  BY <1>1, <1>4 DEF Board!ListByPilot, Flown, NewestOnes
<1>6. Len(list) = m
  <2>1. PICK T : T = {Board!Pilot(Board!NewestFirst(Flown(Board!KeyOf(f[k], n), n), n), cap) : k \in 1..m}
    OBVIOUS
  <2>2. list \in [1..m -> T]
    BY <1>5, <2>1
  <2>3. list \in Seq(T)
    BY <2>2, SeqDef
  <2> QED BY <2>2, <2>3, InSeq
<1>7. Points(n) \in [1..n -> Int] /\ One(n) \in [1..n -> Int]
  BY <1>2, PointsAre DEF One
<1>8. PICK G, H : /\ G = [k \in 1..m |-> Flown(Board!KeyOf(f[k], n), n)]
                  /\ H = [k \in 1..m |-> Flown(Board!KeyOf(f[k], n), n) \cap GradedOf(n)]
  OBVIOUS
<1>9. Divides(G, m, 1..n)
  <2>1. ASSUME NEW k \in 1..m, NEW l \in 1..m, k < l PROVE G[k] \cap G[l] = {}
    <3>1. f[k] > f[l] /\ f[k] \in NewestOnes(n) /\ f[l] \in NewestOnes(n)
      BY <1>3, <1>4, <2>1
    <3>2. Board!KeyOf(f[k], n) # Board!KeyOf(f[l], n)
      BY <3>1 DEF NewestOnes
    <3> QED BY <1>8, <3>2 DEF Flown
  <2>2. ASSUME NEW i \in 1..n PROVE \E k \in 1..m : i \in G[k]
    <3>1. PICK j \in NewestOnes(n) : Board!KeyOf(j, n) = Board!KeyOf(i, n)
      BY <1>2, GroupHasNewest
    <3>2. PICK k \in 1..m : f[k] = j
      BY <1>3, <1>4
    <3>3. i \in Flown(Board!KeyOf(f[k], n), n)
      BY <3>1, <3>2 DEF Flown
    <3> QED BY <1>8, <3>3
  <2>3. \A k \in 1..m : G[k] \subseteq 1..n
    BY <1>8 DEF Flown
  <2> QED BY <2>1, <2>2, <2>3 DEF Divides
<1>10. Divides(H, m, GradedOf(n))
  <2>1. \A k \in 1..m : H[k] = G[k] \cap GradedOf(n)
    BY <1>8
  <2>2. GradedOf(n) \subseteq 1..n
    BY DEF GradedOf
  <2> QED BY <1>9, <2>1, <2>2 DEF Divides
<1>11. \A k \in 1..m : /\ list[k].total = Weight(One(n), n, G[k])
                       /\ list[k].graded = Weight(One(n), n, H[k])
                       /\ list[k].points = Weight(Points(n), n, H[k])
  <2> TAKE k \in 1..m
  <2>1. PICK p, key : p = list[k] /\ key = Board!KeyOf(f[k], n)
    OBVIOUS
  <2>2. p = Board!Pilot(Board!NewestFirst(Flown(key, n), n), cap)
    BY <1>5, <2>1
  <2>3. /\ p.total = Weight(One(n), n, Flown(key, n))
        /\ p.graded = Weight(One(n), n, Flown(key, n) \cap GradedOf(n))
        /\ p.points = Weight(Points(n), n, Flown(key, n) \cap GradedOf(n))
    BY ONLY <1>2, <1>7, <2>2, PilotCounts
  <2>4. G[k] = Flown(key, n) /\ H[k] = Flown(key, n) \cap GradedOf(n)
    BY <1>8, <2>1
  <2> QED BY ONLY <2>1, <2>3, <2>4
<1>12. PICK t, g, q : /\ t = [k \in 1..m |-> list[k].total]
                      /\ g = [k \in 1..m |-> list[k].graded]
                      /\ q = [k \in 1..m |-> list[k].points]
  OBVIOUS
<1>13. /\ t \in [1..m -> Int] /\ Weighs(t, G, m, One(n), n)
       /\ g \in [1..m -> Int] /\ Weighs(g, H, m, One(n), n)
       /\ q \in [1..m -> Int] /\ Weighs(q, H, m, Points(n), n)
  <2>1. \A S : Weight(One(n), n, S) \in Int /\ Weight(Points(n), n, S) \in Int
    BY <1>2, <1>7, PartIs
  <2> QED BY <1>11, <1>12, <2>1 DEF Weighs
<1>14. Board!SumOf(t) = Weight(One(n), n, 1..n)
  <2>1. n \in Nat /\ One(n) \in [1..n -> Int] /\ m \in Nat
    BY <1>2, <1>4, <1>7
  <2>2. t \in [1..m -> Int] /\ Weighs(t, G, m, One(n), n)
    BY ONLY <1>13
  <2> QED BY ONLY <1>9, <2>1, <2>2, WeightsAddUp
<1>15. Board!SumOf(g) = Weight(One(n), n, GradedOf(n))
  <2>1. n \in Nat /\ One(n) \in [1..n -> Int] /\ m \in Nat
    BY <1>2, <1>4, <1>7
  <2>2. g \in [1..m -> Int] /\ Weighs(g, H, m, One(n), n)
    BY ONLY <1>13
  <2> QED BY ONLY <1>10, <2>1, <2>2, WeightsAddUp
<1>16. Board!SumOf(q) = Weight(Points(n), n, GradedOf(n))
  <2>1. n \in Nat /\ Points(n) \in [1..n -> Int] /\ m \in Nat
    BY <1>2, <1>4, <1>7
  <2>2. q \in [1..m -> Int] /\ Weighs(q, H, m, Points(n), n)
    BY ONLY <1>13
  <2> QED BY ONLY <1>10, <2>1, <2>2, WeightsAddUp
<1>17. Cardinality(1..n) = Weight(One(n), n, 1..n) /\ Cardinality(1..n) = n
  BY <1>2, SetWeighs, UpTo
<1>18. Cardinality(GradedOf(n)) = Weight(One(n), n, GradedOf(n))
  <2>1. GradedOf(n) \in SUBSET (1..n)
    BY DEF GradedOf
  <2> QED BY ONLY <1>2, <2>1, SetWeighs
<1>19. Part(Points(n), n, GradedOf(n))
         = [i \in 1..n |-> IF i \in GradedOf(n) THEN Board!PointsOf(i) ELSE 0]
  BY DEF Part, Points, GradedOf
<1>20. Board!Cardinality(GradedOf(n)) = Cardinality(GradedOf(n))
  BY BoardHelpers
<1>21. LET graded == {i \in 1..n : Board!PointsOf(i) # NoPoints}
       IN  /\ Board!SumOf([k \in 1..Len(list) |-> list[k].total]) = n
           /\ Board!SumOf([k \in 1..Len(list) |-> list[k].graded]) = Board!Cardinality(graded)
           /\ Board!SumOf([k \in 1..Len(list) |-> list[k].points])
                = Board!SumOf([i \in 1..n |-> IF i \in graded THEN Board!PointsOf(i) ELSE 0])
  <2>1. t = [k \in 1..Len(list) |-> list[k].total]
    BY <1>6, <1>12
  <2>2. g = [k \in 1..Len(list) |-> list[k].graded]
    BY <1>6, <1>12
  <2>3. q = [k \in 1..Len(list) |-> list[k].points]
    BY <1>6, <1>12
  <2>4. Board!SumOf(q)
          = Board!SumOf([i \in 1..n |-> IF i \in GradedOf(n) THEN Board!PointsOf(i) ELSE 0])
    BY ONLY <1>16, <1>19 DEF Weight
  <2>5. Board!SumOf(t) = n /\ Board!SumOf(g) = Board!Cardinality(GradedOf(n))
    BY ONLY <1>14, <1>15, <1>17, <1>18, <1>20
  <2> QED BY ONLY <2>1, <2>2, <2>3, <2>4, <2>5 DEF GradedOf
<1>22. list = Board!BoardPilots
  BY <1>1 DEF Board!BoardPilots
<1> QED BY ONLY <1>1, <1>21, <1>22 DEF Board!StatisticsCoverAll

-----------------------------------------------------------------------------
(* The mission files                                                       *)

Paths == Seq(Disk!Names) \ {<<>>}
Views == [folder : Seq(Disk!Names), search : {"", "dusk"}, placed : {"yes", "no"}]

\* Every path has a name.
DiskInv ==
  /\ disk \subseteq Paths /\ queue \subseteq Paths /\ running \in Paths
  /\ browser.listing \subseteq Paths /\ browser.uploads \subseteq Paths
  /\ browser.queue \subseteq Paths
  /\ view \in Views /\ sending \subseteq Uploadable

LEMMA TreePaths == Tree # {} /\ Tree \subseteq Paths
<1>1. Disk!TreeAssumption
  BY PartsAssumption
<1>2. ASSUME NEW f \in Tree PROVE f \in Paths
  <2>1. f # <<>> /\ f \in Seq(ToSet(f))
    BY <1>1 DEF Disk!TreeAssumption, Disk!ToSet, ToSet
  <2>2. ToSet(f) \subseteq Disk!Names
    BY DEF Disk!Names, Disk!ToSet, ToSet
  <2>3. Len(f) \in Nat /\ DOMAIN f = 1..Len(f) /\ \A i \in 1..Len(f) : f[i] \in Disk!Names
    BY <2>1, <2>2, InSeq
  <2>4. f = [i \in 1..Len(f) |-> f[i]]
    BY <2>1, ElementOfSeq, LenProperties
  <2>5. f \in Seq(Disk!Names)
    BY ONLY <2>3, <2>4, IsASeq
  <2> QED BY <2>1, <2>5 DEF Paths
<1> QED BY <1>1, <1>2 DEF Disk!TreeAssumption

\* Numbers up to n have a greatest among them.
LEMMA Greatest ==
  ASSUME NEW n \in Nat, NEW S \in SUBSET (1..n), S # {}
  PROVE  Disk!Max(S) \in S
<1>1. /\ IsFiniteSet(S) /\ Cardinality(S) \in Nat
      /\ \A i \in S : Rank(S, i) \in 1..Cardinality(S)
      /\ \A i, j \in S : i < j => Rank(S, i) < Rank(S, j)
      /\ \A k \in 1..Cardinality(S) : \E i \in S : Rank(S, i) = k
  BY RankedBy
<1>2. Cardinality(S) # 0
  BY <1>1, FS_EmptySet
<1>3. PICK i \in S : Rank(S, i) = Cardinality(S)
  BY <1>1, <1>2
<1>4. ASSUME NEW j \in S PROVE i >= j
  <2>1. i \in Nat /\ j \in Nat
    OBVIOUS
  <2>2. ~(Cardinality(S) < Rank(S, j))
    BY <1>1
  <2>3. ~(i < j)
    BY <1>1, <1>3, <2>2
  <2> QED BY <2>1, <2>3
<1> QED BY <1>4 DEF Disk!Max

LEMMA DiskStart == Disk!Init => DiskInv
<1> SUFFICES ASSUME Disk!Init PROVE DiskInv
  OBVIOUS
<1>1. disk \subseteq Paths /\ running \in Paths
  BY TreePaths DEF Disk!Init
<1>2. view \in Views
  <2>1. view = [folder |-> <<>>, search |-> "", placed |-> "no"]
    BY DEF Disk!Init, Disk!NoPath
  <2>2. <<>> \in Seq(Disk!Names)
    BY EmptySeq
  <2> QED BY ONLY <2>1, <2>2 DEF Views
<1> QED BY <1>1, <1>2 DEF Disk!Init, DiskInv

\* The folder the browser is placed in.
LEMMA PlacedIs ==
  ASSUME NEW f \in Paths
  PROVE  Disk!Placed(f) \in Seq(Disk!Names)
<1>1. PICK T : T = Disk!Names
  OBVIOUS
<1>2. f \in Seq(T) /\ Len(f) \in Nat /\ \A i \in 1..Len(f) : f[i] \in T
  BY <1>1, InSeq DEF Paths
<1>3. PICK at : at = {i \in 2..Len(f) : f[i] \in DOMAIN Disk!Matched}
  OBVIOUS
<1>4. CASE at = {}
  BY <1>3, <1>4 DEF Disk!Placed, Disk!NoPath
<1>5. CASE at # {}
  <2>1. at \in SUBSET (1..Len(f))
    BY <1>2, <1>3
  <2>2. PICK n : n = Disk!Max(at)
    OBVIOUS
  <2>3. n \in 1..Len(f) /\ f[n] \in DOMAIN Disk!Matched
    BY <1>2, <1>3, <1>5, <2>1, <2>2, Greatest
  <2>4. PICK p, name : p = SubSeq(f, 1, n - 1) /\ name = Disk!Matched[f[n]]
    OBVIOUS
  <2>5. p \in Seq(T)
    <3>1. n - 1 \in Nat /\ n - 1 <= Len(f) /\ \A i \in 1..n - 1 : f[i] \in T
      BY <1>2, <2>3
    <3> QED BY <2>4, <3>1, FirstOf
  <2>6. name \in T
    <3>1. {"Missions", "missions"} \subseteq T
      BY <1>1 DEF Disk!Names
    <3> QED BY <2>3, <2>4, <3>1 DEF Disk!Matched
  <2>7. Append(p, name) \in Seq(T)
    BY <2>5, <2>6, AppendProperties
  <2>8. Disk!Placed(f) = Append(p, name)
    BY ONLY <1>3, <1>5, <2>2, <2>4 DEF Disk!Placed
  <2> QED BY <1>1, <2>7, <2>8
<1> QED BY <1>4, <1>5

LEMMA DiskStep == DiskInv /\ [Disk!Next]_diskVars => DiskInv'
<1> SUFFICES ASSUME DiskInv, [Disk!Next]_diskVars PROVE DiskInv'
  OBVIOUS
<1>0. Disk!Shown \subseteq Paths /\ Disk!Listed \subseteq disk
  BY DEF Disk!Shown, Disk!FilesIn, Disk!Listed, DiskInv
<1>1. CASE UNCHANGED diskVars
  BY <1>1 DEF diskVars, DiskInv
<1>2. ASSUME NEW f \in Removable, Disk!Delete(f) PROVE DiskInv'
  BY <1>2 DEF Disk!Delete, DiskInv
<1>3. CASE Disk!Fetch
  <2>1. /\ browser' = [listing |-> Disk!Listed, uploads |-> {f \in disk : f[1] = "Uploads"},
                       queue |-> queue, current |-> Disk!Last(running)]
        /\ UNCHANGED <<disk, queue, running, transfer, got, sending>>
    BY <1>3 DEF Disk!Fetch
  <2>2. view' \in Views
    <3>1. CASE UNCHANGED view
      BY <3>1 DEF DiskInv
    <3>2. ASSUME NEW f \in Disk!Listed,
                 view' = [view EXCEPT !.folder = Disk!Placed(f), !.placed = "yes"]
          PROVE  view' \in Views
      <4>1. Disk!Placed(f) \in Seq(Disk!Names)
        BY <1>0, PlacedIs DEF DiskInv
      <4> QED BY <3>2, <4>1 DEF DiskInv, Views
    <3> QED BY <1>3, <3>1, <3>2 DEF Disk!Fetch
  <2>3. /\ browser'.listing \subseteq Paths /\ browser'.uploads \subseteq Paths
        /\ browser'.queue \subseteq Paths
    BY <1>0, <2>1 DEF DiskInv
  <2> QED BY <2>1, <2>2, <2>3 DEF DiskInv
<1>4. CASE Disk!OpenFolder
  <2>1. PICK name \in Disk!FoldersIn(view.folder) : view' = [view EXCEPT !.folder = Append(@, name)]
    BY <1>4 DEF Disk!OpenFolder
  <2>2. UNCHANGED <<disk, queue, running, browser, transfer, got, sending>>
    BY <1>4 DEF Disk!OpenFolder
  <2>3. view.folder \in Seq(Disk!Names) /\ Len(view.folder) \in Nat
    BY InSeq DEF DiskInv, Views
  <2>4. name \in Disk!Names
    <3>1. PICK g \in browser.listing : Len(g) > Len(view.folder) + 1 /\ name = g[Len(view.folder) + 1]
      BY <2>1 DEF Disk!FoldersIn
    <3>2. g \in Seq(Disk!Names) /\ Len(g) \in Nat /\ \A i \in 1..Len(g) : g[i] \in Disk!Names
      BY InSeq DEF DiskInv, Paths
    <3>3. Len(view.folder) + 1 \in 1..Len(g)
      BY <2>3, <3>1, <3>2
    <3> QED BY <3>1, <3>2, <3>3
  <2>5. Append(view.folder, name) \in Seq(Disk!Names)
    BY <2>3, <2>4, AppendProperties
  <2>6. view' \in Views
    BY <2>1, <2>5 DEF DiskInv, Views
  <2> QED BY <2>2, <2>6 DEF DiskInv
<1>5. CASE Disk!Breadcrumb
  <2>1. PICK i \in 0..Len(view.folder) - 1 : view' = [view EXCEPT !.folder = SubSeq(@, 1, i)]
    BY <1>5 DEF Disk!Breadcrumb
  <2>2. UNCHANGED <<disk, queue, running, browser, transfer, got, sending>>
    BY <1>5 DEF Disk!Breadcrumb
  <2>3. /\ view.folder \in Seq(Disk!Names) /\ Len(view.folder) \in Nat
        /\ \A j \in 1..Len(view.folder) : view.folder[j] \in Disk!Names
    BY InSeq DEF DiskInv, Views
  <2>4. i \in Nat /\ \A j \in 1..i : view.folder[j] \in Disk!Names
    BY <2>3
  <2>5. SubSeq(view.folder, 1, i) \in Seq(Disk!Names)
    BY <2>4, FirstOf
  <2>6. view' \in Views
    BY <2>1, <2>5 DEF DiskInv, Views
  <2> QED BY <2>2, <2>6 DEF DiskInv
<1>6. CASE Disk!Search
  <2>1. PICK word \in {"", "dusk"} : view' = [view EXCEPT !.search = word]
    BY <1>6 DEF Disk!Search
  <2>2. UNCHANGED <<disk, queue, running, browser, transfer, got, sending>>
    BY <1>6 DEF Disk!Search
  <2>3. view' \in Views
    BY <2>1 DEF DiskInv, Views
  <2> QED BY <2>2, <2>3 DEF DiskInv
<1>7. CASE Disk!AddToQueue
  BY <1>0, <1>7 DEF Disk!AddToQueue, DiskInv
<1>8. CASE Disk!RemoveFromQueue
  BY <1>8 DEF Disk!RemoveFromQueue, DiskInv
<1>9. CASE Disk!RunNow
  BY <1>9 DEF Disk!RunNow, DiskInv
<1>10. CASE Disk!Download
  BY <1>10 DEF Disk!Download, DiskInv
<1>11. CASE Disk!Downloaded
  BY <1>11 DEF Disk!Downloaded, DiskInv
<1>12. CASE Disk!Upload
  BY <1>12 DEF Disk!Upload, DiskInv
<1>13. CASE Disk!Stored
  <2>1. PICK name \in sending : disk' = disk \cup {Disk!Uploaded(name)} /\ sending' = sending \ {name}
    BY <1>13 DEF Disk!Stored
  <2>2. UNCHANGED <<queue, running, browser, view, transfer, got>>
    BY <1>13 DEF Disk!Stored
  <2>3. Disk!Uploaded(name) \in Paths
    <3>1. name \in Disk!Names /\ "Uploads" \in Disk!Names
      <4>1. name \in Uploadable
        BY <2>1 DEF DiskInv
      <4> QED BY ONLY <4>1 DEF Disk!Names
    <3> QED BY <3>1 DEF Disk!Uploaded, Paths
  <2> QED BY <2>1, <2>2, <2>3 DEF DiskInv
<1>14. CASE Disk!NotStored
  BY <1>14 DEF Disk!NotStored, DiskInv
<1> QED BY <1>1, <1>2, <1>3, <1>4, <1>5, <1>6, <1>7, <1>8, <1>9, <1>10, <1>11, <1>12, <1>13, <1>14
        DEF Disk!Next

LEMMA DiskTypes == DiskInv => Disk!TypeOK
<1> SUFFICES ASSUME DiskInv PROVE Disk!TypeOK
  OBVIOUS
<1>1. \A f \in disk \cup queue \cup browser.listing \cup {running, view.folder} :
        f \in Seq(Disk!Names)
  BY DEF DiskInv, Paths, Views
<1> QED BY <1>1 DEF Disk!TypeOK, Disk!IsPath, DiskInv, Views

-----------------------------------------------------------------------------
(* All pages                                                               *)

PagesInv == PanelInv /\ TableInv /\ BoardInv /\ DiskInv

LEMMA PagesStart == PagesInit => PagesInv
BY PanelStart, TableStart, BoardStart, DiskStart DEF PagesInit, PagesInv

\* A step of one page leaves the others alone.
LEMMA PagesSteps ==
  [PagesNext]_pagesVars =>
    [Next]_vars /\ [Table!Next]_columnVars /\ [Board!Next]_boardVars /\ [Disk!Next]_diskVars
<1> SUFFICES ASSUME [PagesNext]_pagesVars
             PROVE  [Next]_vars /\ [Table!Next]_columnVars /\ [Board!Next]_boardVars
                      /\ [Disk!Next]_diskVars
  OBVIOUS
<1>1. CASE UNCHANGED pagesVars
  BY <1>1 DEF pagesVars
<1>2. CASE PagesNext
  BY <1>2 DEF PagesNext
<1> QED BY <1>1, <1>2

LEMMA PagesStep == PagesInv /\ [PagesNext]_pagesVars => PagesInv'
BY PagesSteps, PanelStep, TableStep, BoardStep, DiskStep DEF PagesInv

LEMMA PagesKeep == PagesSpec => []PagesInv
<1>1. PagesInit => PagesInv
  BY PagesStart
<1>2. PagesInv /\ [PagesNext]_pagesVars => PagesInv'
  BY PagesStep
<1> QED BY <1>1, <1>2, PTL DEF PagesSpec

\* The variables of every page keep their types.
THEOREM PagesTypeCorrect == PagesSpec => []PagesTypeOK
<1>1. PagesInv => PagesTypeOK
  BY PanelLists, TableLists, BoardTypes, DiskTypes DEF PagesInv, PagesTypeOK
<1> QED BY <1>1, PagesKeep, PTL

\* Whatever tabs of different releases have stored, every page and every
\* column of a release is listed once, no table is blank, and each is sorted
\* by a column it shows (resolveNav, resolveColumns, hideColumn).
THEOREM ListedOnce == PagesSpec => []EntriesOnce
<1>1. PagesInv => EntriesOnce
  BY PanelLists, TableLists DEF PagesInv, EntriesOnce
<1> QED BY <1>1, PagesKeep, PTL

\* In whatever the tabs have stored, a move exchanges a page or a column with
\* its visible neighbour and a drop puts what was gripped where it was dropped,
\* the others in their order; hiding one moves none, and hides no other
\* (moveVisible, moveVisibleIndex, moveInOrder, hidePage, hideColumn).
THEOREM ControlsAim == PagesSpec => []ControlsDoAsAimed
<1>1. PanelInv => MovesByOne /\ DropsWhatWasGripped /\ PlacesAreKept
  BY PanelMoves, PanelDrops, PanelPlaces
<1>2. TableInv => Table!MovesByOne /\ Table!DropsWhatWasGripped /\ Table!HidingHides
  BY TableMoves, TableDrops, TableHides
<1>3. PagesInv => ControlsDoAsAimed
  BY <1>1, <1>2 DEF PagesInv, ControlsDoAsAimed
<1> QED BY <1>3, PagesKeep, PTL

\* A page stays hidden in tabs of every release until somebody shows it, resets
\* the panel or undoes something; and an Undo with nothing changed in between
\* brings back the panel as it was (hidePage, showPage, doHide, doReset).
THEOREM HidingKept == PagesSpec => HidingIsKept
<1>1. PagesInv /\ [PagesNext]_pagesVars =>
        [\A p \in stored.hidden \ stored'.hidden :
           \E t \in Tabs : Show(t, p) \/ Reset(t) \/ Undo(t)]_vars
  BY PagesSteps, PanelStep DEF PagesInv
<1>2. PagesInv =>
        [\A t \in Tabs : Undo(t) =>
           LET toast == tab[t].toast
               left == IF toast.kind = "reset" THEN DefaultPrefs
                       ELSE HidePage(toast.before, toast.page, Registry(t))
           IN  /\ stored = left
               /\ toast.page \notin toast.before.hidden
               /\ toast.kind = "reset" => toast.prefs = toast.before
               => Visible(stored, Registry(t))' = Visible(toast.before, Registry(t))]_vars
  BY PanelUndone DEF PagesInv
<1>3. PagesSpec => HiddenStaysHidden
  BY <1>1, PagesKeep, PTL DEF PagesSpec, HiddenStaysHidden
<1>4. PagesSpec => UndoRestores
  BY <1>2, PagesKeep, PTL DEF PagesSpec, UndoRestores
<1> QED BY <1>3, <1>4 DEF HidingIsKept

\* The board numbers the newest passes right, and says that it is not
\* configured only when it is not; the pilots page lists every pass, newest
\* first, with those of the pilot who flew it (list_passes, list_by_pilot).
THEOREM BoardRight == PagesSpec => []BoardIsRight
<1>1. PagesInv => BoardIsRight
  BY BoardNumbers, BoardTypes, BoardPilotsRight DEF PagesInv, BoardIsRight
<1> QED BY <1>1, PagesKeep, PTL

\* The statistics of the pilots page cover every pass that was read, sent or
\* not: passes, graded ones and points each add up (list_by_pilot).
THEOREM StatisticsRight == PagesSpec => []StatisticsAddUp
<1>1. PagesInv => StatisticsAddUp
  BY BoardStatistics DEF PagesInv, StatisticsAddUp
<1> QED BY <1>1, PagesKeep, PTL
=================================================================================
