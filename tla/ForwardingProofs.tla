-------------------------- MODULE ForwardingProofs --------------------------
(***************************************************************************)
(* Lemmas on the pages and batches of Forwarding: what a sorted page holds *)
(* and in which order, and what is left of a batch when its head was       *)
(* handled.                                                                *)
(***************************************************************************)
EXTENDS Forwarding, FiniteSetTheorems, SequenceTheorems, TLAPS

(* A set of numbers that has a bound has a greatest and a least element.   *)
LEMMA MinLemma ==
  ASSUME NEW S \in SUBSET Nat, S # {}
  PROVE  Min(S) \in S /\ \A n \in S : Min(S) <= n
<1>1. PICK x \in S : \A y \in S : ~ (<<y, x>> \in OpToRel(<, Nat))
  BY NatLessThanWellFounded, WFMin
<1>2. ASSUME NEW y \in S PROVE x <= y
  <2>1. x \in Nat /\ y \in Nat
    OBVIOUS
  <2>2. y < x => <<y, x>> \in OpToRel(<, Nat)
    BY <2>1 DEF OpToRel
  <2>3. ~(y < x)
    BY <1>1, <2>2, Zenon
  <2> QED
    BY <2>1, <2>3
<1> QED
  BY <1>2 DEF Min

LEMMA MaxLemma ==
  ASSUME NEW S \in SUBSET Nat, S # {}, NEW N \in Nat, \A n \in S : n <= N
  PROVE  Max(S) \in S /\ \A n \in S : n <= Max(S)
<1> DEFINE R == {r \in 0 .. N : N - r \in S}
<1>1. PICK n \in S : TRUE
  OBVIOUS
<1>2. N - n \in R
  BY <1>1
<1>3. Min(R) \in R /\ \A r \in R : Min(R) <= r
  <2>1. R \in SUBSET Nat
    OBVIOUS
  <2>2. R # {}
    BY <1>2
  <2> QED
    BY <2>1, <2>2, MinLemma
<1>4. N - Min(R) \in S /\ N - Min(R) \in Nat
  BY <1>3
<1>5. ASSUME NEW m \in S PROVE m <= N - Min(R)
  <2>1. N - m \in R
    OBVIOUS
  <2> QED
    BY <2>1, <1>3
<1> QED
  BY <1>4, <1>5 DEF Max

-----------------------------------------------------------------------------
(* Every finite set of numbers can be listed in ascending order: an item's *)
(* place is the number of items up to it.                                  *)
LEMMA AscendingExists ==
  ASSUME NEW S \in SUBSET Nat, IsFiniteSet(S)
  PROVE  \E s \in [1 .. Cardinality(S) -> S] : \A i, j \in DOMAIN s : i < j => s[i] < s[j]
<1> DEFINE Upto(m) == {n \in S : n <= m}
           C == Cardinality(S)
           r == [m \in S |-> Cardinality(Upto(m))]
<1>1. C \in Nat
  BY FS_CardinalityType
<1>2. ASSUME NEW m \in S PROVE r[m] \in 1 .. C
  <2>1. Upto(m) \in SUBSET S /\ Upto(m) # {}
    OBVIOUS
  <2>2. IsFiniteSet(Upto(m)) /\ Cardinality(Upto(m)) <= C
    BY <2>1, FS_Subset
  <2>3. Cardinality(Upto(m)) \in Nat /\ Cardinality(Upto(m)) # 0
    BY <2>1, <2>2, FS_CardinalityType, FS_EmptySet
  <2> QED
    BY <2>2, <2>3, <1>1
<1>3. ASSUME NEW m \in S, NEW n \in S, m < n PROVE r[m] < r[n]
  <2>1. /\ \A x \in S : x <= m => x <= n
        /\ n \in Upto(n) /\ n \notin Upto(m)
    BY <1>3
  <2>2. IsFiniteSet(Upto(n)) /\ Upto(m) \in SUBSET Upto(n)
    BY <2>1, FS_Subset, Upto(n) \in SUBSET S
  <2>3. Cardinality(Upto(m)) <= Cardinality(Upto(n))
    BY <2>2, FS_Subset
  <2>4. Cardinality(Upto(m)) # Cardinality(Upto(n))
    BY <2>1, <2>2, FS_Subset
  <2> QED
    BY <2>3, <2>4, <1>2
<1>4. r \in Injection(S, 1 .. C)
  <2>1. r \in [S -> 1 .. C]
    BY <1>2
  <2>2. ASSUME NEW m \in S, NEW n \in S, r[m] = r[n] PROVE m = n
    <3>1. m \in Nat /\ n \in Nat /\ r[m] \in Nat
      BY <1>1, <1>2
    <3>2. ~(m < n) /\ ~(n < m)
      BY <1>3, <2>2, <3>1
    <3> QED
      BY <3>1, <3>2
  <2> QED
    BY <2>1, <2>2 DEF Injection, IsInjective
<1>5. r \in Surjection(S, 1 .. C)
  <2>1. IsFiniteSet(1 .. C) /\ Cardinality(1 .. C) = C
    BY <1>1, FS_Interval
  <2> QED
    BY <1>4, <2>1, FS_Injection
<1> DEFINE s == [i \in 1 .. C |-> CHOOSE m \in S : r[m] = i]
<1>6. \A i \in 1 .. C : s[i] \in S /\ r[s[i]] = i
  BY <1>5 DEF Surjection
<1>7. ASSUME NEW i \in 1 .. C, NEW j \in 1 .. C, i < j PROVE s[i] < s[j]
  <2> DEFINE x == s[i]
             y == s[j]
  <2>1. x \in S /\ y \in S /\ r[x] = i /\ r[y] = j
    BY <1>6
  <2>2. \A m, n \in S : m < n => r[m] < r[n]
    BY <1>3
  <2> HIDE DEF r, s, x, y
  <2>3. x # y /\ ~(y < x)
    BY <1>1, <1>7, <2>1, <2>2
  <2>4. x < y
    BY <2>1, <2>3
  <2> QED
    BY <2>4 DEF x, y
<1> QED
  <2>1. s \in [1 .. C -> S] /\ DOMAIN s = 1 .. C
    BY <1>6
  <2> HIDE DEF s
  <2> QED
    BY <2>1, <1>7

(* A strictly ascending or descending list of as many items of S as there are is S. *)
LEMMA ListsAll ==
  ASSUME NEW S, IsFiniteSet(S), NEW s \in [1 .. Cardinality(S) -> S], IsInjective(s)
  PROVE  s \in Seq(S) /\ ToSet(s) = S /\ Len(s) = Cardinality(S)
<1> DEFINE C == Cardinality(S)
<1>1. C \in Nat /\ IsFiniteSet(1 .. C) /\ Cardinality(1 .. C) = C
  BY FS_CardinalityType, FS_Interval
<1>2. s \in Injection(1 .. C, S)
  BY DEF Injection
<1>3. s \in Surjection(1 .. C, S)
  BY <1>1, <1>2, FS_Injection
<1> HIDE DEF C
<1> QED
  BY <1>1, <1>3, s \in [1 .. C -> S], SeqDef DEF C, Surjection, ToSet

LEMMA AscendingLemma ==
  ASSUME NEW S \in SUBSET Nat, IsFiniteSet(S)
  PROVE  /\ Ascending(S) \in Seq(S) /\ ToSet(Ascending(S)) = S
         /\ IsInjective(Ascending(S))
         /\ \A i, j \in DOMAIN Ascending(S) : i < j => Ascending(S)[i] < Ascending(S)[j]
<1> DEFINE s == Ascending(S)
<1>1. s \in [1 .. Cardinality(S) -> S] /\ \A i, j \in DOMAIN s : i < j => s[i] < s[j]
  BY AscendingExists DEF Ascending
<1>2. Cardinality(S) \in Nat
  BY FS_CardinalityType
<1> HIDE DEF s
<1>3. IsInjective(s)
  <2> SUFFICES ASSUME NEW i \in DOMAIN s, NEW j \in DOMAIN s, s[i] = s[j]
               PROVE  i = j
    BY DEF IsInjective
  <2>1. i \in 1 .. Cardinality(S) /\ j \in 1 .. Cardinality(S) /\ s[i] \in S
    BY <1>1
  <2>2. i \in Nat /\ j \in Nat
    BY <2>1
  <2>3. s[i] \in Nat
    BY <2>1
  <2>4. ~(i < j) /\ ~(j < i)
    BY <1>1, <2>3
  <2> QED
    BY <2>2, <2>4
<1> QED
  BY <1>1, <1>3, ListsAll DEF s

LEMMA DescendingLemma ==
  ASSUME NEW S \in SUBSET Nat, IsFiniteSet(S)
  PROVE  Descending(S) \in Seq(S) /\ ToSet(Descending(S)) = S
<1> DEFINE s == Descending(S)
           C == Cardinality(S)
<1>2. C \in Nat
  BY FS_CardinalityType
<1>1. s \in [1 .. C -> S] /\ \A i, j \in DOMAIN s : i < j => s[i] > s[j]
  <2>1. PICK a \in [1 .. C -> S] : \A i, j \in DOMAIN a : i < j => a[i] < a[j]
    BY AscendingExists
  <2> DEFINE d == [i \in 1 .. C |-> a[C + 1 - i]]
  <2> HIDE DEF C
  <2>2. \A i \in 1 .. C : C + 1 - i \in 1 .. C
    BY <1>2
  <2>3. d \in [1 .. C -> S] /\ DOMAIN d = 1 .. C
    BY <2>2
  <2>4. ASSUME NEW i \in 1 .. C, NEW j \in 1 .. C, i < j PROVE d[i] > d[j]
    <3>1. C + 1 - j < C + 1 - i
      BY <1>2, <2>4
    <3> QED
      BY <2>1, <2>2, <3>1
  <2>5. \A i, j \in DOMAIN d : i < j => d[i] > d[j]
    BY <2>3, <2>4
  <2>6. \E x \in [1 .. C -> S] : \A i, j \in DOMAIN x : i < j => x[i] > x[j]
    <3> HIDE DEF d
    <3> QED
      BY <2>3, <2>5
  <2> QED
    BY <2>6 DEF Descending, C
<1> HIDE DEF s, C
<1>3. IsInjective(s)
  <2> SUFFICES ASSUME NEW i \in DOMAIN s, NEW j \in DOMAIN s, s[i] = s[j]
               PROVE  i = j
    BY DEF IsInjective
  <2>1. i \in 1 .. Cardinality(S) /\ j \in 1 .. Cardinality(S) /\ s[i] \in S
    BY <1>1 DEF C
  <2>2. i \in Nat /\ j \in Nat
    BY <2>1
  <2>3. s[i] \in Nat
    BY <2>1
  <2>4. ~(i < j) /\ ~(j < i)
    BY <1>1, <2>3
  <2> QED
    BY <2>2, <2>4
<1> QED
  BY <1>1, <1>3, ListsAll DEF s, C

-----------------------------------------------------------------------------
(* Sequences as sets. *)

LEMMA ToSetType ==
  ASSUME NEW S, NEW s \in Seq(S)
  PROVE  ToSet(s) \subseteq S /\ (s # <<>> <=> ToSet(s) # {})
<1>1. Len(s) \in Nat /\ DOMAIN s = 1 .. Len(s) /\ s \in [1 .. Len(s) -> S]
  BY LenProperties
<1>2. ToSet(s) \subseteq S
  BY <1>1 DEF ToSet
<1>3. s # <<>> => ToSet(s) # {}
  <2>1. s # <<>> => Len(s) \in Nat \ {0}
    BY EmptySeq
  <2>2. s # <<>> => 1 \in DOMAIN s
    BY <1>1, <2>1
  <2> QED
    BY <2>2 DEF ToSet
<1>4. s = <<>> => ToSet(s) = {}
  BY DEF ToSet
<1> QED
  BY <1>2, <1>3, <1>4

LEMMA HeadAndTail ==
  ASSUME NEW S, NEW s \in Seq(S), s # <<>>
  PROVE  /\ Head(s) \in S /\ Tail(s) \in Seq(S)
         /\ ToSet(s) = {Head(s)} \cup ToSet(Tail(s))
         /\ IsInjective(s) => IsInjective(Tail(s)) /\ Head(s) \notin ToSet(Tail(s))
<1> DEFINE n == Len(s)
           t == Tail(s)
<1>1. /\ n \in Nat \ {0} /\ DOMAIN s = 1 .. n
      /\ Head(s) \in S /\ t \in Seq(S) /\ Len(t) = n - 1
      /\ \A i \in 1 .. Len(t) : t[i] = s[i + 1]
  BY EmptySeq, LenProperties, HeadTailProperties
<1>2. DOMAIN t = 1 .. n - 1
  BY <1>1, LenProperties
<1>3. Head(s) = s[1]
  OBVIOUS
<1> HIDE DEF n, t
<1>4. \A i \in 1 .. n : i = 1 \/ (i - 1 \in 1 .. n - 1 /\ t[i - 1] = s[i])
  BY <1>1
<1>5. \A i \in 1 .. n - 1 : t[i] = s[i + 1] /\ i + 1 \in 1 .. n /\ i + 1 # 1
  BY <1>1
<1>6. ToSet(s) = {Head(s)} \cup ToSet(t)
  <2>1. 1 \in 1 .. n
    BY <1>1
  <2>2. ToSet(t) \subseteq ToSet(s) /\ Head(s) \in ToSet(s)
    BY <1>1, <1>2, <1>3, <1>5, <2>1 DEF ToSet
  <2>3. ASSUME NEW i \in 1 .. n PROVE s[i] \in {Head(s)} \cup ToSet(t)
    <3>1. CASE i = 1
      BY <1>3, <3>1
    <3>2. CASE i - 1 \in 1 .. n - 1 /\ t[i - 1] = s[i]
      BY <1>2, <3>2 DEF ToSet
    <3> QED
      BY <1>4, <3>1, <3>2
  <2>4. ToSet(s) \subseteq {Head(s)} \cup ToSet(t)
    BY <1>1, <2>3 DEF ToSet
  <2> QED
    BY <2>2, <2>4
<1>7. IsInjective(s) => IsInjective(t) /\ Head(s) \notin ToSet(t)
  <2> SUFFICES ASSUME IsInjective(s) PROVE IsInjective(t) /\ Head(s) \notin ToSet(t)
    OBVIOUS
  <2>1. ASSUME NEW i \in 1 .. n - 1, NEW j \in 1 .. n - 1, t[i] = t[j] PROVE i = j
    <3>1. i + 1 = j + 1
      BY <1>1, <1>5, <2>1 DEF IsInjective
    <3> QED
      BY <3>1
  <2>2. ASSUME NEW i \in 1 .. n - 1 PROVE t[i] # s[1]
    BY <1>1, <1>5 DEF IsInjective
  <2> QED
    BY <1>2, <1>3, <2>1, <2>2 DEF IsInjective, ToSet
<1> QED
  BY <1>1, <1>6, <1>7 DEF t

LEMMA Joined ==
  ASSUME NEW S, NEW s \in Seq(S), NEW t \in Seq(S)
  PROVE  /\ s \o t \in Seq(S) /\ ToSet(s \o t) = ToSet(s) \cup ToSet(t)
         /\ IsInjective(s) /\ IsInjective(t) /\ ToSet(s) \cap ToSet(t) = {}
              => IsInjective(s \o t)
<1> DEFINE m == Len(s)
           n == Len(t)
           u == s \o t
<1>1. /\ m \in Nat /\ n \in Nat /\ DOMAIN s = 1 .. m /\ DOMAIN t = 1 .. n
      /\ u \in Seq(S) /\ Len(u) = m + n
      /\ \A i \in 1 .. m + n : u[i] = IF i <= m THEN s[i] ELSE t[i - m]
  BY LenProperties, ConcatProperties
<1>2. DOMAIN u = 1 .. m + n
  BY <1>1, LenProperties
<1> HIDE DEF m, n, u
<1>3. \A i \in 1 .. m + n : \/ i \in 1 .. m /\ u[i] = s[i]
                            \/ i - m \in 1 .. n /\ i \notin 1 .. m /\ u[i] = t[i - m]
  BY <1>1
<1>4. ToSet(u) \subseteq ToSet(s) \cup ToSet(t)
  <2> SUFFICES ASSUME NEW i \in 1 .. m + n PROVE u[i] \in ToSet(s) \cup ToSet(t)
    BY <1>2 DEF ToSet
  <2>1. CASE i \in 1 .. m /\ u[i] = s[i]
    BY <1>1, <2>1 DEF ToSet
  <2>2. CASE i - m \in 1 .. n /\ u[i] = t[i - m]
    BY <1>1, <2>2 DEF ToSet
  <2> QED
    BY <1>3, <2>1, <2>2
<1>5. ToSet(s) \subseteq ToSet(u)
  <2>1. \A i \in 1 .. m : i \in 1 .. m + n /\ u[i] = s[i]
    BY <1>1
  <2> QED
    BY <1>1, <1>2, <2>1 DEF ToSet
<1>6. ToSet(t) \subseteq ToSet(u)
  <2>1. \A i \in 1 .. n : i + m \in 1 .. m + n /\ u[i + m] = t[i]
    BY <1>1
  <2> QED
    BY <1>1, <1>2, <2>1 DEF ToSet
<1>7. ASSUME IsInjective(s), IsInjective(t), ToSet(s) \cap ToSet(t) = {}
      PROVE  IsInjective(u)
  <2> SUFFICES ASSUME NEW i \in 1 .. m + n, NEW j \in 1 .. m + n, u[i] = u[j]
               PROVE  i = j
    BY <1>2 DEF IsInjective
  <2>1. \A k \in 1 .. m : s[k] \in ToSet(s)
    BY <1>1 DEF ToSet
  <2>2. \A k \in 1 .. n : t[k] \in ToSet(t)
    BY <1>1 DEF ToSet
  <2>3. CASE i \in 1 .. m /\ u[i] = s[i] /\ j \in 1 .. m /\ u[j] = s[j]
    BY <1>1, <1>7, <2>3 DEF IsInjective
  <2>4. CASE i - m \in 1 .. n /\ u[i] = t[i - m] /\ j - m \in 1 .. n /\ u[j] = t[j - m]
    <3>1. i - m = j - m
      BY <1>1, <1>7, <2>4 DEF IsInjective
    <3> QED
      BY <1>1, <3>1
  <2> QED
    BY <1>3, <1>7, <2>1, <2>2, <2>3, <2>4
<1> QED
  BY <1>1, <1>4, <1>5, <1>6, <1>7 DEF u

-----------------------------------------------------------------------------
(* Pages. *)

LEMMA ItemsFinite ==
  ASSUME NEW S \in SUBSET Item
  PROVE  IsFiniteSet(S) /\ S \subseteq Nat
<1>1. MaxItem \in Nat /\ Item = 1 .. MaxItem
  BY ForwardingAssumption DEF Item
<1>2. IsFiniteSet(Item)
  BY <1>1, FS_Interval
<1>3. IsFiniteSet(S)
  BY <1>2, FS_Subset
<1>4. S \subseteq Nat
  BY <1>1
<1> QED
  BY <1>3, <1>4

(* With an item, a page of the oldest has every earlier one. *)
LEMMA OldestLemma ==
  ASSUME NEW S \in SUBSET Item, NEW m \in Oldest(S), NEW n \in S, n < m
  PROVE  n \in Oldest(S)
<1> DEFINE Before(k) == {x \in S : x < k}
<1>1. m \in S /\ Cardinality(Before(m)) < PageLimit
  BY DEF Oldest
<1>2. \A x \in S : x \in Nat
  BY ItemsFinite
<1>3. \A x \in S : x < n => x < m
  BY <1>1, <1>2
<1>4. Before(m) \in SUBSET Item /\ Before(n) \in SUBSET Before(m)
  BY <1>3
<1>5. IsFiniteSet(Before(m)) /\ IsFiniteSet(Before(n))
  BY <1>4, ItemsFinite, FS_Subset
<1>6. Cardinality(Before(n)) <= Cardinality(Before(m))
  BY <1>4, <1>5, FS_Subset
<1>7. Cardinality(Before(n)) \in Nat /\ Cardinality(Before(m)) \in Nat
  BY <1>5, FS_CardinalityType
<1>8. Cardinality(Before(n)) < PageLimit
  BY <1>1, <1>6, <1>7, ForwardingAssumption
<1> QED
  BY <1>8 DEF Oldest

-----------------------------------------------------------------------------
(* What the rest of the batch makes of the poll. *)
LEMMA ContinueLemma ==
  ASSUME NEW b, Continue(b), stage \in 1 .. Fetches(kind), attempt \in 0 .. MaxAttempts
  PROVE  /\ batch' = b /\ (b # <<>> <=> pc' = "forward")
         /\ pc' \in {"idle", "request", "forward"}
         /\ stage' \in 0 .. Fetches(kind) /\ (stage' = 0 <=> pc' = "idle")
         /\ attempt' \in 0 .. MaxAttempts
<1>1. Fetches(kind) \in {1, 3, 4} /\ MaxAttempts \in Nat \ {0}
  BY ForwardingAssumption DEF Fetches
<1> HIDE DEF Fetches
<1>2. CASE b = <<>>
  BY <1>1, <1>2 DEF Continue, NextFetch
<1>3. CASE b # <<>>
  BY <1>1, <1>3 DEF Continue
<1> QED
  BY <1>2, <1>3

(* A seen set is only ever cut. *)
LEMMA RememberLemma ==
  ASSUME NEW S, Remember(S)
  PROVE  seen' \subseteq S /\ forgotten' = forgotten \cup (S \ seen') /\ cursor' = cursor
BY DEF Remember, Cuts
=============================================================================
