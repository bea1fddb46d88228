---------------------------- MODULE OrderLemmas -----------------------------
(***************************************************************************)
(* Least and greatest elements of sets of naturals, for any such set: what *)
(* Min and Max return, and the least counterexample that replaces an       *)
(* induction where a proof needs one.  On that rest two facts about all    *)
(* sequences: they can be sorted, and flattening keeps what they contain.  *)
(***************************************************************************)
EXTENDS SequencesExt, FiniteSetTheorems, WellFoundedInduction, TLAPS

\* Every non-empty set of naturals has a least element.
LEMMA NatMin ==
  ASSUME NEW S \in SUBSET Nat, S # {}
  PROVE  \E n \in S : \A m \in S : n <= m
<1>1. \E n \in S : \A m \in S : <<m, n>> \notin OpToRel(<, Nat)
  BY NatLessThanWellFounded, WFMin
<1>2. \E n \in S : \A m \in S : ~(m < n)
  BY <1>1 DEF OpToRel
<1> QED
  BY <1>2

\* Every non-empty set of naturals with an upper bound has a greatest element.
LEMMA NatMax ==
  ASSUME NEW n \in Nat, NEW S \in SUBSET (0..n), S # {}
  PROVE  \E k \in S : \A m \in S : k >= m
<1> DEFINE Rest == {n - m : m \in S}
<1>1. Rest \in SUBSET Nat /\ Rest # {}
  <2>1. \A m \in S : n - m \in Nat
    OBVIOUS
  <2> QED
    BY <2>1
<1> HIDE DEF Rest
<1>2. PICK d \in Rest : \A e \in Rest : d <= e
  BY <1>1, NatMin
<1>3. PICK k \in S : d = n - k
  BY DEF Rest
<1>4. ASSUME NEW m \in S PROVE k >= m
  <2>1. n - m \in Rest
    BY DEF Rest
  <2>2. n - k <= n - m
    BY <1>2, <1>3, <2>1
  <2>3. k \in Nat /\ m \in Nat
    OBVIOUS
  <2> QED
    BY <2>2, <2>3
<1> QED
  BY <1>4

\* What Min and Max return.
LEMMA MinIs ==
  ASSUME NEW S \in SUBSET Nat, S # {}
  PROVE  Min(S) \in S /\ \A m \in S : Min(S) <= m
  BY NatMin DEF Min

LEMMA MaxIs ==
  ASSUME NEW n \in Nat, NEW S \in SUBSET (0..n), S # {}
  PROVE  Max(S) \in S /\ \A m \in S : Max(S) >= m
  BY NatMax DEF Max

\* The greatest element, once it is known, is what Max returns.
LEMMA MaxUnique ==
  ASSUME NEW S \in SUBSET Nat, NEW k \in S, \A m \in S : k >= m
  PROVE  Max(S) = k
<1>1. Max(S) \in S /\ \A m \in S : Max(S) >= m
  BY DEF Max
<1>2. Max(S) >= k /\ k >= Max(S) /\ k \in Nat /\ Max(S) \in Nat
  BY <1>1
<1> QED
  BY <1>2

-----------------------------------------------------------------------------
(* Sorting.  before holds the pairs of which the first goes before the     *)
(* second; elements neither of which goes before the other count as equal. *)

Orders(before, n, p) ==
  /\ p \in [1..n -> 1..n]
  /\ \A i, j \in 1..n : p[i] = p[j] => i = j
  /\ \A v \in 1..n : \E i \in 1..n : p[i] = v
  /\ \A i, j \in 1..n : i < j => <<p[j], p[i]>> \notin before

\* One more element has its place in what is sorted already.
LEMMA InsertionPoint ==
  ASSUME NEW before, NEW n \in Nat,
         \A a, b, c \in 1..(n + 1) :
           <<b, a>> \notin before /\ <<c, b>> \notin before => <<c, a>> \notin before,
         \A a, b \in 1..(n + 1) : <<a, b>> \in before => <<b, a>> \notin before,
         NEW q, Orders(before, n, q)
  PROVE  \E p : Orders(before, n + 1, p)
<1> DEFINE m == n + 1
           Later == {i \in 1..n : <<m, q[i]>> \in before}
<1>0. /\ q \in [1..n -> 1..n]
      /\ \A i, j \in 1..n : q[i] = q[j] => i = j
      /\ \A v \in 1..n : \E i \in 1..n : q[i] = v
      /\ \A i, j \in 1..n : i < j => <<q[j], q[i]>> \notin before
  BY DEF Orders
<1>1. PICK k \in 1..m : /\ \A i \in 1..n : i < k => <<m, q[i]>> \notin before
                        /\ k <= n => <<m, q[k]>> \in before
  <2>1. CASE Later = {}
    <3>1. \A i \in 1..n : <<m, q[i]>> \notin before
      BY <2>1
    <3>2. m \in 1..m /\ ~(m <= n)
      OBVIOUS
    <3> QED
      BY <3>1, <3>2
  <2>2. CASE Later # {}
    <3>1. Later \in SUBSET Nat
      OBVIOUS
    <3>2. PICK l \in Later : \A i \in Later : l <= i
      BY <2>2, <3>1, NatMin
    <3>3. l \in 1..n /\ l \in 1..m /\ <<m, q[l]>> \in before
      OBVIOUS
    <3>4. ASSUME NEW i \in 1..n, i < l PROVE <<m, q[i]>> \notin before
      <4>1. ~(l <= i)
        BY <3>3, <3>4
      <4> QED
        BY <3>2, <4>1
    <3> QED
      BY <3>3, <3>4
  <2> QED
    BY <2>1, <2>2
<1>2. ASSUME NEW i \in 1..n, i >= k PROVE <<q[i], m>> \notin before
  <2>1. k \in 1..n /\ q[i] \in 1..m /\ q[k] \in 1..m /\ m \in 1..m
    BY <1>0, <1>2
  <2>2. <<q[k], m>> \notin before
    BY <1>1, <2>1
  <2>3. CASE i > k
    <3>1. <<q[i], q[k]>> \notin before
      BY <1>0, <2>1, <2>3
    <3> QED
      BY <2>1, <2>2, <3>1
  <2> QED
    BY <1>2, <2>1, <2>2, <2>3
<1> DEFINE p == [i \in 1..m |-> IF i < k THEN q[i] ELSE IF i = k THEN m ELSE q[i - 1]]
<1>3. ASSUME NEW i \in 1..m
      PROVE  \/ i < k /\ i \in 1..n /\ p[i] = q[i]
             \/ i = k /\ p[i] = m
             \/ i > k /\ i - 1 \in 1..n /\ i - 1 >= k /\ p[i] = q[i - 1]
  OBVIOUS
<1>9. /\ m \in 1..m
      /\ \A l \in 1..n : q[l] \in 1..m /\ q[l] # m
  BY <1>0
<1>4. p \in [1..m -> 1..m]
  <2>1. ASSUME NEW i \in 1..m PROVE p[i] \in 1..m
    <3> HIDE DEF p, m
    <3> QED
      BY <1>3, <1>9
  <2> QED
    BY <2>1
<1>5. ASSUME NEW v \in 1..m PROVE \E i \in 1..m : p[i] = v
  <2>1. CASE v = m
    BY <2>1
  <2>2. CASE v # m
    <3>1. PICK i \in 1..n : q[i] = v
      BY <1>0, <2>2
    <3>2. CASE i < k
      BY <3>1, <3>2
    <3>3. CASE i >= k
      <4>1. i + 1 \in 1..m /\ p[i + 1] = q[i]
        BY <3>3
      <4> QED
        BY <3>1, <4>1
    <3> QED
      BY <3>2, <3>3
  <2> QED
    BY <2>1, <2>2
<1> HIDE DEF p
<1>6. ASSUME NEW i \in 1..m, NEW j \in 1..m, p[i] = p[j] PROVE i = j
  <2>1. CASE i < k /\ j < k
    BY <1>0, <1>3, <1>6, <2>1
  <2>2. CASE i = k /\ j = k
    BY <2>2
  <2>3. CASE i > k /\ j > k
    <3>1. i - 1 = j - 1
      BY <1>0, <1>3, <1>6, <2>3
    <3> QED
      BY <3>1
  <2>4. CASE i < k /\ j > k
    <3>1. i = j - 1
      BY <1>0, <1>3, <1>6, <2>4
    <3> QED
      BY <2>4, <3>1
  <2>5. CASE i > k /\ j < k
    <3>1. i - 1 = j
      BY <1>0, <1>3, <1>6, <2>5
    <3> QED
      BY <2>5, <3>1
  <2>6. CASE (i = k) # (j = k)
    <3> HIDE DEF m
    <3> QED
      BY <1>3, <1>6, <1>9, <2>6
  <2> QED
    BY <2>1, <2>2, <2>3, <2>4, <2>5, <2>6
<1>7. ASSUME NEW i \in 1..m, NEW j \in 1..m, i < j PROVE <<p[j], p[i]>> \notin before
  <2>1. CASE i < k /\ j < k
    BY <1>0, <1>3, <1>7, <2>1
  <2>2. CASE i < k /\ j = k
    BY <1>1, <1>3, <2>2
  <2>3. CASE i < k /\ j > k
    <3>1. i < j - 1 /\ i \in 1..n /\ j - 1 \in 1..n
      BY <2>3
    <3>2. p[i] = q[i] /\ p[j] = q[j - 1]
      BY <1>3, <2>3
    <3>3. <<q[j - 1], q[i]>> \notin before
      BY <1>0, <3>1
    <3> QED
      BY <3>2, <3>3
  <2>4. CASE i = k /\ j > k
    BY <1>2, <1>3, <2>4
  <2>5. CASE i > k /\ j > k
    <3>1. i - 1 < j - 1 /\ i - 1 \in 1..n /\ j - 1 \in 1..n
      BY <1>7, <2>5
    <3>2. p[i] = q[i - 1] /\ p[j] = q[j - 1]
      BY <1>3, <2>5
    <3>3. <<q[j - 1], q[i - 1]>> \notin before
      BY <1>0, <3>1
    <3> QED
      BY <3>2, <3>3
  <2> QED
    BY <1>7, <2>1, <2>2, <2>3, <2>4, <2>5
<1>8. Orders(before, m, p)
  BY <1>4, <1>5, <1>6, <1>7 DEF Orders
<1> QED
  BY <1>8

\* What can be compared can be sorted.
LEMMA OrderExists ==
  ASSUME NEW before, NEW n \in Nat,
         \A a, b, c \in 1..n :
           <<b, a>> \notin before /\ <<c, b>> \notin before => <<c, a>> \notin before,
         \A a, b \in 1..n : <<a, b>> \in before => <<b, a>> \notin before
  PROVE  \E p : Orders(before, n, p)
<1> DEFINE Without == {k \in 0..n : ~ \E p : Orders(before, k, p)}
<1>1. \A k : k \in Without <=> k \in 0..n /\ ~ \E p : Orders(before, k, p)
  OBVIOUS
<1>2. Without \in SUBSET Nat
  OBVIOUS
<1> HIDE DEF Without
<1> SUFFICES ASSUME Without # {} PROVE FALSE
  <2>1. n \in 0..n
    OBVIOUS
  <2> QED
    BY <1>1, <2>1
<1>3. PICK m \in Without : \A k \in Without : m <= k
  BY <1>2, NatMin
<1>4. m \in 0..n /\ ~ \E p : Orders(before, m, p)
  BY <1>1
<1>5. CASE m = 0
  <2> DEFINE p == [i \in 1..0 |-> i]
  <2>1. Orders(before, 0, p)
    BY DEF Orders
  <2> QED
    BY <1>4, <1>5, <2>1
<1>6. CASE m # 0
  <2> DEFINE l == m - 1
  <2>1. l \in 0..n /\ l \in Nat /\ ~(m <= l) /\ m = l + 1 /\ \A a \in 1..(l + 1) : a \in 1..n
    BY <1>4, <1>6
  <2> HIDE DEF l
  <2>2. PICK q : Orders(before, l, q)
    BY <1>1, <1>3, <2>1
  <2>3. /\ \A a, b, c \in 1..(l + 1) :
             <<b, a>> \notin before /\ <<c, b>> \notin before => <<c, a>> \notin before
        /\ \A a, b \in 1..(l + 1) : <<a, b>> \in before => <<b, a>> \notin before
    BY <2>1
  <2>4. \E p : Orders(before, l + 1, p)
    BY <2>1, <2>2, <2>3, InsertionPoint
  <2> QED
    BY <1>4, <2>1, <2>4
<1> QED
  BY <1>5, <1>6

\* The same in terms of Bijection, as Sort asks for it.
LEMMA SortingBijection ==
  ASSUME NEW before, NEW n \in Nat,
         \A a, b, c \in 1..n :
           <<b, a>> \notin before /\ <<c, b>> \notin before => <<c, a>> \notin before,
         \A a, b \in 1..n : <<a, b>> \in before => <<b, a>> \notin before
  PROVE  \E p \in Bijection(1..n, 1..n) :
           \A i, j \in 1..n : i < j => <<p[j], p[i]>> \notin before
<1>1. PICK p : Orders(before, n, p)
  BY OrderExists
<1>2. p \in Bijection(1..n, 1..n)
  BY <1>1 DEF Orders, Bijection, Injection, Surjection, IsInjective
<1> QED
  BY <1>1, <1>2 DEF Orders

Rearranges(sorted, seq, p) == sorted = [i \in DOMAIN seq |-> seq[p[i]]]

\* What rearranging a sequence keeps.
LEMMA Rearranged ==
  ASSUME NEW T, NEW seq \in Seq(T), NEW p \in Bijection(DOMAIN seq, DOMAIN seq),
         NEW sorted, Rearranges(sorted, seq, p)
  PROVE  /\ sorted \in Seq(T) /\ Len(sorted) = Len(seq) /\ DOMAIN sorted = DOMAIN seq
         /\ \A i \in DOMAIN seq : p[i] \in DOMAIN seq /\ sorted[i] = seq[p[i]]
         /\ \A i \in DOMAIN seq : \E j \in DOMAIN seq : seq[i] = sorted[j]
         /\ \A i, j \in DOMAIN seq : p[i] = p[j] => i = j
<1>1. Len(seq) \in Nat /\ DOMAIN seq = 1..Len(seq)
  OBVIOUS
<1>2. /\ p \in [1..Len(seq) -> 1..Len(seq)]
      /\ \A i, j \in 1..Len(seq) : p[i] = p[j] => i = j
      /\ \A v \in 1..Len(seq) : \E i \in 1..Len(seq) : p[i] = v
  BY <1>1 DEF Bijection, Injection, Surjection, IsInjective
<1>3. \A i \in DOMAIN seq : p[i] \in DOMAIN seq /\ sorted[i] = seq[p[i]]
  BY <1>1, <1>2 DEF Rearranges
<1>4. \A i \in DOMAIN seq : \E j \in DOMAIN seq : seq[i] = sorted[j]
  BY <1>1, <1>2, <1>3
<1>5. sorted \in Seq(T) /\ Len(sorted) = Len(seq) /\ DOMAIN sorted = DOMAIN seq
  <2>1. \A i \in 1..Len(seq) : sorted[i] \in T
    BY <1>1, <1>3
  <2>2. sorted \in [1..Len(seq) -> T]
    BY <1>1, <2>1 DEF Rearranges
  <2> QED
    BY <1>1, <2>2
<1> QED
  BY <1>1, <1>2, <1>3, <1>4, <1>5

-----------------------------------------------------------------------------
(* What sequences contain.                                                 *)

LEMMA ConcatContains ==
  ASSUME NEW T, NEW s \in Seq(T), NEW t \in Seq(T)
  PROVE  /\ s \o t \in Seq(T)
         /\ \A x : Contains(s \o t, x) <=> Contains(s, x) \/ Contains(t, x)
<1>1. s \o t \in Seq(T) /\ Len(s \o t) = Len(s) + Len(t) /\ Len(s) \in Nat /\ Len(t) \in Nat
  OBVIOUS
<1>2. \A i \in 1..Len(s \o t) : (s \o t)[i] = IF i <= Len(s) THEN s[i] ELSE t[i - Len(s)]
  OBVIOUS
<1>3. ASSUME NEW x, Contains(s \o t, x) PROVE Contains(s, x) \/ Contains(t, x)
  <2>1. PICK i \in 1..Len(s \o t) : (s \o t)[i] = x
    BY <1>3 DEF Contains
  <2>2. CASE i <= Len(s)
    <3>1. i \in 1..Len(s) /\ s[i] = x
      BY <1>1, <1>2, <2>1, <2>2
    <3> QED
      BY <3>1 DEF Contains
  <2>3. CASE ~(i <= Len(s))
    <3>1. i - Len(s) \in 1..Len(t) /\ t[i - Len(s)] = x
      BY <1>1, <1>2, <2>1, <2>3
    <3> QED
      BY <3>1 DEF Contains
  <2> QED
    BY <2>2, <2>3
<1>4. ASSUME NEW x, Contains(s, x) PROVE Contains(s \o t, x)
  <2>1. PICK i \in 1..Len(s) : s[i] = x
    BY <1>4 DEF Contains
  <2>2. i \in 1..Len(s \o t) /\ (s \o t)[i] = x
    BY <1>1, <1>2, <2>1
  <2> QED
    BY <2>2 DEF Contains
<1>5. ASSUME NEW x, Contains(t, x) PROVE Contains(s \o t, x)
  <2>1. PICK i \in 1..Len(t) : t[i] = x
    BY <1>5 DEF Contains
  <2>2. i + Len(s) \in 1..Len(s \o t) /\ (s \o t)[i + Len(s)] = x
    BY <1>1, <1>2, <2>1
  <2> QED
    BY <2>2 DEF Contains
<1> QED
  BY <1>1, <1>3, <1>4, <1>5

\* A concatenation repeats nothing when neither part does and they share nothing.
LEMMA ConcatInjective ==
  ASSUME NEW T, NEW s \in Seq(T), NEW t \in Seq(T)
  PROVE  IsInjective(s \o t) <=> /\ IsInjective(s) /\ IsInjective(t)
                                 /\ \A x : ~(Contains(s, x) /\ Contains(t, x))
<1> DEFINE a == Len(s)
           b == Len(t)
           both == s \o t
<1>1. /\ a \in Nat /\ b \in Nat /\ DOMAIN s = 1..a /\ DOMAIN t = 1..b
      /\ DOMAIN both = 1..(a + b)
      /\ \A i \in 1..(a + b) : both[i] = IF i <= a THEN s[i] ELSE t[i - a]
  OBVIOUS
<1>2. /\ \A x : Contains(s, x) <=> \E i \in 1..a : s[i] = x
      /\ \A x : Contains(t, x) <=> \E i \in 1..b : t[i] = x
  BY DEF Contains
<1> HIDE DEF a, b, both
<1>3. /\ \A i \in 1..a : i \in 1..(a + b) /\ both[i] = s[i]
      /\ \A i \in 1..b : i + a \in 1..(a + b) /\ i + a \notin 1..a /\ both[i + a] = t[i]
  BY <1>1
<1>4. ASSUME IsInjective(both)
      PROVE  /\ IsInjective(s) /\ IsInjective(t)
             /\ \A x : ~(Contains(s, x) /\ Contains(t, x))
  <2>1. IsInjective(s)
    BY <1>1, <1>3, <1>4 DEF IsInjective
  <2>2. ASSUME NEW i \in 1..b, NEW j \in 1..b, t[i] = t[j] PROVE i = j
    <3>1. i + a = j + a
      BY <1>1, <1>3, <1>4, <2>2 DEF IsInjective
    <3> QED
      BY <1>1, <3>1
  <2>3. ASSUME NEW i \in 1..a, NEW j \in 1..b PROVE s[i] # t[j]
    BY <1>1, <1>3, <1>4 DEF IsInjective
  <2> QED
    BY <1>1, <1>2, <2>1, <2>2, <2>3 DEF IsInjective
<1>5. ASSUME IsInjective(s), IsInjective(t), \A x : ~(Contains(s, x) /\ Contains(t, x)),
             NEW i \in 1..(a + b), NEW j \in 1..(a + b), both[i] = both[j]
      PROVE  i = j
  <2>1. \A k \in 1..(a + b) : /\ k <= a => k \in 1..a /\ both[k] = s[k]
                              /\ ~(k <= a) => k - a \in 1..b /\ both[k] = t[k - a]
    BY <1>1
  <2>2. CASE i <= a /\ j <= a
    BY <1>1, <1>5, <2>1, <2>2 DEF IsInjective
  <2>3. CASE ~(i <= a) /\ ~(j <= a)
    <3>1. i - a = j - a
      BY <1>1, <1>5, <2>1, <2>3 DEF IsInjective
    <3> QED
      BY <1>1, <3>1
  <2>4. ASSUME NEW k \in 1..(a + b), NEW l \in 1..(a + b), k <= a, ~(l <= a) PROVE both[k] # both[l]
    <3>1. Contains(s, both[k]) /\ Contains(t, both[l])
      BY <1>2, <2>1, <2>4
    <3> QED
      BY <1>5, <3>1
  <2> QED
    BY <1>5, <2>2, <2>3, <2>4
<1>6. IsInjective(s) /\ IsInjective(t) /\ (\A x : ~(Contains(s, x) /\ Contains(t, x)))
        => IsInjective(both)
  BY <1>1, <1>5 DEF IsInjective
<1> QED
  BY <1>4, <1>6 DEF both

\* All the elements of a finite set, in some order.
LEMMA SetToSeqContains ==
  ASSUME NEW S, IsFiniteSet(S)
  PROVE  /\ SetToSeq(S) \in Seq(S)
         /\ \A x : Contains(SetToSeq(S), x) <=> x \in S
<1> DEFINE n == Cardinality(S)
           f == SetToSeq(S)
<1>1. n \in Nat /\ \E g : g \in Bijection(1..n, S)
  BY FS_CardinalityType DEF ExistsBijection
<1>2. f \in [1..n -> S] /\ IsInjective(f)
  BY <1>1 DEF SetToSeq, Bijection, Injection
<1>3. IsFiniteSet(1..n) /\ Cardinality(1..n) = n
  <2>1. 1 \in Int /\ n \in Int /\ ~(1 > n) => n - 1 + 1 = n
    BY <1>1
  <2> QED
    BY <1>1, <2>1, FS_Interval
<1> HIDE DEF f, n
<1>4. f \in Injection(1..n, S)
  BY <1>2 DEF Injection
<1>5. f \in Surjection(1..n, S)
  BY <1>3, <1>4, FS_Injection DEF n
<1>6. f \in Seq(S) /\ Len(f) = n
  BY <1>1, <1>2
<1>7. \A x : Contains(f, x) <=> x \in S
  BY <1>2, <1>5, <1>6 DEF Contains, Surjection
<1> QED
  BY <1>6, <1>7 DEF f

\* In whatever order they come.
LEMMA SetToSeqsContains ==
  ASSUME NEW S, IsFiniteSet(S), NEW f \in SetToSeqs(S)
  PROVE  /\ f \in Seq(S) /\ IsInjective(f)
         /\ \A x : Contains(f, x) <=> x \in S
<1> DEFINE n == Cardinality(S)
<1>1. n \in Nat
  BY FS_CardinalityType
<1>2. f \in [1..n -> S] /\ IsInjective(f)
  BY DEF SetToSeqs, IsInjective
<1>3. IsFiniteSet(1..n) /\ Cardinality(1..n) = n
  <2>1. 1 \in Int /\ n \in Int /\ ~(1 > n) => n - 1 + 1 = n
    BY <1>1
  <2> QED
    BY <1>1, <2>1, FS_Interval
<1> HIDE DEF n
<1>4. f \in Injection(1..n, S)
  BY <1>2 DEF Injection
<1>5. f \in Surjection(1..n, S)
  BY <1>3, <1>4, FS_Injection DEF n
<1>6. f \in Seq(S) /\ Len(f) = n
  BY <1>1, <1>2
<1>7. \A x : Contains(f, x) <=> x \in S
  BY <1>2, <1>5, <1>6 DEF Contains, Surjection
<1> QED
  BY <1>2, <1>6, <1>7

\* The first sequences repeat nothing, neither one of them nor two.
Apart(seqs, m) ==
  /\ \A k \in 1..m : IsInjective(seqs[k])
  /\ \A k, l \in 1..m : k # l => \A x : ~(Contains(seqs[k], x) /\ Contains(seqs[l], x))

\* FlattenSeq, by a least counterexample on the prefixes.
LEMMA FlattenContains ==
  ASSUME NEW T, NEW seqs \in Seq(Seq(T))
  PROVE  /\ FlattenSeq(seqs) \in Seq(T)
         /\ \A x : Contains(FlattenSeq(seqs), x) <=> \E k \in DOMAIN seqs : Contains(seqs[k], x)
         /\ IsInjective(FlattenSeq(seqs)) <=> Apart(seqs, Len(seqs))
<1> DEFINE n == Len(seqs)
           Flattens(f, k) ==
             f = [i \in 1..k |-> IF i = 1 THEN seqs[i] ELSE f[i - 1] \o seqs[i]]
<1>0. n \in Nat /\ DOMAIN seqs = 1..n /\ \A i \in 1..n : seqs[i] \in Seq(T)
  OBVIOUS
<1>1. CASE n = 0
  <2>1. seqs = <<>> /\ FlattenSeq(seqs) = seqs
    BY <1>1 DEF FlattenSeq
  <2>2. \A x : ~Contains(<<>>, x)
    BY DEF Contains
  <2>3. DOMAIN seqs = {} /\ <<>> \in Seq(T) /\ 1..n = {}
    BY <1>0, <1>1
  <2>4. IsInjective(FlattenSeq(seqs)) /\ Apart(seqs, n)
    <3> HIDE DEF n
    <3> QED
      BY <2>1, <2>3 DEF IsInjective, Apart
  <2> HIDE DEF n
  <2> QED
    BY <2>1, <2>2, <2>3, <2>4 DEF n
<1>2. CASE n # 0
  <2>1. ASSUME NEW k \in 0..n PROVE \E f : Flattens(f, k)
    <3> DEFINE Without == {m \in 0..n : ~ \E f : Flattens(f, m)}
    <3> SUFFICES ASSUME Without # {} PROVE FALSE
      OBVIOUS
    <3>3. \A l : l \in Without <=> l \in 0..n /\ ~ \E f : Flattens(f, l)
      OBVIOUS
    <3> HIDE DEF Without
    <3>1. Without \in SUBSET Nat
      <4> HIDE DEF n, Flattens
      <4> QED
        BY <1>0, <3>3
    <3>2. PICK m \in Without : \A l \in Without : m <= l
      BY <3>1, NatMin
    <3>4. m \in 0..n /\ ~ \E f : Flattens(f, m)
      BY <3>3
    <3>5. CASE m = 0
      <4> DEFINE f == [i \in 1..m |-> <<>>]
      <4>1. Flattens(f, m)
        BY <3>5
      <4> QED
        BY <3>4, <4>1
    <3>6. CASE m # 0
      <4>1. m - 1 \in 0..n /\ m - 1 \notin Without
        <5> HIDE DEF n, Flattens
        <5>1. m \in Nat /\ m <= n /\ ~(m <= m - 1)
          BY <1>0, <3>4
        <5> QED
          BY <1>0, <3>2, <3>6, <5>1
      <4>2. PICK f : Flattens(f, m - 1)
        BY <3>3, <4>1
      <4> HIDE DEF n
      <4> DEFINE last == IF m = 1 THEN seqs[m] ELSE f[m - 1] \o seqs[m]
                 g == [i \in 1..m |-> IF i < m THEN f[i] ELSE last]
      <4>5. m \in Nat \ {0} /\ \A i \in 1..m : i < m => i \in 1..(m - 1)
        BY <3>4, <3>6
      <4>6. \A i \in 1..(m - 1) : f[i] = IF i = 1 THEN seqs[i] ELSE f[i - 1] \o seqs[i]
        BY <4>2
      <4>3. ASSUME NEW i \in 1..m
            PROVE  g[i] = IF i = 1 THEN seqs[i] ELSE g[i - 1] \o seqs[i]
        <5>1. CASE i < m
          <6>1. g[i] = f[i] /\ i \in 1..(m - 1)
            BY <4>5, <5>1
          <6>2. i # 1 => g[i - 1] = f[i - 1]
            BY <4>5, <5>1
          <6> HIDE DEF g
          <6> QED
            BY <4>6, <6>1, <6>2
        <5>2. CASE i = m
          <6>1. g[i] = last
            BY <4>5, <5>2
          <6>2. i # 1 => g[i - 1] = f[m - 1]
            BY <4>5, <5>2
          <6> HIDE DEF g
          <6> QED
            BY <5>2, <6>1, <6>2
        <5> QED
          BY <4>5, <5>1, <5>2
      <4>4. Flattens(g, m)
        BY <4>3
      <4> QED
        BY <3>4, <4>4
    <3> QED
      BY <3>5, <3>6
  <2> DEFINE flatten == CHOOSE f : Flattens(f, n)
  <2>2. Flattens(flatten, n)
    <3>1. n \in 0..n
      BY <1>0
    <3>2. \E f : Flattens(f, n)
      BY <2>1, <3>1
    <3> HIDE DEF Flattens
    <3> QED
      BY <3>2
  <2>3. FlattenSeq(seqs) = flatten[n]
    BY <1>2 DEF FlattenSeq
  <2> HIDE DEF flatten
  <2>4. \A i \in 1..n : flatten[i] = IF i = 1 THEN seqs[i] ELSE flatten[i - 1] \o seqs[i]
    BY <2>2
  <2> HIDE DEF n, Flattens
  <2> DEFINE Flat(m) == /\ flatten[m] \in Seq(T)
                        /\ \A x : Contains(flatten[m], x) <=> \E k \in 1..m : Contains(seqs[k], x)
                        /\ IsInjective(flatten[m]) <=> Apart(seqs, m)
  <2>5. ASSUME NEW k \in 1..n PROVE Flat(k)
    <3> DEFINE Bad == {m \in 1..n : ~Flat(m)}
    <3> HIDE DEF Flat
    <3> SUFFICES ASSUME Bad # {} PROVE FALSE
      OBVIOUS
    <3>1. Bad \in SUBSET Nat /\ \A l : l \in Bad <=> l \in 1..n /\ ~Flat(l)
      BY <1>0
    <3> HIDE DEF Bad
    <3>2. PICK m \in Bad : \A l \in Bad : m <= l
      BY <3>1, NatMin
    <3>3. m \in 1..n /\ ~Flat(m)
      BY <3>1
    <3>4. CASE m = 1
      <4>1. flatten[m] = seqs[m] /\ seqs[m] \in Seq(T)
        BY <1>0, <2>4, <3>3, <3>4
      <4> DEFINE D == 1..m
      <4>2. \A j : j \in D <=> j = m
        BY <3>4
      <4> HIDE DEF D
      <4>3. \A x : Contains(flatten[m], x) <=> \E j \in D : Contains(seqs[j], x)
        BY <4>1, <4>2
      <4>5. Apart(seqs, m) <=> IsInjective(seqs[m])
        <5>1. Apart(seqs, m) <=>
                /\ \A j \in D : IsInjective(seqs[j])
                /\ \A i, j \in D : i # j => \A x : ~(Contains(seqs[i], x) /\ Contains(seqs[j], x))
          BY DEF Apart, D
        <5>2. D = {m}
          BY <4>2
        <5> QED
          BY <5>1, <5>2
      <4>4. Flat(m)
        BY <4>1, <4>3, <4>5 DEF Flat, D
      <4> QED
        BY <3>3, <4>4
    <3>5. CASE m # 1
      <4> DEFINE l == m - 1
      <4>1. l \in 1..n /\ ~(m <= l) /\ \A j : j \in 1..m <=> j \in 1..l \/ j = m
        BY <1>0, <3>3, <3>5
      <4>2. flatten[m] = flatten[l] \o seqs[m] /\ seqs[m] \in Seq(T)
        BY <1>0, <2>4, <3>3, <3>5
      <4> HIDE DEF l
      <4>3. Flat(l)
        BY <3>1, <3>2, <4>1
      <4>4. /\ flatten[m] \in Seq(T)
            /\ \A x : Contains(flatten[m], x) <=> Contains(flatten[l], x) \/ Contains(seqs[m], x)
        BY <4>2, <4>3, ConcatContains DEF Flat
      <4>5. \A x : Contains(flatten[l], x) <=> \E j \in 1..l : Contains(seqs[j], x)
        BY <4>3 DEF Flat
      <4>6. \A x : Contains(flatten[m], x) <=> \E j \in 1..m : Contains(seqs[j], x)
        BY <4>1, <4>4, <4>5
      <4>8. IsInjective(flatten[m]) <=>
              /\ IsInjective(flatten[l]) /\ IsInjective(seqs[m])
              /\ \A x : ~(Contains(flatten[l], x) /\ Contains(seqs[m], x))
        BY <4>2, <4>3, ConcatInjective DEF Flat
      <4>9. Apart(seqs, m) <=>
              /\ Apart(seqs, l) /\ IsInjective(seqs[m])
              /\ \A j \in 1..l : \A x : ~(Contains(seqs[j], x) /\ Contains(seqs[m], x))
        <5> DEFINE D == 1..m
                   E == 1..l
        <5>1. (\A j : j \in D <=> j \in E \/ j = m) /\ m \notin E
          BY <1>0, <3>3, <4>1 DEF l
        <5> HIDE DEF D, E
        <5> QED
          BY <5>1, Zenon DEF Apart, D, E
      <4>10. IsInjective(flatten[m]) <=> Apart(seqs, m)
        <5>1. (\A x : ~(Contains(flatten[l], x) /\ Contains(seqs[m], x))) <=>
                \A j \in 1..l : \A x : ~(Contains(seqs[j], x) /\ Contains(seqs[m], x))
          BY <4>5
        <5> QED
          BY <4>3, <4>8, <4>9, <5>1 DEF Flat
      <4>7. Flat(m)
        BY <4>4, <4>6, <4>10 DEF Flat
      <4> QED
        BY <3>3, <4>7
    <3> QED
      BY <3>4, <3>5
  <2>6. n \in 1..n
    BY <1>0, <1>2
  <2>7. Flat(n)
    BY <2>5, <2>6
  <2> QED
    BY <1>0, <2>3, <2>7 DEF n
<1> QED
  BY <1>1, <1>2
=============================================================================
