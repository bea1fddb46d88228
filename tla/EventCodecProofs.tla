-------------------------- MODULE EventCodecProofs --------------------------
(***************************************************************************)
(* Proofs about the codec of the WebSocket handler, for any event types,   *)
(* IDs, profile, numbers and width of the significand: what the profile    *)
(* lets through is what the payload says, and what a float64 does to a     *)
(* number is to take the nearest one it can hold.                          *)
(***************************************************************************)
EXTENDS MCEventCodec, OrderLemmas

-----------------------------------------------------------------------------
(* Powers of two.                                                          *)

\* The provers know 2^n only as the number of subsets of 1..n.
LEMMA SubsetsOf ==
  ASSUME NEW n \in Nat
  PROVE  /\ IsFiniteSet(SUBSET (1..n))
         /\ Cardinality(SUBSET (1..n)) = 2^n
         /\ 2^n \in Nat
<1>1. IsFiniteSet(1..n) /\ Cardinality(1..n) = n
  BY FS_Interval
<1>2. IsFiniteSet(SUBSET (1..n)) /\ Cardinality(SUBSET (1..n)) = 2^n
  BY <1>1, FS_SUBSET
<1> QED
  BY <1>2, FS_CardinalityType

LEMMA PowerZero == 2^0 = 1
<1>1. SUBSET (1..0) = {{}}
  OBVIOUS
<1> QED
  BY <1>1, SubsetsOf, FS_Singleton

\* A subset of 1..n+1 is one of 1..n, with or without n+1.
LEMMA PowerNext ==
  ASSUME NEW n \in Nat
  PROVE  2^(n + 1) = 2^n + 2^n
<1> DEFINE Old == SUBSET (1..n)
           New == {s \cup {n + 1} : s \in Old}
           f == [s \in Old |-> s \cup {n + 1}]
<1>1. SUBSET (1..(n + 1)) = Old \cup New
  <2>1. ASSUME NEW s \in SUBSET (1..(n + 1)) PROVE s \in Old \cup New
    <3>1. CASE n + 1 \in s
      <4>1. s \ {n + 1} \in Old /\ s = (s \ {n + 1}) \cup {n + 1}
        BY <3>1
      <4> QED
        BY <4>1
    <3>2. CASE n + 1 \notin s
      BY <3>2
    <3> QED
      BY <3>1, <3>2
  <2>2. ASSUME NEW s \in Old
        PROVE  s \in SUBSET (1..(n + 1)) /\ s \cup {n + 1} \in SUBSET (1..(n + 1))
    OBVIOUS
  <2>3. ASSUME NEW s \in Old \cup New PROVE s \in SUBSET (1..(n + 1))
    BY <2>2
  <2> HIDE DEF Old, New
  <2> QED
    BY <2>1, <2>3
<1>2. Old \cap New = {}
  OBVIOUS
<1>3. f \in Bijection(Old, New)
  <2>1. f \in [Old -> New]
    OBVIOUS
  <2>2. ASSUME NEW s \in Old, NEW t \in Old, f[s] = f[t] PROVE s = t
    <3>1. s \cup {n + 1} = t \cup {n + 1} /\ n + 1 \notin s /\ n + 1 \notin t
      BY <2>2
    <3> QED
      BY <3>1
  <2>3. \A y \in New : \E s \in Old : f[s] = y
    OBVIOUS
  <2> QED
    BY <2>1, <2>2, <2>3 DEF Bijection, Injection, Surjection, IsInjective
<1>4. ExistsBijection(Old, New)
  BY <1>3 DEF ExistsBijection
<1>5. IsFiniteSet(Old) /\ Cardinality(Old) = 2^n /\ 2^n \in Nat
  BY SubsetsOf
<1> HIDE DEF Old, New
<1>6. IsFiniteSet(New) /\ Cardinality(New) = 2^n
  BY <1>4, <1>5, FS_Bijection
<1>7. Cardinality(Old \cup New) = 2^n + 2^n
  <2>1. Cardinality(Old \cap New) = 0
    BY <1>2, FS_EmptySet
  <2> QED
    BY <1>5, <1>6, <2>1, FS_Union
<1>8. Cardinality(SUBSET (1..(n + 1))) = 2^(n + 1)
  BY SubsetsOf, n + 1 \in Nat
<1> QED
  BY <1>1, <1>7, <1>8

LEMMA PowerFacts ==
  ASSUME NEW n \in Nat
  PROVE  2^n \in Nat /\ n < 2^n
<1>1. 2^n \in Nat
  BY SubsetsOf
<1> DEFINE Small == {m \in Nat : ~(m < 2^m)}
<1>2. Small = {}
  <2> SUFFICES ASSUME Small # {} PROVE FALSE
    OBVIOUS
  <2>1. PICK m \in Small : \A l \in Small : m <= l
    BY NatMin
  <2>2. m # 0
    <3>1. m = 0 => ~(0 < 2^0)
      BY <2>1
    <3> QED
      BY <3>1, PowerZero
  <2>3. m - 1 \in Nat /\ m - 1 \notin Small
    BY <2>1, <2>2
  <2>4. m - 1 < 2^(m - 1)
    BY <2>3
  <2>5. 2^((m - 1) + 1) = 2^(m - 1) + 2^(m - 1)
    BY <2>3, PowerNext
  <2>6. (m - 1) + 1 = m
    OBVIOUS
  <2>7. 2^m = 2^(m - 1) + 2^(m - 1)
    BY <2>5, <2>6
  <2>8. 2^(m - 1) \in Nat
    BY <2>3, SubsetsOf
  <2>9. m < 2^m
    <3> DEFINE p == 2^(m - 1)
    <3>1. p \in Nat /\ m - 1 < p /\ 2^m = p + p
      BY <2>4, <2>7, <2>8
    <3> HIDE DEF p
    <3> QED
      BY <2>2, <3>1
  <2> QED
    BY <2>1, <2>9
<1> QED
  BY <1>1, <1>2

\* 2^(m + n) = 2^m * 2^n.
LEMMA PowerSum ==
  ASSUME NEW m \in Nat, NEW n \in Nat
  PROVE  2^(m + n) = 2^m * 2^n
<1> DEFINE Wrong == {k \in Nat : 2^(m + k) # 2^m * 2^k}
<1>1. Wrong = {}
  <2> SUFFICES ASSUME Wrong # {} PROVE FALSE
    OBVIOUS
  <2>1. PICK k \in Wrong : \A l \in Wrong : k <= l
    BY NatMin
  <2>2. k # 0
    <3>1. 2^m * 1 = 2^m /\ m + 0 = m
      BY SubsetsOf
    <3> QED
      BY <2>1, <3>1, PowerZero
  <2>3. k - 1 \in Nat /\ k - 1 \notin Wrong
    BY <2>1, <2>2
  <2>4. 2^(m + (k - 1)) = 2^m * 2^(k - 1)
    BY <2>3
  <2>5. 2^((k - 1) + 1) = 2^(k - 1) + 2^(k - 1) /\ (k - 1) + 1 = k
    BY <2>3, PowerNext
  <2>6. /\ 2^((m + (k - 1)) + 1) = 2^(m + (k - 1)) + 2^(m + (k - 1))
        /\ (m + (k - 1)) + 1 = m + k
    BY <2>3, PowerNext
  <2> DEFINE p == 2^(k - 1)
             q == 2^m
  <2>7. p \in Nat /\ q \in Nat
    BY <2>3, SubsetsOf
  <2>8. 2^k = p + p
    BY <2>5
  <2>9. 2^(m + k) = q * p + q * p
    BY <2>4, <2>6
  <2>10. q * (p + p) = q * p + q * p
    <3> HIDE DEF p, q
    <3> QED
      BY <2>7
  <2> QED
    BY <2>1, <2>8, <2>9, <2>10
<1> QED
  BY <1>1

-----------------------------------------------------------------------------
(* Rounding.                                                               *)

LEMMA ProductGrows ==
  ASSUME NEW a \in Nat, NEW b \in Nat, NEW c \in Nat, a <= b
  PROVE  a * c <= b * c
  OBVIOUS

LEMMA Division ==
  ASSUME NEW n \in Nat, NEW u \in Nat, u > 0
  PROVE  /\ n \div u \in Nat /\ n % u \in Nat /\ n % u < u
         /\ n = (n \div u) * u + (n % u)
<1>1. n % u \in Nat /\ n % u < u
  BY SMTT(20)
<1>3. n \div u \in Nat
  BY SMTT(20)
<1>2. n = (n \div u) * u + (n % u)
  BY SMTT(20)
<1> QED
  BY <1>1, <1>2, <1>3

\* How many of its last bits a number has beyond the significand.
Excess(n) ==
  CHOOSE k \in 0..n : /\ n < 2^(MantissaBits + k)
                      /\ k = 0 \/ n >= 2^(MantissaBits + k - 1)

\* There is such a number of bits: the least k with n < 2^(MantissaBits + k).
LEMMA ExcessIs ==
  ASSUME NEW n \in Nat
  PROVE  /\ Excess(n) \in 0..n
         /\ n < 2^(MantissaBits + Excess(n))
         /\ Excess(n) = 0 \/ n >= 2^(MantissaBits + Excess(n) - 1)
<1> USE CodecAssumption
<1> DEFINE Enough == {k \in 0..n : n < 2^(MantissaBits + k)}
<1>1. n \in Enough
  <2>1. MantissaBits + n \in Nat
    OBVIOUS
  <2> DEFINE p == 2^(MantissaBits + n)
  <2>2. MantissaBits + n < p /\ p \in Nat
    BY <2>1, PowerFacts
  <2>3. n < p
    <3> HIDE DEF p
    <3> QED
      BY <2>2
  <2>4. n \in 0..n /\ n < 2^(MantissaBits + n)
    BY <2>3
  <2> QED
    BY <2>4
<1>2. PICK k \in Enough : \A l \in Enough : k <= l
  <2>1. \A l \in Enough : l \in Nat
    OBVIOUS
  <2> HIDE DEF Enough
  <2>2. Enough \in SUBSET Nat /\ Enough # {}
    BY <1>1, <2>1
  <2> QED
    BY <2>2, NatMin
<1>3. k = 0 \/ n >= 2^(MantissaBits + k - 1)
  <2> SUFFICES ASSUME k # 0 PROVE n >= 2^(MantissaBits + k - 1)
    OBVIOUS
  <2>1. k - 1 \in 0..n /\ k - 1 \notin Enough
    BY <1>2
  <2>2. ~(n < 2^(MantissaBits + (k - 1)))
    BY <2>1
  <2>3. MantissaBits + (k - 1) = MantissaBits + k - 1 /\ MantissaBits + k - 1 \in Nat
    BY <1>2
  <2>4. 2^(MantissaBits + k - 1) \in Nat
    BY <2>3, PowerFacts
  <2> QED
    BY <2>2, <2>3, <2>4
<1>4. \E l \in 0..n : n < 2^(MantissaBits + l) /\ (l = 0 \/ n >= 2^(MantissaBits + l - 1))
  BY <1>2, <1>3
<1> QED
  BY <1>4 DEF Excess

\* What Float64 computes: a number that fits stays, any other is cut off at
\* its last unit or taken to the next one, whichever is nearer.
LEMMA Float64Is ==
  ASSUME NEW n \in Nat
  PROVE  \E e, u, q, r \in Nat :
           /\ e <= n /\ u = 2^e /\ u > 0 /\ n = q * u + r /\ r < u
           /\ n < 2^(MantissaBits + e)
           /\ e > 0 => n >= 2^(MantissaBits + e - 1)
           /\ \/ Float64(n) = q * u /\ 2 * r <= u
              \/ Float64(n) = (q + 1) * u /\ 2 * r >= u /\ e > 0
<1> DEFINE e == Excess(n)
           u == 2^e
           q == n \div u
           r == n % u
           up == 2 * r > u \/ (2 * r = u /\ q % 2 = 1)
<1>1. /\ e \in Nat /\ e <= n /\ n < 2^(MantissaBits + e)
      /\ e > 0 => n >= 2^(MantissaBits + e - 1)
  BY ExcessIs
<1>2. Float64(n) = IF e = 0 THEN n ELSE (IF up THEN q + 1 ELSE q) * u
  BY DEF Float64, Excess
<1> HIDE DEF e
<1>3. u \in Nat /\ u > 0
  BY <1>1, PowerFacts
<1>4. q \in Nat /\ r \in Nat /\ r < u /\ n = q * u + r
  BY <1>3, Division
<1>5. u = 2^e
  OBVIOUS
<1>6. e = 0 => u = 1 /\ r = 0 /\ q = n
  <2>1. e = 0 => u = 1
    BY PowerZero
  <2> HIDE DEF u, q, r
  <2> QED
    BY <1>4, <2>1
<1> HIDE DEF u, q, r
<1>7. \/ Float64(n) = q * u /\ 2 * r <= u
      \/ Float64(n) = (q + 1) * u /\ 2 * r >= u /\ e > 0
  <2>1. CASE e = 0
    <3>1. Float64(n) = n /\ n = q * u /\ r = 0
      BY <1>2, <1>3, <1>4, <1>6, <2>1
    <3> QED
      BY <1>3, <3>1
  <2>2. CASE e # 0 /\ up
    BY <1>1, <1>2, <1>3, <1>4, <2>2
  <2>3. CASE e # 0 /\ ~up
    BY <1>1, <1>2, <1>3, <1>4, <2>3
  <2> QED
    BY <2>1, <2>2, <2>3
<1> QED
  BY <1>1, <1>3, <1>4, <1>5, <1>7

\* A number with MantissaBits significant bits is a multiple of the unit, or
\* below all numbers that have a larger one.
LEMMA RepresentableIs ==
  ASSUME NEW x \in Representable, MaxExtra \in Nat, NEW e \in Nat
  PROVE  /\ x \in Nat
         /\ \/ \E j \in Nat : x = j * 2^e
            \/ e > 0 /\ x < 2^(MantissaBits + e - 1)
<1>1. PICK m \in 0..(2^MantissaBits - 1), k \in 0..MaxExtra : x = m * 2^k
  BY DEF Representable
<1> DEFINE top == 2^MantissaBits
           p == 2^k
<1>2. top \in Nat /\ p \in Nat /\ m \in Nat /\ m <= top - 1 /\ k \in Nat /\ x = m * p
  BY <1>1, PowerFacts, CodecAssumption
<1>3. x \in Nat
  <2> HIDE DEF top, p
  <2> QED
    BY <1>2
<1>4. CASE e <= k
  <2>1. k - e \in Nat /\ k = (k - e) + e
    BY <1>2, <1>4
  <2>2. 2^k = 2^(k - e) * 2^e
    BY <2>1, PowerSum
  <2> DEFINE a == 2^(k - e)
             u == 2^e
  <2>3. a \in Nat /\ u \in Nat
    BY <2>1, PowerFacts
  <2>4. x = m * (a * u)
    BY <1>1, <2>2
  <2>5. m * a \in Nat /\ m * (a * u) = (m * a) * u
    <3> HIDE DEF a, u
    <3> QED
      BY <1>2, <2>3
  <2>6. x = (m * a) * 2^e
    BY <2>4, <2>5
  <2> QED
    BY <1>3, <2>5, <2>6
<1>5. CASE k < e
  <2> USE CodecAssumption
  <2>1. e - 1 - k \in Nat /\ MantissaBits + k \in Nat /\ MantissaBits \in Nat
        /\ MantissaBits + e - 1 = (MantissaBits + k) + (e - 1 - k)
    BY <1>2, <1>5
  <2> DEFINE b == 2^(e - 1 - k)
  <2>2. b \in Nat /\ b >= 1
    BY <2>1, PowerFacts
  <2>3. 2^(MantissaBits + k) = top * p
    BY <1>2, <2>1, PowerSum
  <2>4. 2^(MantissaBits + e - 1) = (top * p) * b
    BY <2>1, <2>3, PowerSum
  <2>5. p >= 1
    BY <1>2, PowerFacts
  <2>6. m * p < (top * p) * b
    <3> HIDE DEF top, p, b
    <3>1. (m + 1) * p <= top * p
      BY <1>2, ProductGrows
    <3>2. m * p < top * p
      BY <1>2, <2>5, <3>1
    <3>3. top * p \in Nat /\ 1 * (top * p) <= b * (top * p)
      BY <1>2, <2>2, ProductGrows
    <3>4. (top * p) * b = b * (top * p) /\ 1 * (top * p) = top * p
      BY <1>2, <2>2
    <3> QED
      <4> DEFINE y == m * p
                 z == top * p
                 w == b * (top * p)
      <4>1. y \in Nat /\ z \in Nat /\ w \in Nat /\ y < z /\ z <= w
        BY <1>2, <2>2, <3>2, <3>3, <3>4
      <4> HIDE DEF y, z, w
      <4>2. y < w
        BY <4>1
      <4> QED
        BY <3>4, <4>2 DEF y, w
  <2> QED
    BY <1>1, <1>3, <1>5, <2>4, <2>6
<1> QED
  BY <1>2, <1>4, <1>5

\* Of the multiples of a unit, and of what is below a number cut off, none is
\* nearer than the one chosen.
LEMMA NearestMultiple ==
  ASSUME NEW q \in Nat, NEW u \in Nat, NEW r \in Nat, NEW n \in Nat, NEW x \in Nat,
         n = q * u + r, r < u,
         x <= q * u \/ \E j \in Nat : x = j * u
  PROVE  /\ 2 * r <= u => Distance(n, q * u) <= Distance(n, x)
         /\ 2 * r >= u => Distance(n, (q + 1) * u) <= Distance(n, x)
<1> DEFINE low == q * u
           high == (q + 1) * u
<1>1. low \in Nat /\ high = low + u /\ n = low + r
  OBVIOUS
<1>2. x <= low \/ x >= high
  <2> SUFFICES ASSUME NEW j \in Nat, x = j * u PROVE x <= low \/ x >= high
    OBVIOUS
  <2>1. j <= q \/ q + 1 <= j
    OBVIOUS
  <2>2. CASE j <= q
    BY <2>2, ProductGrows
  <2>3. CASE q + 1 <= j
    BY <2>3, ProductGrows
  <2> QED
    BY <2>1, <2>2, <2>3
<1> HIDE DEF low, high
<1>3. /\ 2 * r <= u => Distance(n, low) <= Distance(n, x)
      /\ 2 * r >= u => Distance(n, high) <= Distance(n, x)
  BY <1>1, <1>2 DEF Distance
<1> QED
  BY <1>3 DEF low, high

\* Between cutting off and the next unit Float64 finds the nearest number with
\* MantissaBits significant bits, and its result is one, carry included.
LEMMA Float64IsNearest ==
  ASSUME MaxExtra \in Nat, NEW n \in 0..MaxExtra
  PROVE  /\ Float64(n) \in Representable
         /\ \A x \in Representable : Distance(n, Float64(n)) <= Distance(n, x)
<1>1. n \in Nat /\ MantissaBits \in Nat /\ MantissaBits >= 1
  BY CodecAssumption
<1>2. PICK e, u, q, r \in Nat :
        /\ e <= n /\ u = 2^e /\ u > 0 /\ n = q * u + r /\ r < u
        /\ n < 2^(MantissaBits + e)
        /\ e > 0 => n >= 2^(MantissaBits + e - 1)
        /\ \/ Float64(n) = q * u /\ 2 * r <= u
           \/ Float64(n) = (q + 1) * u /\ 2 * r >= u /\ e > 0
  BY <1>1, Float64Is
<1> DEFINE top == 2^MantissaBits
           half == 2^(MantissaBits - 1)
<1>3. /\ top \in Nat /\ half \in Nat /\ half >= 1
      /\ top = half + half
  <2>1. MantissaBits - 1 \in Nat /\ (MantissaBits - 1) + 1 = MantissaBits
    BY <1>1
  <2>2. 2^((MantissaBits - 1) + 1) = half + half
    BY <2>1, PowerNext
  <2>3. half \in Nat /\ MantissaBits - 1 < half
    BY <2>1, PowerFacts
  <2>4. half >= 1
    <3> HIDE DEF half
    <3> QED
      BY <2>1, <2>3
  <2>5. top = half + half
    BY <2>1, <2>2
  <2>6. top \in Nat
    BY <1>1, PowerFacts
  <2> QED
    BY <2>3, <2>4, <2>5, <2>6
<1>4. 2^(MantissaBits + e) = top * u
  BY <1>1, <1>2, PowerSum
<1>5. e > 0 => 2^(MantissaBits + e - 1) = half * u
  <2>1. MantissaBits - 1 \in Nat /\ (MantissaBits - 1) + e = MantissaBits + e - 1
    BY <1>1
  <2> QED
    BY <1>2, <2>1, PowerSum
<1> HIDE DEF top, half
<1>6. q < top
  <2>1. n < top * u
    BY <1>2, <1>4
  <2>2. ASSUME top <= q PROVE FALSE
    <3>1. top * u <= q * u
      BY <1>3, <2>2, ProductGrows
    <3> DEFINE a == top * u
               b == q * u
    <3>2. a \in Nat /\ b \in Nat /\ n = b + r /\ n < a /\ a <= b
      BY <1>2, <1>3, <2>1, <3>1
    <3> HIDE DEF a, b
    <3> QED
      BY <3>2
  <2> QED
    BY <1>3, <2>2
<1>7. e > 0 => half <= q
  <2> SUFFICES ASSUME e > 0, q + 1 <= half PROVE FALSE
    BY <1>3
  <2>1. (q + 1) * u <= half * u
    BY <1>3, ProductGrows
  <2>2. n >= half * u
    BY <1>2, <1>5
  <2> DEFINE a == half * u
             b == q * u
  <2>3. (q + 1) * u = b + u
    OBVIOUS
  <2>4. a \in Nat /\ b \in Nat /\ n = b + r /\ n >= a /\ b + u <= a /\ r < u
    BY <1>2, <1>3, <2>1, <2>2, <2>3
  <2> HIDE DEF a, b
  <2> QED
    BY <2>4
<1>8. Float64(n) \in Representable
  <2>1. e \in 0..MaxExtra
    BY <1>2
  <2>2. \A m \in Nat, k \in 0..MaxExtra : m < top => m * 2^k \in Representable
    <3>1. \A m \in Nat : m < top => m \in 0..(top - 1)
      BY <1>3
    <3> QED
      BY <3>1 DEF Representable, top
  <2>3. CASE Float64(n) = q * u
    BY <1>2, <1>6, <2>1, <2>2, <2>3
  <2>4. CASE Float64(n) = (q + 1) * u /\ q + 1 < top
    BY <1>2, <2>1, <2>2, <2>4
  <2>5. CASE Float64(n) = (q + 1) * u /\ q + 1 = top /\ e > 0
    <3>1. 2^(e + 1) = u + u
      BY <1>2, PowerNext
    <3>2. top * u = half * (u + u)
      BY <1>2, <1>3
    <3>3. e < u
      BY <1>2, PowerFacts
    <3>4. u <= n
      <4>1. 1 * u <= half * u
        BY <1>3, ProductGrows
      <4>2. n >= half * u
        BY <1>2, <1>5, <2>5
      <4> QED
        BY <1>1, <1>3, <4>1, <4>2
    <3>5. e + 1 \in 0..MaxExtra
      BY <1>2, <3>3, <3>4
    <3>6. half < top
      BY <1>3
    <3>7. Float64(n) = half * 2^(e + 1)
      BY <2>5, <3>1, <3>2
    <3> QED
      BY <1>3, <2>2, <3>5, <3>6, <3>7
  <2>6. q + 1 < top \/ q + 1 = top
    BY <1>3, <1>6
  <2> QED
    BY <1>2, <2>3, <2>4, <2>5, <2>6
<1>9. ASSUME NEW x \in Representable PROVE Distance(n, Float64(n)) <= Distance(n, x)
  <2>1. /\ x \in Nat
        /\ \/ \E j \in Nat : x = j * 2^e
           \/ e > 0 /\ x < 2^(MantissaBits + e - 1)
    BY RepresentableIs
  <2>2. x <= q * u \/ \E j \in Nat : x = j * u
    <3>1. CASE \E j \in Nat : x = j * 2^e
      BY <1>2, <3>1
    <3>2. CASE e > 0 /\ x < 2^(MantissaBits + e - 1)
      <4>1. x < half * u
        BY <1>5, <3>2
      <4>2. half * u <= q * u
        BY <1>3, <1>7, <3>2, ProductGrows
      <4> DEFINE a == half * u
                 b == q * u
      <4>3. a \in Nat /\ b \in Nat /\ x < a /\ a <= b
        BY <1>3, <4>1, <4>2
      <4> HIDE DEF a, b
      <4>4. x <= b
        BY <2>1, <4>3
      <4> QED
        BY <4>4 DEF b
    <3> QED
      BY <2>1, <3>1, <3>2
  <2>3. /\ 2 * r <= u => Distance(n, q * u) <= Distance(n, x)
        /\ 2 * r >= u => Distance(n, (q + 1) * u) <= Distance(n, x)
    BY <1>1, <1>2, <2>1, <2>2, NearestMultiple
  <2> QED
    BY <1>2, <2>3
<1> QED
  BY <1>8, <1>9

-----------------------------------------------------------------------------
(* The two directions.                                                     *)

\* A conversion is pending or has the outcome of the one function for it.
CodecInv ==
  /\ surface \in Surfaces
  /\ input \in [from : {"client"}, value : Frames]
             \cup [from : {"backend"}, value : BackendEvents]
  /\ \/ output = Pending
     \/ input.from = "client" /\ output = receive(surface, input.value)
     \/ input.from = "backend" /\ output = transmit(surface, input.value)

LEMMA CodecInvHolds == CodecSpec => []CodecInv
<1>1. CodecInit => CodecInv
  BY DEF CodecInit, CodecInv
<1>2. CodecInv /\ [CodecNext]_codecVars => CodecInv'
  <2> SUFFICES ASSUME CodecInv, [CodecNext]_codecVars PROVE CodecInv'
    OBVIOUS
  <2>1. CASE ConvertFrame
    BY <2>1 DEF ConvertFrame, CodecInv
  <2>2. CASE ConvertEvent
    BY <2>2 DEF ConvertEvent, CodecInv
  <2>3. CASE UNCHANGED codecVars
    BY <2>3 DEF codecVars, CodecInv
  <2> QED
    BY <2>1, <2>2, <2>3 DEF CodecNext
<1> QED
  BY <1>1, <1>2, PTL DEF CodecSpec

\* What readLoop hands to Handle is the payload as it came, under the type the
\* payload itself carries, and that type is one of the surface's client events.
THEOREM DeliveryIsProfiledHolds == CodecSpec => []DeliveryIsProfiled
<1>1. CodecInv => DeliveryIsProfiled
  <2> SUFFICES ASSUME CodecInv, Handled
               PROVE  LET event == output.value
                      IN  /\ event.data = input.value.data
                          /\ event.type = event.data.type
                          /\ \E p \in ProfileEvents :
                               /\ p.direction = "client"
                               /\ p.type = event.data.type
                               /\ surface = "realtime" <=> p.surface # "responses_websocket"
    BY DEF DeliveryIsProfiled
  <2> DEFINE frame == input.value
             event == [type |-> frame.data.type, id |-> StringField(frame.data.id),
                       data |-> frame.data]
  <2>1. output = receive(surface, frame) /\ output.result = "ok"
    BY DEF CodecInv, Handled, Pending
  <2>2. output = Converted(event) /\ eventAllowed(surface, "client", event.type)
    BY <2>1 DEF receive, decodeEvent, Converted, ProtocolFailure
  <2>3. output.value = event
    BY <2>2 DEF Converted
  <2> DEFINE Entry(s) == [surface |-> s, direction |-> "client", type |-> frame.data.type]
  <2>4. \E s \in {"realtime", "realtime_translation", "responses_websocket"} :
          /\ Entry(s) \in ProfileEvents
          /\ surface = "realtime" <=> s # "responses_websocket"
    BY <2>2 DEF eventAllowed, EventAllowed
  <2>5. PICK s \in {"realtime", "realtime_translation", "responses_websocket"} :
          /\ Entry(s) \in ProfileEvents
          /\ surface = "realtime" <=> s # "responses_websocket"
    BY <2>4
  <2> QED
    BY <2>3, <2>5
<1> QED
  BY <1>1, CodecInvHolds, PTL

\* What writeLoop sends can be read back: type and ID are those of the backend's
\* event, a missing ID is the payload's own, and a number the shell does not
\* interpret arrives as the nearest one that a float64 holds.
THEOREM WireRoundTripHolds == CodecSpec => []WireRoundTrip
<1>1. CodecInv => WireRoundTrip
  <2> SUFFICES ASSUME CodecInv, Sent PROVE WireRoundTrip
    BY DEF WireRoundTrip
  <2> DEFINE event == input.value
  <2>1. output = transmit(surface, event) /\ output.result = "ok" /\ event \in BackendEvents
    BY DEF CodecInv, Sent, Pending
  <2>2. output = encodeEvent(event) /\ eventAllowed(surface, "server", event.type)
    BY <2>1 DEF transmit, ProtocolFailure
  <2>3. event.type \in Types /\ event.type \notin {Blank, Absent, NotString}
    BY <2>2, CodecAssumption DEF eventAllowed, EventAllowed
  <2>4. /\ event.id \in Ids \cup {Blank} /\ event.id \notin {Absent, NotString}
        /\ event.data \in Documents(0..MaxExtra) \cup {NoDocument}
    BY <2>1, CodecAssumption DEF BackendEvents, Blank, Absent, NotString
  <2>5. CASE event.data.form = "empty"
    <3>1. output.value = Document("object", event.type, event.id, 0)
      BY <2>2, <2>3, <2>5 DEF encodeEvent, Converted
    <3>2. decodeEvent(output.value).result = "ok"
      BY <2>3, <2>4, <3>1 DEF decodeEvent, Document, StringField, Converted
    <3> QED
      BY <2>5, <3>1, <3>2 DEF WireRoundTrip, Document
  <2>6. CASE event.data.form # "empty"
    <3> DEFINE id == IF event.id # Blank THEN event.id ELSE event.data.id
    <3>1. /\ event.data.form = "object"
          /\ output.value = Document("object", event.type, id, Float64(event.data.extra))
      BY <2>1, <2>2, <2>3, <2>4, <2>6
      DEF encodeEvent, Converted, ProtocolFailure, Panic, Documents, Document, NoDocument
    <3>2. event.data.extra \in 0..MaxExtra
      BY <2>4, <3>1 DEF Documents, Document, NoDocument
    <3>3. /\ output.value.type = event.type /\ output.value.id = id
          /\ output.value.form = "object" /\ output.value.extra = Float64(event.data.extra)
      BY <3>1 DEF Document
    <3>4. decodeEvent(output.value).result = "ok" \/ (event.id = Blank /\ event.data.id = NotString)
      BY <2>3, <2>4, <3>3 DEF decodeEvent, StringField, Converted
    <3>5. /\ output.value.extra \in Representable
          /\ \A q \in Representable :
               Distance(event.data.extra, output.value.extra) <= Distance(event.data.extra, q)
      BY <3>2, <3>3, ExtraAssumption, Float64IsNearest
    <3> QED
      BY <3>3, <3>4, <3>5 DEF WireRoundTrip
  <2> QED
    BY <2>5, <2>6
<1> QED
  BY <1>1, CodecInvHolds, PTL
=============================================================================
