--------------------------- MODULE ConstFoldProofs ---------------------------
(***************************************************************************)
(* Proofs about ConstFold, for every width of `long long`, every choice of *)
(* operators and every bound on the operands that wait.                    *)
(*                                                                         *)
(* The argument: whatever the operator, what the evaluator answers for two *)
(* values of long long is what C says (OperatorsDecided); every expression *)
(* on the stack therefore keeps what the properties promise (Good), which  *)
(* each way of building an expression preserves.                           *)
(***************************************************************************)
EXTENDS ConstFold, FiniteSetTheorems, FunctionTheorems, WellFoundedInduction, TLAPS

-----------------------------------------------------------------------------
(* Powers of two, and division with remainder.                             *)

(* A nonempty set of naturals has a least member.                          *)
LEMMA LeastNumber ==
  ASSUME NEW T \in SUBSET Nat, T # {}
  PROVE  \E x \in T : \A y \in T : x <= y
<1> DEFINE R == OpToRel(<, Nat)
<1>1. IsWellFoundedOn(R, Nat)
  BY NatLessThanWellFounded
<1>2. \A x, y \in Nat : <<x, y>> \in R <=> x < y
  BY DEF OpToRel
<1> HIDE DEF R
<1>3. PICK x \in T : \A y \in T : ~ (<<y, x>> \in R)
  BY <1>1, WFMin, Zenon
<1>4. ASSUME NEW y \in T PROVE x <= y
  <2>1. x \in Nat /\ y \in Nat
    OBVIOUS
  <2>2. ~ (y < x)
    BY <1>2, <1>3, <2>1
  <2> QED BY <2>1, <2>2
<1> QED BY <1>4

(* A power of two counts sets of bits.                                       *)
LEMMA PowerIs ==
  ASSUME NEW n \in Nat
  PROVE  /\ IsFiniteSet(SUBSET (1 .. n))
         /\ 2^n = Cardinality(SUBSET (1 .. n))
         /\ 2^n \in Nat \ {0}
<1>1. IsFiniteSet(1 .. n) /\ Cardinality(1 .. n) = n
  BY FS_Interval
<1>2. IsFiniteSet(SUBSET (1 .. n)) /\ Cardinality(SUBSET (1 .. n)) = 2^n
  BY <1>1, FS_SUBSET
<1>3. Cardinality(SUBSET (1 .. n)) \in Nat
  BY <1>2, FS_CardinalityType
<1>4. Cardinality(SUBSET (1 .. n)) # 0
  <2>1. SUBSET (1 .. n) # {}
    OBVIOUS
  <2> QED BY <1>2, <2>1, FS_EmptySet
<1> QED BY <1>2, <1>3, <1>4

(* One bit more doubles a power of two.                                    *)
LEMMA PowerNext ==
  ASSUME NEW n \in Nat
  PROVE  2^(n + 1) = 2 * 2^n
<1> DEFINE S == SUBSET (1 .. n)
           T == {x \union {n + 1} : x \in S}
<1>1. SUBSET (1 .. n + 1) = S \union T
  <2>1. 1 .. n + 1 = (1 .. n) \union {n + 1}
    OBVIOUS
  <2>2. ASSUME NEW x \in SUBSET (1 .. n + 1) PROVE x \in S \union T
    <3>1. CASE n + 1 \in x
      <4>1. x \ {n + 1} \in S /\ x = (x \ {n + 1}) \union {n + 1}
        BY <2>1, <3>1
      <4> QED BY <4>1
    <3>2. CASE n + 1 \notin x
      BY <2>1, <3>2
    <3> QED BY <3>1, <3>2
  <2>3. S \union T \subseteq SUBSET (1 .. n + 1)
    BY <2>1
  <2> QED BY <2>2, <2>3
<1>2. S \cap T = {}
  <2>1. n + 1 \notin 1 .. n
    OBVIOUS
  <2> QED BY <2>1
<1>3. IsFiniteSet(S) /\ Cardinality(S) = 2^n /\ 2^n \in Nat
  BY PowerIs
<1>4. ExistsBijection(S, T)
  <2> DEFINE f == [x \in S |-> x \union {n + 1}]
  <2>1. f \in [S -> T]
    OBVIOUS
  <2>2. \A x, y \in S : x \union {n + 1} = y \union {n + 1} => x = y
    <3>1. n + 1 \notin 1 .. n
      OBVIOUS
    <3> QED BY <3>1
  <2>3. \A t \in T : \E x \in S : f[x] = t
    OBVIOUS
  <2>4. \A x \in S : f[x] = x \union {n + 1}
    OBVIOUS
  <2> HIDE DEF S, T, f
  <2>5. f \in Injection(S, T)
    <3>1. \A x, y \in S : f[x] = f[y] => x = y
      <4> TAKE x, y \in S
      <4> HAVE f[x] = f[y]
      <4>1. f[x] = x \union {n + 1} /\ f[y] = y \union {n + 1}
        BY <2>4
      <4> QED BY <2>2, <4>1
    <3> QED BY <2>1, <3>1 DEF Injection, IsInjective
  <2>6. f \in Surjection(S, T)
    BY <2>1, <2>3 DEF Surjection
  <2>7. f \in Bijection(S, T)
    BY <2>5, <2>6 DEF Bijection
  <2> QED BY <2>7 DEF ExistsBijection
<1>5. IsFiniteSet(T) /\ Cardinality(T) = Cardinality(S)
  BY <1>3, <1>4, FS_Bijection
<1> HIDE DEF S, T
<1>6. Cardinality(S \union T) = 2^n + 2^n - Cardinality({})
  BY <1>2, <1>3, <1>5, FS_Union
<1>7. Cardinality({}) = 0
  BY FS_EmptySet
<1>8. 2^(n + 1) = Cardinality(SUBSET (1 .. n + 1))
  BY n + 1 \in Nat, PowerIs
<1>9. 2^(n + 1) = 2^n + 2^n - 0
  BY <1>1, <1>6, <1>7, <1>8
<1> QED BY <1>3, <1>9

(* The powers of two multiply as their exponents add.                      *)
LEMMA PowerSum ==
  ASSUME NEW m \in Nat, NEW n \in Nat
  PROVE  2^(m + n) = 2^m * 2^n
<1> DEFINE Bad == {k \in Nat : 2^(m + k) # 2^m * 2^k}
<1>1. ASSUME Bad # {} PROVE FALSE
  <2>1. PICK k \in Bad : \A j \in Bad : k <= j
    <3>1. Bad \in SUBSET Nat
      OBVIOUS
    <3> HIDE DEF Bad
    <3> QED BY <1>1, <3>1, LeastNumber
  <2>2. k \in Nat /\ 2^(m + k) # 2^m * 2^k
    OBVIOUS
  <2>3. CASE k = 0
    <3>0. 2^0 = 1
      OBVIOUS
    <3>1. m + 0 = m /\ 2^m \in Nat
      <4>1. 2^m \in Nat
        BY PowerIs
      <4> QED BY <4>1
    <3>2. 2^m * 2^0 = 2^m
      BY <3>0, <3>1
    <3> QED BY <2>2, <2>3, <3>1, <3>2
  <2>4. CASE k # 0
    <3>1. k - 1 \in Nat /\ ~ (k <= k - 1) /\ (k - 1) + 1 = k /\ m + (k - 1) \in Nat
          /\ (m + (k - 1)) + 1 = m + k
      BY <2>2, <2>4
    <3>2. 2^(m + (k - 1)) = 2^m * 2^(k - 1)
      <4>1. k - 1 \notin Bad
        BY <2>1, <3>1
      <4> QED BY <3>1, <4>1
    <3>3. 2^(m + k) = 2 * 2^(m + (k - 1)) /\ 2^k = 2 * 2^(k - 1)
      BY <3>1, PowerNext
    <3>4. 2^m \in Nat /\ 2^(k - 1) \in Nat
      BY <3>1, PowerIs
    <3> DEFINE a == 2^m
               b == 2^(k - 1)
    <3> HIDE DEF a, b
    <3>5. 2 * (a * b) = a * (2 * b)
      BY <3>4 DEF a, b
    <3> QED BY <2>2, <3>2, <3>3, <3>5 DEF a, b
  <2> QED BY <2>3, <2>4
<1> QED BY <1>1

(* What division with remainder yields.                                     *)
LEMMA DivMod ==
  ASSUME NEW x \in Int, NEW m \in Nat \ {0}
  PROVE  /\ x \div m \in Int
         /\ x % m \in 0 .. m - 1
         /\ x = m * (x \div m) + (x % m)
<1>1. x \div m \in Int
  BY SMTT(30)
<1>2. x % m \in 0 .. m - 1
  BY SMTT(30)
<1>3. x = m * (x \div m) + (x % m)
  BY SMTT(30)
<1> QED BY <1>1, <1>2, <1>3

(* Between a number and its opposite 0 is the only multiple.               *)
LEMMA NoMultipleBetween ==
  ASSUME NEW m \in Nat \ {0}, NEW k \in Int, k * m < m, -m < k * m
  PROVE  k = 0
<1>1. CASE k >= 1
  <2>1. m * 1 <= m * k
    BY <1>1, SMTT(30)
  <2> QED BY <2>1, SMTT(30)
<1>2. CASE k <= -1
  <2>1. m * 1 <= m * (-k)
    BY <1>2, SMTT(30)
  <2> QED BY <2>1, SMTT(30)
<1> QED BY <1>1, <1>2

(* Quotient and remainder are the only ones.                               *)
LEMMA DivModUnique ==
  ASSUME NEW m \in Nat \ {0}, NEW q \in Int, NEW r \in 0 .. m - 1
  PROVE  /\ (m * q + r) \div m = q
         /\ (m * q + r) % m = r
<1> DEFINE x == m * q + r
           p == x \div m
           s == x % m
<1>1. x \in Int
  OBVIOUS
<1> HIDE DEF x
<1>2. p \in Int /\ s \in 0 .. m - 1 /\ x = m * p + s
  BY <1>1, DivMod
<1> HIDE DEF p, s
<1>3. (p - q) * m = r - s
  BY <1>2 DEF x
<1>4. r - s < m /\ -m < r - s
  BY <1>2
<1>5. p - q = 0
  <2>1. p - q \in Int
    BY <1>2
  <2> QED BY <1>3, <1>4, <2>1, NoMultipleBetween
<1>6. p = q /\ s = r
  <2>1. p = q
    BY <1>2, <1>5
  <2>2. r - s = 0
    BY <1>3, <1>5
  <2> QED BY <1>2, <2>1, <2>2
<1> QED BY <1>6 DEF x, p, s

-----------------------------------------------------------------------------
(* Two's complement, and C's division.                                     *)

(* How many values long long has.                                          *)
LEMMA Modulus ==
  /\ 2^Width = 2 * (LLongMax + 1)
  /\ 2^Width \in Nat \ {0}
  /\ LLongMax \in Nat /\ LLongMax >= 1
<1>1. Width - 1 \in Nat /\ (Width - 1) + 1 = Width
  BY WidthAssumption
<1>2. 2^Width = 2 * 2^(Width - 1)
  BY <1>1, PowerNext
<1>3. 2^(Width - 1) \in Nat
  BY <1>1, PowerIs
<1>4. LLongMax = 2^(Width - 1) - 1 /\ LLongMax \in Nat /\ LLongMax >= 1
  BY WidthAssumption, LLongMaxAssumption
<1>5. 2^(Width - 1) = LLongMax + 1
  BY <1>3, <1>4
<1> QED BY <1>2, <1>4, <1>5

(* What is used of LongLong itself.                                        *)
LEMMA LongLongIs ==
  /\ LLongMin = -LLongMax - 1
  /\ \A v : v \in LongLong <=> v \in Int /\ -LLongMax - 1 <= v /\ v <= LLongMax
BY LLongMaxAssumption DEF LongLong, LLongMin

(* Two's complement: any integer is reduced, a long long is left alone.     *)
LEMMA WrapType ==
  ASSUME NEW x \in Int
  PROVE  AsSigned(AsUnsigned(x)) \in LongLong
<1> DEFINE m == 2^Width
           u == x % m
<1>1. m \in Nat \ {0} /\ m = 2 * (LLongMax + 1) /\ LLongMax \in Nat
  BY Modulus
<1> HIDE DEF m
<1>2. u \in 0 .. m - 1
  BY <1>1, DivMod
<1>3. AsUnsigned(x) = u
  BY DEF AsUnsigned, m
<1>4. AsSigned(u) = IF u > LLongMax THEN u - m ELSE u
  BY DEF AsSigned, m
<1> HIDE DEF u
<1>5. AsSigned(u) \in LongLong
  BY <1>1, <1>2, <1>4, LongLongIs
<1> QED BY <1>3, <1>5

(* A multiple of the modulus more or less does not matter.                 *)
LEMMA WrapIs ==
  ASSUME NEW v \in LongLong, NEW k \in Int
  PROVE  AsSigned(AsUnsigned(2^Width * k + v)) = v
<1> DEFINE m == 2^Width
           q == IF v < 0 THEN k - 1 ELSE k
           r == IF v < 0 THEN v + m ELSE v
<1>1. m \in Nat \ {0} /\ m = 2 * (LLongMax + 1) /\ LLongMax \in Nat
  BY Modulus
<1>2. v \in Int /\ -LLongMax - 1 <= v /\ v <= LLongMax
  BY LongLongIs
<1>3. \A u : AsUnsigned(u) = u % m /\ AsSigned(u) = IF u > LLongMax THEN u - m ELSE u
  BY DEF AsUnsigned, AsSigned
<1> HIDE DEF m
<1>4. q \in Int /\ r \in 0 .. m - 1 /\ m * q + r = m * k + v
  <2>1. m * (k - 1) = m * k - m
    BY <1>1
  <2> QED BY <1>1, <1>2, <2>1
<1>5. r > LLongMax <=> v < 0
  BY <1>1, <1>2
<1>6. (IF r > LLongMax THEN r - m ELSE r) = v
  BY <1>1, <1>2, <1>5
<1> HIDE DEF q, r
<1>7. (m * q + r) % m = r
  BY <1>1, <1>4, DivModUnique
<1>8. AsSigned(AsUnsigned(m * k + v)) = v
  BY <1>3, <1>4, <1>6, <1>7
<1> QED BY <1>8 DEF m

(* A long long survives the way through unsigned.                          *)
LEMMA WrapOfLongLong ==
  ASSUME NEW v \in LongLong
  PROVE  AsSigned(AsUnsigned(v)) = v
<1>1. 2^Width * 0 + v = v
  BY Modulus, LongLongIs
<1>2. AsSigned(AsUnsigned(2^Width * 0 + v)) = v
  BY WrapIs
<1> QED BY <1>1, <1>2

(* The factors of a product that is not negative agree in sign.            *)
LEMMA SignOfProduct ==
  ASSUME NEW x \in Int, NEW y \in Int, x * y >= 0
  PROVE  /\ y > 0 => x >= 0
         /\ y < 0 => x <= 0
<1>1. ASSUME y > 0, x <= -1 PROVE FALSE
  <2>1. x * y <= (-1) * y
    BY <1>1, SMTT(30)
  <2> QED BY <1>1, <2>1
<1>2. ASSUME y < 0, x >= 1 PROVE FALSE
  <2>1. x * y <= 1 * y
    BY <1>2, SMTT(30)
  <2> QED BY <1>2, <2>1
<1> QED BY <1>1, <1>2

(* What truncation towards zero determines.                                 *)
Truncates(a, b, q) == Magnitude(a - q * b) < Magnitude(b) /\ (a - q * b) * a >= 0

(* C division rounds towards zero.                                         *)
LEMMA CDivTruncates ==
  ASSUME NEW a \in Int, NEW b \in Int, b # 0
  PROVE  /\ CDiv(a, b) \in Int
         /\ Truncates(a, b, CDiv(a, b))
         /\ Magnitude(CDiv(a, b)) * Magnitude(b) <= Magnitude(a)
         /\ Magnitude(CDiv(a, b)) = Magnitude(a) \div Magnitude(b)
<1> DEFINE m == Magnitude(a)
           n == Magnitude(b)
           d == m \div n
           r == m % n
           q == CDiv(a, b)
<1>1. m \in Nat /\ n \in Nat \ {0} /\ (a = m \/ a = -m) /\ (b = n \/ b = -n)
  BY DEF Magnitude
<1>2. q = IF (a < 0) = (b < 0) THEN d ELSE -d
  BY DEF CDiv
<1>3. a = (IF a < 0 THEN -m ELSE m) /\ b = (IF b < 0 THEN -n ELSE n)
  BY DEF Magnitude
<1> HIDE DEF m, n, q
<1>4. d \in Int /\ r \in 0 .. n - 1 /\ m = n * d + r
  <2>1. m \in Int
    BY <1>1
  <2> QED BY <1>1, <2>1, DivMod
<1> HIDE DEF d, r
<1>5. d >= 0
  <2>1. ASSUME d <= -1 PROVE FALSE
    <3>1. n * d <= n * (-1)
      BY <1>1, <1>4, <2>1, SMTT(30)
    <3> QED BY <1>1, <1>4, <3>1
  <2> QED BY <1>4, <2>1
<1>6. q * b = IF a < 0 THEN -(n * d) ELSE n * d
  <2>1. CASE a < 0 /\ b < 0
    BY <1>1, <1>2, <1>3, <1>4, <2>1
  <2>2. CASE a < 0 /\ ~ (b < 0)
    BY <1>1, <1>2, <1>3, <1>4, <2>2
  <2>3. CASE ~ (a < 0) /\ b < 0
    BY <1>1, <1>2, <1>3, <1>4, <2>3
  <2>4. CASE ~ (a < 0) /\ ~ (b < 0)
    BY <1>1, <1>2, <1>3, <1>4, <2>4
  <2> QED BY <2>1, <2>2, <2>3, <2>4
<1> DEFINE p == n * d
           e == a - q * b
<1>7. p \in Int
  BY <1>1, <1>4
<1>8. m = p + r
  BY <1>4
<1>9. e = IF a < 0 THEN -r ELSE r
  <2> HIDE DEF p
  <2>1. q * b = IF a < 0 THEN -p ELSE p
    BY <1>6 DEF p
  <2> QED BY <1>1, <1>3, <1>4, <1>7, <1>8, <2>1
<1>10. q \in Int /\ Magnitude(q) = d
  BY <1>2, <1>4, <1>5 DEF Magnitude
<1> HIDE DEF e
<1>11. Magnitude(e) < n
  BY <1>1, <1>4, <1>9 DEF Magnitude
<1>12. e * a >= 0
  <2>1. r * m >= 0
    BY <1>1, <1>4, SMTT(30)
  <2>2. e * a = r * m
    <3>1. CASE a < 0
      BY <1>1, <1>3, <1>4, <1>9, <3>1
    <3>2. CASE ~ (a < 0)
      BY <1>1, <1>3, <1>4, <1>9, <3>2
    <3> QED BY <3>1, <3>2
  <2> QED BY <2>1, <2>2
<1>13. d * n <= m
  <2> HIDE DEF p
  <2>1. d * n = p
    BY <1>1, <1>4 DEF p
  <2> QED BY <1>1, <1>4, <1>7, <1>8, <2>1
<1>14. Truncates(a, b, q)
  BY <1>11, <1>12 DEF Truncates, e, n
<1> QED BY <1>10, <1>13, <1>14 DEF q, d, m, n

(* Only the least value divided by -1 is out of reach.                     *)
LEMMA QuotientFits ==
  ASSUME NEW a \in LongLong, NEW b \in LongLong, ~ DivisionRefused(a, b)
  PROVE  CDiv(a, b) \in LongLong
<1> DEFINE q == CDiv(a, b)
           d == Magnitude(q)
           m == Magnitude(a)
           n == Magnitude(b)
<1>1. /\ LLongMax \in Nat /\ LLongMax >= 1 /\ LLongMin = -LLongMax - 1
      /\ a \in Int /\ -LLongMax - 1 <= a /\ a <= LLongMax
      /\ b \in Int /\ b # 0
      /\ ~ (a = -LLongMax - 1 /\ b = -1)
  BY LongLongIs, Modulus DEF DivisionRefused
<1>2. q \in Int /\ d * n <= m
  BY <1>1, CDivTruncates
<1>3. q = IF (a < 0) = (b < 0) THEN m \div n ELSE -(m \div n)
  BY DEF CDiv
<1>4. d \in Nat /\ m \in Nat /\ m <= LLongMax + 1 /\ n \in Nat /\ n >= 1 /\ (q = d \/ q = -d)
  BY <1>1, <1>2 DEF Magnitude
<1>5. d <= m
  <2> HIDE DEF d, m, n
  <2>1. d * 1 <= d * n
    BY <1>4, SMTT(30)
  <2>2. d * n \in Int
    BY <1>4
  <2> QED BY <1>2, <1>4, <2>1, <2>2
<1>6. ASSUME d = LLongMax + 1 PROVE q = -d
  <2>1. n = 1 /\ m = LLongMax + 1
    <3> HIDE DEF d, m, n
    <3>1. m = d
      BY <1>4, <1>5, <1>6
    <3>2. ASSUME n >= 2 PROVE FALSE
      <4>1. d * 2 <= d * n
        BY <1>4, <3>2, SMTT(30)
      <4> QED BY <1>1, <1>2, <1>4, <1>6, <3>1, <4>1
    <3> QED BY <1>4, <1>6, <3>1, <3>2
  <2>2. a = -LLongMax - 1 /\ b = 1
    BY <1>1, <2>1 DEF Magnitude
  <2>3. q = -(m \div n)
    BY <1>1, <1>3, <2>2
  <2>4. d = m \div n
    BY <1>1, CDivTruncates
  <2> QED BY <2>3, <2>4
<1> HIDE DEF d, m, n, q
<1>7. -LLongMax - 1 <= q /\ q <= LLongMax
  <2>1. d <= LLongMax + 1
    BY <1>1, <1>4, <1>5
  <2>2. CASE d = LLongMax + 1
    BY <1>1, <1>6, <2>2
  <2>3. CASE d <= LLongMax
    BY <1>1, <1>4, <2>3
  <2> QED BY <1>1, <1>4, <2>1, <2>2, <2>3
<1> QED BY <1>2, <1>7, LongLongIs DEF q

(* No other quotient and remainder are truncated.                          *)
LEMMA RemaindersAgree ==
  ASSUME NEW a \in Int, NEW b \in Int, b # 0, NEW p \in Int, NEW q \in Int,
         NEW r \in Int, NEW s \in Int,
         a = p * b + r, a = q * b + s,
         Magnitude(r) < Magnitude(b), Magnitude(s) < Magnitude(b),
         r * a >= 0, s * a >= 0
  PROVE  p = q /\ r = s
<1> DEFINE n == Magnitude(b)
           k == IF b < 0 THEN p - q ELSE q - p
<1>1. n \in Nat \ {0} /\ (b = IF b < 0 THEN -n ELSE n)
  BY DEF Magnitude
<1>2. k \in Int /\ k * n = r - s
  <2>1. (q - p) * b = r - s
    <3>1. p * b \in Int /\ q * b \in Int /\ (q - p) * b = q * b - p * b
      OBVIOUS
    <3> QED BY <3>1
  <2>2. CASE b < 0
    <3>1. (p - q) * n = (q - p) * b
      <4>1. b = -n
        BY <1>1, <2>2
      <4> QED BY <1>1, <4>1
    <3> QED BY <2>1, <2>2, <3>1
  <2>3. CASE ~ (b < 0)
    BY <1>1, <2>1, <2>3
  <2> QED BY <2>2, <2>3
<1>3. -n < r /\ r < n /\ -n < s /\ s < n
  BY DEF Magnitude
<1> HIDE DEF n, k
<1>4. CASE a # 0
  <2>1. (r >= 0 /\ s >= 0) \/ (r <= 0 /\ s <= 0)
    BY <1>4, SignOfProduct
  <2>2. r - s < n /\ -n < r - s
    BY <1>1, <1>3, <2>1
  <2>3. k = 0
    BY <1>1, <1>2, <2>2, NoMultipleBetween
  <2>4. k * n = 0
    BY <1>1, <2>3
  <2> QED BY <1>2, <2>3, <2>4 DEF k
<1>5. CASE a = 0
  <2>1. \A i, x \in Int : 0 = i * b + x /\ -n < x /\ x < n => i = 0 /\ x = 0
    <3> SUFFICES ASSUME NEW i \in Int, NEW x \in Int, 0 = i * b + x, -n < x, x < n
                 PROVE  i = 0 /\ x = 0
      OBVIOUS
    <3>1. i * b = -x
      OBVIOUS
    <3>2. i * n = x \/ i * n = -x
      <4>1. b = n \/ b = -n
        BY <1>1
      <4> QED BY <1>1, <3>1, <4>1
    <3>3. i * n < n /\ -n < i * n
      BY <1>1, <3>2
    <3>4. i = 0
      BY <1>1, <3>3, NoMultipleBetween
    <3> QED BY <3>1, <3>4
  <2> QED BY <1>3, <1>5, <2>1
<1> QED BY <1>4, <1>5

-----------------------------------------------------------------------------
(* The bits of a number.                                                   *)

(* Adding multiples of a higher power leaves a bit alone.                  *)
LEMMA BitOfShifted ==
  ASSUME NEW u \in Int, NEW k \in Int, NEW n \in Nat, NEW i \in Nat, i < n
  PROVE  Bit(u + k * 2^n, i) = Bit(u, i)
<1> DEFINE p == 2^i
           w == 2^(n - i - 1)
           q == u \div p
           r == u % p
           x == u + k * 2^n
<1>1. n - i - 1 \in Nat /\ i + 1 \in Nat /\ (i + 1) + (n - i - 1) = n
  OBVIOUS
<1>2. p \in Nat \ {0} /\ w \in Nat \ {0} /\ 2^n = (2 * p) * w
  <2>1. p \in Nat \ {0} /\ w \in Nat \ {0}
    BY <1>1, PowerIs
  <2>2. 2^(i + 1) = 2 * 2^i
    BY PowerNext
  <2>3. 2^((i + 1) + (n - i - 1)) = 2^(i + 1) * 2^(n - i - 1)
    BY <1>1, PowerSum
  <2>4. 2^n = 2^(i + 1) * 2^(n - i - 1)
    BY <1>1, <2>3
  <2> QED BY <2>1, <2>2, <2>4
<1>3. x = u + k * ((2 * p) * w)
  BY <1>2
<1>4. Bit(x, i) = (x \div p) % 2 /\ Bit(u, i) = q % 2
  BY DEF Bit
<1> HIDE DEF p, w, x
<1>5. q \in Int /\ r \in 0 .. p - 1 /\ u = p * q + r
  BY <1>2, DivMod
<1> HIDE DEF q, r
<1> DEFINE kw == k * w
           h == q \div 2
           s == q % 2
<1>6. kw \in Int
  BY <1>2
<1>7. k * ((2 * p) * w) = p * (2 * kw)
  BY <1>2
<1> HIDE DEF kw
<1>8. x = p * (q + 2 * kw) + r
  <2>1. p * (q + 2 * kw) = p * q + p * (2 * kw)
    BY <1>2, <1>5, <1>6
  <2> QED BY <1>2, <1>3, <1>5, <1>6, <1>7, <2>1
<1>9. x \div p = q + 2 * kw
  <2>1. q + 2 * kw \in Int
    BY <1>5, <1>6
  <2> QED BY <1>2, <1>5, <1>8, <2>1, DivModUnique
<1>10. (q + 2 * kw) % 2 = q % 2
  BY <1>5, <1>6
<1> QED BY <1>4, <1>9, <1>10 DEF x

(* The bit put in front is the one found there.                            *)
LEMMA TopBit ==
  ASSUME NEW n \in Nat, NEW u \in Nat, u < 2^n, NEW t \in {0, 1}
  PROVE  Bit(u + t * 2^n, n) = t
<1> DEFINE p == 2^n
<1>1. p \in Nat \ {0} /\ u \in 0 .. p - 1
  BY PowerIs
<1>2. Bit(u + t * 2^n, n) = ((u + t * p) \div p) % 2
  BY DEF Bit
<1> HIDE DEF p
<1>3. u + t * p = p * t + u
  BY <1>1
<1>4. (p * t + u) \div p = t
  BY <1>1, DivModUnique
<1>5. t % 2 = t
  OBVIOUS
<1> QED BY <1>2, <1>3, <1>4, <1>5

(* A number with any bits below n there is.                                 *)
LEMMA NumberWithBits ==
  ASSUME NEW t \in [Nat -> {0, 1}], NEW n \in Nat
  PROVE  \E u \in Nat : u < 2^n /\ \A i \in 0 .. n - 1 : Bit(u, i) = t[i]
<1> DEFINE Good(k) == \E u \in Nat : u < 2^k /\ \A i \in 0 .. k - 1 : Bit(u, i) = t[i]
           Bad == {k \in Nat : ~ Good(k)}
<1>1. ASSUME Bad # {} PROVE FALSE
  <2>1. PICK k \in Bad : \A j \in Bad : k <= j
    <3>1. Bad \in SUBSET Nat
      OBVIOUS
    <3> HIDE DEF Bad
    <3> QED BY <1>1, <3>1, LeastNumber
  <2>2. k \in Nat /\ ~ Good(k)
    OBVIOUS
  <2>3. CASE k = 0
    <3>1. 0 < 2^k
      <4>1. 2^k \in Nat \ {0}
        BY <2>2, PowerIs
      <4> QED BY <4>1
    <3>2. 0 .. k - 1 = {}
      BY <2>3
    <3> QED BY <2>2, <3>1, <3>2
  <2>4. CASE k # 0
    <3>1. k - 1 \in Nat /\ ~ (k <= k - 1) /\ (k - 1) + 1 = k
      BY <2>2, <2>4
    <3>2. Good(k - 1)
      <4>1. k - 1 \notin Bad
        BY <2>1, <3>1
      <4> QED BY <3>1, <4>1
    <3> DEFINE m == k - 1
    <3>3. PICK u \in Nat : u < 2^m /\ \A i \in 0 .. m - 1 : Bit(u, i) = t[i]
      BY <3>2
    <3>4. m \in Nat /\ k = m + 1
      BY <3>1
    <3> HIDE DEF m
    <3> DEFINE v == u + t[m] * 2^m
    <3>5. t[m] \in {0, 1}
      BY <3>4
    <3>6. v \in Nat /\ v < 2^k
      <4>1. 2^k = 2 * 2^m
        BY <3>4, PowerNext
      <4>2. 2^m \in Nat
        BY <3>4, PowerIs
      <4> QED BY <3>3, <3>5, <4>1, <4>2
    <3>7. ASSUME NEW i \in 0 .. k - 1 PROVE Bit(v, i) = t[i]
      <4>1. CASE i = m
        BY <3>3, <3>4, <3>5, <4>1, TopBit
      <4>2. CASE i # m
        <5>1. i \in 0 .. m - 1 /\ i \in Nat /\ i < m
          BY <3>4, <4>2
        <5>2. u \in Int /\ t[m] \in Int
          BY <3>5
        <5> DEFINE c == t[m]
        <5>3. c \in Int
          BY <5>2
        <5> HIDE DEF c
        <5>4. Bit(u + c * 2^m, i) = Bit(u, i)
          BY <3>4, <5>1, <5>2, <5>3, BitOfShifted
        <5>5. Bit(v, i) = Bit(u, i)
          BY <5>4 DEF c
        <5> QED BY <3>3, <5>1, <5>5
      <4> QED BY <4>1, <4>2
    <3> HIDE DEF v
    <3>8. Good(k)
      BY <3>6, <3>7
    <3> QED BY <2>2, <3>8
  <2> QED BY <2>3, <2>4
<1>2. Good(n)
  BY <1>1
<1> QED BY <1>2

(* So there is a long long with the bits combined.                         *)
LEMMA BitwiseIsLongLong ==
  ASSUME NEW op, NEW a \in LongLong, NEW b \in LongLong
  PROVE  BitwiseOp(op, a, b) \in LongLong
<1> DEFINE t == [i \in Nat |-> Truth(BitOf(op, Bit(a, i), Bit(b, i)))]
<1>1. t \in [Nat -> {0, 1}]
  BY DEF Truth
<1>2. \A i \in Nat : t[i] = Truth(BitOf(op, Bit(a, i), Bit(b, i)))
  OBVIOUS
<1> HIDE DEF t
<1>3. Width \in Nat
  BY WidthAssumption
<1>4. PICK u \in Nat : u < 2^Width /\ \A i \in 0 .. Width - 1 : Bit(u, i) = t[i]
  BY <1>1, <1>3, NumberWithBits
<1> DEFINE k == IF u > LLongMax THEN -1 ELSE 0
           v == u + k * 2^Width
<1>5. k \in Int
  OBVIOUS
<1>6. v \in LongLong
  <2> DEFINE m == 2^Width
  <2>1. m \in Nat \ {0} /\ m = 2 * (LLongMax + 1) /\ LLongMax \in Nat /\ LLongMax >= 1 /\ u < m
    BY Modulus, <1>4
  <2> HIDE DEF m
  <2>2. -LLongMax - 1 <= u + k * m /\ u + k * m <= LLongMax /\ u + k * m \in Int
    BY <2>1
  <2> QED BY <2>2, LongLongIs DEF m
<1>7. ASSUME NEW i \in 0 .. Width - 1
      PROVE  Bit(v, i) = Truth(BitOf(op, Bit(a, i), Bit(b, i)))
  <2>1. i \in Nat /\ i < Width /\ u \in Int
    BY <1>3
  <2> HIDE DEF k
  <2>2. Bit(v, i) = Bit(u, i)
    BY <1>3, <1>5, <2>1, BitOfShifted
  <2> QED BY <1>2, <1>4, <2>1, <2>2
<1> HIDE DEF v, k
<1>8. \E x \in LongLong : \A i \in 0 .. Width - 1 : Bit(x, i) = Truth(BitOf(op, Bit(a, i), Bit(b, i)))
  BY <1>6, <1>7
<1> QED BY <1>8 DEF BitwiseOp

-----------------------------------------------------------------------------
(* Shifts.                                                                 *)

(* A shift that is not refused is by fewer bits than long long has.         *)
LEMMA ShiftIs ==
  ASSUME NEW b \in LongLong
  PROVE  /\ ~ ShiftRefused(b) <=> b \in 0 .. Width - 1
         /\ ~ ShiftRefused(b) =>
              /\ b \in Nat /\ 2^b \in Nat \ {0}
              /\ \E w \in Nat \ {0} : LLongMax + 1 = w * 2^b
<1>1. b \in Int /\ Width \in Nat
  BY LongLongIs, WidthAssumption
<1>2. ~ ShiftRefused(b) <=> b \in 0 .. Width - 1
  BY <1>1 DEF ShiftRefused
<1>3. ASSUME ~ ShiftRefused(b)
      PROVE  /\ b \in Nat /\ 2^b \in Nat \ {0}
             /\ \E w \in Nat \ {0} : LLongMax + 1 = w * 2^b
  <2> DEFINE c == Width - 1 - b
  <2>1. b \in Nat /\ c \in Nat /\ c + b = Width - 1
    BY <1>1, <1>2, <1>3
  <2> HIDE DEF c
  <2>2. 2^b \in Nat \ {0} /\ 2^c \in Nat \ {0}
    BY <2>1, PowerIs
  <2>3. 2^(c + b) = 2^c * 2^b
    BY <2>1, PowerSum
  <2>4. LLongMax + 1 = 2^(Width - 1)
    <3>1. Width - 1 \in Nat /\ 2^(Width - 1) \in Nat
      <4>1. Width - 1 \in Nat
        BY WidthAssumption
      <4> QED BY <4>1, PowerIs
    <3>2. LLongMax = 2^(Width - 1) - 1
      BY WidthAssumption
    <3> QED BY <3>1, <3>2
  <2>5. LLongMax + 1 = 2^c * 2^b
    BY <2>1, <2>3, <2>4
  <2> QED BY <2>1, <2>2, <2>5
<1> QED BY <1>2, <1>3

(* value > LLONG_MAX >> shift and value < LLONG_MIN >> shift find exactly   *)
(* the shifts that do not fit.                                              *)
LEMMA LeftShiftTestExact ==
  ASSUME NEW a \in LongLong, NEW b \in LongLong, ~ ShiftRefused(b)
  PROVE  LeftShiftOverflows(a, b) <=> a * 2^b \notin LongLong
<1> DEFINE p == 2^b
<1>1. a \in Int /\ LLongMax \in Nat /\ LLongMin = -LLongMax - 1
  BY LongLongIs, LLongMaxAssumption
<1>2. p \in Nat \ {0} /\ \E w \in Nat \ {0} : LLongMax + 1 = w * p
  BY ShiftIs
<1>3. PICK w \in Nat \ {0} : LLongMax + 1 = w * p
  BY <1>2
<1>4. LeftShiftOverflows(a, b) <=> IF a < 0 THEN a < LLongMin \div p ELSE a > LLongMax \div p
  BY DEF LeftShiftOverflows, NegShiftOverflows, PosShiftOverflows
<1> HIDE DEF p
<1>5. LLongMin \div p = -w
  <2>1. p * (-w) + 0 = LLongMin
    <3>1. p * (-w) = -(w * p)
      BY <1>2
    <3> QED BY <1>1, <1>2, <1>3, <3>1
  <2>2. -w \in Int /\ 0 \in 0 .. p - 1
    BY <1>2
  <2>3. (p * (-w) + 0) \div p = -w
    BY <1>2, <2>2, DivModUnique
  <2> QED BY <2>1, <2>3
<1>6. LLongMax \div p = w - 1
  <2>1. p * (w - 1) + (p - 1) = LLongMax
    <3>1. p * (w - 1) = w * p - p
      BY <1>2
    <3> QED BY <1>1, <1>2, <1>3, <3>1
  <2>2. w - 1 \in Int /\ p - 1 \in 0 .. p - 1
    BY <1>2
  <2>3. (p * (w - 1) + (p - 1)) \div p = w - 1
    BY <1>2, <2>2, DivModUnique
  <2> QED BY <2>1, <2>3
<1>7. a * p \in Int
  BY <1>1, <1>2
<1> DEFINE y == w * p
           x == a * p
<1>8. y \in Int /\ y = LLongMax + 1
  BY <1>2, <1>3
<1>9. CASE a < 0
  <2>1. x < 0
    <3>1. a * p <= (-1) * p
      BY <1>1, <1>2, <1>9, SMTT(30)
    <3> QED BY <1>2, <1>7, <3>1
  <2>2. a < -w <=> x < -y
    <3>1. a * p - (-y) = (a + w) * p
      BY <1>1, <1>2
    <3>2. ASSUME a + w <= -1 PROVE (a + w) * p <= (-1) * p
      BY <1>1, <1>2, <3>2, SMTT(30)
    <3>3. ASSUME a + w >= 0 PROVE (a + w) * p >= 0
      BY <1>1, <1>2, <3>3, SMTT(30)
    <3> HIDE DEF y, x
    <3>4. (a + w) * p \in Int
      BY <1>1, <1>2
    <3>5. x + y = (a + w) * p
      BY <3>1, <1>7, <1>8, <1>1, <1>2 DEF x
    <3> DEFINE z == (a + w) * p
    <3>6. z \in Int /\ x + y = z /\ (a + w <= -1 => z <= -p) /\ (a + w >= 0 => z >= 0)
      BY <3>2, <3>3, <3>4, <3>5, <1>1, <1>2
    <3> HIDE DEF z
    <3>7. x \in Int
      BY <1>7 DEF x
    <3> QED BY <1>1, <1>2, <1>8, <3>6, <3>7
  <2> HIDE DEF y, x
  <2>3. x \in Int
    BY <1>7 DEF x
  <2>4. x \notin LongLong <=> x < -y
    BY <1>1, <1>8, <2>1, <2>3, LongLongIs
  <2> QED BY <1>4, <1>5, <1>9, <2>2, <2>4 DEF x, p
<1>10. CASE ~ (a < 0)
  <2>1. x >= 0
    BY <1>1, <1>2, <1>10, SMTT(30)
  <2>2. a > w - 1 <=> x >= y
    <3>1. ASSUME a - w >= 0 PROVE (a - w) * p >= 0
      BY <1>1, <1>2, <3>1, SMTT(30)
    <3>2. ASSUME a - w <= -1 PROVE (a - w) * p <= (-1) * p
      BY <1>1, <1>2, <3>2, SMTT(30)
    <3>3. x - y = (a - w) * p
      BY <1>1, <1>2
    <3> DEFINE z == (a - w) * p
    <3>4. z \in Int /\ x - y = z /\ (a - w <= -1 => z <= -p) /\ (a - w >= 0 => z >= 0)
      BY <3>1, <3>2, <3>3, <1>1, <1>2
    <3> HIDE DEF z, x, y
    <3>5. x \in Int
      BY <1>7 DEF x
    <3> QED BY <1>1, <1>2, <1>8, <3>4, <3>5
  <2> HIDE DEF y, x
  <2>3. x \in Int
    BY <1>7 DEF x
  <2>4. x \notin LongLong <=> x >= y
    BY <1>1, <1>8, <2>1, <2>3, LongLongIs
  <2>5. a > LLongMax \div p <=> a > w - 1
    BY <1>6
  <2> QED BY <1>4, <1>10, <2>2, <2>4, <2>5 DEF x, p
<1> QED BY <1>9, <1>10

(* The shift is made on unsigned long long, and its bits are read back.     *)
LEMMA LeftShiftValue ==
  ASSUME NEW a \in LongLong, NEW b \in Nat, a * 2^b \in LongLong
  PROVE  AsSigned(AsUnsigned(AsUnsigned(a) * 2^b)) = a * 2^b
<1> DEFINE p == 2^b
           m == 2^Width
           u == a % m
           k == a \div m
<1>1. p \in Nat \ {0} /\ m \in Nat \ {0} /\ a \in Int
  BY PowerIs, Modulus, LongLongIs
<1>2. AsUnsigned(a) = u
  BY DEF AsUnsigned
<1> HIDE DEF p, m
<1>3. k \in Int /\ u \in Int /\ a = m * k + u
  <2>1. k \in Int /\ u \in 0 .. m - 1 /\ a = m * k + u
    BY <1>1, DivMod
  <2> QED BY <1>1, <2>1
<1> HIDE DEF k, u
<1>4. -(k * p) \in Int /\ u * p = m * (-(k * p)) + a * p
  <2>1. u = a - m * k
    BY <1>1, <1>3
  <2>2. u * p = a * p - (m * k) * p
    BY <1>1, <1>3, <2>1
  <2>3. (m * k) * p = m * (k * p)
    BY <1>1, <1>3
  <2> DEFINE z == k * p
  <2>4. z \in Int
    BY <1>1, <1>3
  <2>5. u * p = a * p - m * z
    BY <2>2, <2>3
  <2> HIDE DEF z
  <2>6. m * (-z) = -(m * z)
    BY <1>1, <2>4
  <2>7. u * p = m * (-z) + a * p
    BY <1>1, <2>4, <2>5, <2>6
  <2> QED BY <2>4, <2>7 DEF z
<1>5. a * p \in LongLong
  BY DEF p
<1>6. AsSigned(AsUnsigned(2^Width * (-(k * p)) + a * p)) = a * p
  BY <1>4, <1>5, WrapIs
<1> QED BY <1>2, <1>4, <1>6 DEF p, m

(* Shifting right divides and rounds down.                                 *)
LEMMA RightShiftValue ==
  ASSUME NEW a \in LongLong, NEW b \in Nat
  PROVE  /\ a \div 2^b \in LongLong
         /\ \A q \in LongLong : a - q * 2^b \in 0 .. 2^b - 1 <=> q = a \div 2^b
<1> DEFINE p == 2^b
           d == a \div p
           r == a % p
<1>1. p \in Nat \ {0} /\ a \in Int /\ -LLongMax - 1 <= a /\ a <= LLongMax /\ LLongMax \in Nat
  BY PowerIs, LongLongIs, LLongMaxAssumption
<1> HIDE DEF p
<1>2. d \in Int /\ r \in 0 .. p - 1 /\ a = p * d + r
  BY <1>1, DivMod
<1> HIDE DEF d, r
<1>3. -LLongMax - 1 <= d /\ d <= LLongMax
  <2> DEFINE z == p * d
  <2>0. z \in Int /\ a = z + r
    BY <1>1, <1>2
  <2>1. ASSUME d >= 0 PROVE 1 * d <= z
    BY <1>1, <1>2, <2>1, SMTT(30)
  <2>2. ASSUME d <= -1 PROVE p * (d + 1) <= d + 1
    <3>1. 1 * (-d - 1) <= p * (-d - 1)
      BY <1>1, <1>2, <2>2, SMTT(30)
    <3>2. p * (-d - 1) = -(p * (d + 1))
      BY <1>1, <1>2
    <3>3. p * (d + 1) \in Int
      BY <1>1, <1>2
    <3> QED BY <1>2, <3>1, <3>2, <3>3
  <2>3. p * (d + 1) = z + p
    BY <1>1, <1>2
  <2> HIDE DEF z
  <2>4. CASE d >= 0
    BY <1>1, <1>2, <2>0, <2>1, <2>4
  <2>5. CASE d <= -1
    BY <1>1, <1>2, <2>0, <2>2, <2>3, <2>5
  <2> QED BY <1>2, <2>4, <2>5
<1>4. d \in LongLong
  BY <1>2, <1>3, LongLongIs
<1>5. \A q \in LongLong : a - q * p \in 0 .. p - 1 <=> q = d
  <2> TAKE q \in LongLong
  <2>1. q \in Int
    BY LongLongIs
  <2>2. ASSUME a - q * p \in 0 .. p - 1 PROVE q = d
    <3> DEFINE s == a - q * p
    <3>1. p * q + s = a
      <4>1. p * q = q * p /\ q * p \in Int
        BY <1>1, <2>1
      <4> QED BY <1>1, <4>1
    <3>2. s \in 0 .. p - 1
      BY <2>2
    <3> HIDE DEF s
    <3>3. (p * q + s) \div p = q
      BY <1>1, <2>1, <3>2, DivModUnique
    <3> QED BY <3>1, <3>3 DEF d
  <2>3. ASSUME q = d PROVE a - q * p \in 0 .. p - 1
    <3>1. q * p = p * d /\ p * d \in Int
      BY <1>1, <1>2, <2>3
    <3>2. a - q * p = r
      BY <1>1, <1>2, <3>1
    <3> QED BY <1>2, <3>2
  <2> QED BY <2>2, <2>3
<1> QED BY <1>4, <1>5 DEF p, d

-----------------------------------------------------------------------------
(* What the tests decide, for every width of `long long`: those for + and - *)
(* are exact, the one for * never lets an overflow through, and it refuses  *)
(* every product whose right operand is below -1.                           *)

(* cc_add_overflows: it computes nothing that is not representable itself,  *)
(* and it answers yes exactly when the sum is not representable.            *)
THEOREM AddTestExact ==
    \A a, b \in LongLong :
        /\ AddTerms(a, b) \in LongLong
        /\ AddOverflows(a, b) <=> a + b \notin LongLong
  BY LLongMaxAssumption DEF AddTerms, AddOverflows, LongLong, LLongMin

(* cc_sub_overflows, likewise.                                              *)
THEOREM SubTestExact ==
    \A a, b \in LongLong :
        /\ SubTerms(a, b) \in LongLong
        /\ SubOverflows(a, b) <=> a - b \notin LongLong
  BY LLongMaxAssumption DEF SubTerms, SubOverflows, LongLong, LLongMin

(* What is used of integer division.                                        *)
LEMMA DivSpec ==
    ASSUME NEW m \in Nat, NEW n \in Nat \ {0}
    PROVE  /\ m \div n \in Nat
           /\ n * (m \div n) <= m
  BY SMTT(30)

(* Multiplication by a natural number is monotone.                          *)
LEMMA ProductMonotone ==
    ASSUME NEW a \in Int, NEW q \in Int, NEW n \in Nat, a <= q
    PROVE  n * a <= n * q
  BY SMTT(30)

(* CDiv on the signs MulOverflows meets: a nonnegative dividend, and the    *)
(* smallest long long.                                                      *)
LEMMA QuotientSigns ==
    ASSUME NEW b \in LongLong, b # 0
    PROVE  /\ b > 0 => /\ CDiv(LLongMax, b) = LLongMax \div b
                       /\ CDiv(LLongMin, b) = -((LLongMax + 1) \div b)
           /\ b < 0 => /\ CDiv(LLongMax, b) = -(LLongMax \div (-b))
                       /\ CDiv(LLongMin, b) = (LLongMax + 1) \div (-b)
  BY LLongMaxAssumption DEF CDiv, Magnitude, LongLong, LLongMin

(* cc_mul_overflows: beside the operands 0 and -1, which it treats first,   *)
(* it refuses every product whose right operand is negative, representable  *)
(* or not (`3 * -2` is one).                                                *)
THEOREM NegativeRightOperandRefused ==
    \A a, b \in LongLong :
        a \notin {0, -1} /\ b < -1 => MulOverflows(a, b)
<1> SUFFICES ASSUME NEW a \in LongLong, NEW b \in LongLong,
                    a \notin {0, -1}, b < -1
             PROVE  a > CDiv(LLongMax, b) \/ a < CDiv(LLongMin, b)
  BY DEF MulOverflows, LongLong
<1>1. -b \in Nat \ {0}
  BY LLongMaxAssumption DEF LongLong, LLongMin
<1>2. LLongMax \div (-b) \in Nat /\ (LLongMax + 1) \div (-b) \in Nat
  BY <1>1, DivSpec, LLongMaxAssumption
<1>3. CDiv(LLongMax, b) <= 0 /\ CDiv(LLongMin, b) >= 0
  BY <1>2, QuotientSigns DEF LongLong, LLongMin
<1> QED
  BY <1>2, <1>3, QuotientSigns DEF LongLong, LLongMin

(* cc_mul_overflows lets no overflow through.                               *)
THEOREM MulTestSound ==
    \A a, b \in LongLong : ~ MulOverflows(a, b) => a * b \in LongLong
<1> SUFFICES ASSUME NEW a \in LongLong, NEW b \in LongLong, ~ MulOverflows(a, b)
             PROVE  a * b \in LongLong
  OBVIOUS
<1>1. CASE a \in {0, -1} \/ b \in {0, -1}
  BY <1>1, LLongMaxAssumption DEF MulOverflows, LongLong, LLongMin
<1>2. CASE a \notin {0, -1} /\ b < -1
  BY <1>2, NegativeRightOperandRefused
<1>3. CASE a \notin {0, -1} /\ b > 0
  <2>1. b \in Nat \ {0} /\ LLongMax \in Nat /\ LLongMax + 1 \in Nat /\ a \in Int
    BY <1>3, LLongMaxAssumption DEF LongLong, LLongMin
  <2>2. a <= LLongMax \div b /\ -((LLongMax + 1) \div b) <= a
    BY <1>3, <2>1, DivSpec, QuotientSigns DEF MulOverflows, LongLong
  <2>3. /\ LLongMax \div b \in Nat /\ b * (LLongMax \div b) <= LLongMax
        /\ (LLongMax + 1) \div b \in Nat
        /\ b * ((LLongMax + 1) \div b) <= LLongMax + 1
    BY <2>1, DivSpec
  <2>4. b * a <= b * (LLongMax \div b)
    BY <2>1, <2>2, <2>3, ProductMonotone
  <2>5. b * (-((LLongMax + 1) \div b)) <= b * a
    BY <2>1, <2>2, <2>3, ProductMonotone
  <2>6. b * (-((LLongMax + 1) \div b)) = -(b * ((LLongMax + 1) \div b))
    BY <2>1, <2>3
  <2>7. a * b = b * a /\ b * a \in Int
    BY <2>1
  <2> QED
    BY <2>1, <2>3, <2>4, <2>5, <2>6, <2>7 DEF LongLong, LLongMin
<1> QED
  BY <1>1, <1>2, <1>3 DEF LongLong

-----------------------------------------------------------------------------
(* Operator by operator.                                                    *)
Decided(op, F, M) ==
  /\ F \subseteq M
  /\ M \subseteq LongLong
  /\ \A x, y \in M : x = y
  /\ op # "*" /\ M # {} => F # {}

(* A meaning that long long holds, or none.                                *)
LEMMA RepresentableIs ==
  ASSUME NEW n
  PROVE  Representable(n) = IF n \in LongLong THEN {n} ELSE {}
BY DEF Representable

(* The operators of a class are folded alike.                              *)
LEMMA FoldClasses ==
  ASSUME NEW op, NEW a, NEW b
  PROVE  /\ op \in BitOps => /\ FoldBinary(op, a, b) = {BitwiseOp(op, a, b)}
                             /\ MeaningBinary(op, a, b) = {BitwiseOp(op, a, b)}
         /\ op \in Comparisons => /\ FoldBinary(op, a, b) = {Truth(Compare(op, a, b))}
                                  /\ MeaningBinary(op, a, b) = {Truth(Compare(op, a, b))}
<1>1. ASSUME op \in BitOps PROVE FoldBinary(op, a, b) = {BitwiseOp(op, a, b)}
  BY <1>1 DEF FoldBinary, BitOps, Comparisons
<1>2. ASSUME op \in BitOps PROVE MeaningBinary(op, a, b) = {BitwiseOp(op, a, b)}
  BY <1>2 DEF MeaningBinary, BitOps, Comparisons
<1>3. ASSUME op \in Comparisons PROVE FoldBinary(op, a, b) = {Truth(Compare(op, a, b))}
  BY <1>3 DEF FoldBinary, BitOps, Comparisons
<1>4. ASSUME op \in Comparisons PROVE MeaningBinary(op, a, b) = {Truth(Compare(op, a, b))}
  BY <1>4 DEF MeaningBinary, BitOps, Comparisons
<1> QED BY <1>1, <1>2, <1>3, <1>4

(* A truth value is a long long.                                           *)
LEMMA TruthIs ==
  ASSUME NEW p
  PROVE  Truth(p) \in {0, 1} /\ Truth(p) \in LongLong /\ Truth(p) \in Int
<1>1. Truth(p) \in {0, 1}
  BY DEF Truth
<1>2. LLongMax \in Nat /\ LLongMax >= 1
  BY LLongMaxAssumption
<1> QED BY <1>1, <1>2, LongLongIs

(* +, - and *.                                                             *)
LEMMA SumsDecided ==
  ASSUME NEW a \in LongLong, NEW b \in LongLong, NEW op \in {"+", "-", "*"}
  PROVE  Decided(op, FoldBinary(op, a, b), MeaningBinary(op, a, b))
<1>1. CASE op = "+"
  <2>1. FoldBinary(op, a, b) = IF AddOverflows(a, b) THEN {} ELSE {a + b}
    BY <1>1 DEF FoldBinary, BitOps, Comparisons
  <2>2. MeaningBinary(op, a, b) = IF a + b \in LongLong THEN {a + b} ELSE {}
    BY <1>1, RepresentableIs DEF MeaningBinary, BitOps, Comparisons
  <2>3. AddOverflows(a, b) <=> a + b \notin LongLong
    BY AddTestExact
  <2> QED BY <2>1, <2>2, <2>3 DEF Decided
<1>2. CASE op = "-"
  <2>1. FoldBinary(op, a, b) = IF SubOverflows(a, b) THEN {} ELSE {a - b}
    BY <1>2 DEF FoldBinary, BitOps, Comparisons
  <2>2. MeaningBinary(op, a, b) = IF a - b \in LongLong THEN {a - b} ELSE {}
    BY <1>2, RepresentableIs DEF MeaningBinary, BitOps, Comparisons
  <2>3. SubOverflows(a, b) <=> a - b \notin LongLong
    BY SubTestExact
  <2> QED BY <2>1, <2>2, <2>3 DEF Decided
<1>3. CASE op = "*"
  <2>1. FoldBinary(op, a, b) = IF MulOverflows(a, b) THEN {} ELSE {a * b}
    BY <1>3 DEF FoldBinary, BitOps, Comparisons
  <2>2. MeaningBinary(op, a, b) = IF a * b \in LongLong THEN {a * b} ELSE {}
    BY <1>3, RepresentableIs DEF MeaningBinary, BitOps, Comparisons
  <2>3. ~ MulOverflows(a, b) => a * b \in LongLong
    BY MulTestSound
  <2> QED BY <1>3, <2>1, <2>2, <2>3 DEF Decided
<1> QED BY <1>1, <1>2, <1>3

(* /.                                                                      *)
LEMMA QuotientsDecided ==
  ASSUME NEW a \in LongLong, NEW b \in LongLong
  PROVE  Decided("/", FoldBinary("/", a, b), MeaningBinary("/", a, b))
<1> DEFINE M == {q \in LongLong : b # 0 /\ Truncates(a, b, q)}
<1>1. a \in Int /\ b \in Int /\ LLongMax \in Nat /\ LLongMin = -LLongMax - 1
      /\ \A v \in LongLong : v \in Int /\ v <= LLongMax
  BY LongLongIs, LLongMaxAssumption
<1>2. \A x, y \in M : x = y
  <2> TAKE x, y \in M
  <2> DEFINE r == a - x * b
             s == a - y * b
  <2>1. b # 0 /\ x \in Int /\ y \in Int /\ Truncates(a, b, x) /\ Truncates(a, b, y)
    BY <1>1
  <2>2. /\ Magnitude(r) < Magnitude(b) /\ r * a >= 0
        /\ Magnitude(s) < Magnitude(b) /\ s * a >= 0
    BY <2>1 DEF Truncates
  <2>3. r \in Int /\ s \in Int /\ a = x * b + r /\ a = y * b + s
    <3>1. x * b \in Int /\ y * b \in Int
      BY <1>1, <2>1
    <3> QED BY <1>1, <3>1
  <2> HIDE DEF r, s
  <2> QED BY <1>1, <2>1, <2>2, <2>3, RemaindersAgree
<1>3. ASSUME ~ DivisionRefused(a, b) PROVE CDiv(a, b) \in M
  <2>1. b # 0
    BY <1>3 DEF DivisionRefused
  <2> QED BY <1>1, <1>3, <2>1, QuotientFits, CDivTruncates
<1>4. ASSUME NEW x \in M PROVE ~ DivisionRefused(a, b)
  <2>1. b # 0 /\ x \in Int /\ x <= LLongMax /\ Magnitude(a - x * b) < Magnitude(b)
    BY <1>1 DEF Truncates
  <2>2. ASSUME a = LLongMin, b = -1 PROVE FALSE
    <3>1. a - x * b = x - LLongMax - 1 /\ Magnitude(b) = 1
      BY <1>1, <2>1, <2>2 DEF Magnitude
    <3> QED BY <1>1, <2>1, <3>1 DEF Magnitude
  <2> QED BY <2>1, <2>2 DEF DivisionRefused
<1>5. MeaningBinary("/", a, b) = M
      /\ FoldBinary("/", a, b) = IF DivisionRefused(a, b) THEN {} ELSE {CDiv(a, b)}
  BY DEF MeaningBinary, FoldBinary, Truncates, BitOps, Comparisons
<1>6. M \subseteq LongLong
  OBVIOUS
<1> HIDE DEF M
<1> QED BY <1>2, <1>3, <1>4, <1>5, <1>6 DEF Decided

(* What truncation leaves of a.                                            *)
Leaves(a, b, q, r) ==
  a = q * b + r /\ Magnitude(r) < Magnitude(b) /\ r * a >= 0

(* An operand pair leaves one remainder.                                   *)
LEMMA OneRemainder ==
  ASSUME NEW a \in Int, NEW b \in Int, b # 0, NEW p \in Int, NEW q \in Int,
         NEW r \in Int, NEW s \in Int, Leaves(a, b, p, r), Leaves(a, b, q, s)
  PROVE  r = s
<1>1. a = p * b + r /\ Magnitude(r) < Magnitude(b) /\ r * a >= 0
  BY DEF Leaves
<1>2. a = q * b + s /\ Magnitude(s) < Magnitude(b) /\ s * a >= 0
  BY DEF Leaves
<1> QED BY <1>1, <1>2, RemaindersAgree

(* %.                                                                      *)
LEMMA RemaindersDecided ==
  ASSUME NEW a \in LongLong, NEW b \in LongLong
  PROVE  Decided("%", FoldBinary("%", a, b), MeaningBinary("%", a, b))
<1> DEFINE M == {r \in LongLong : /\ b # 0 /\ ~ (a = LLongMin /\ b = -1)
                                  /\ Magnitude(r) < Magnitude(b) /\ r * a >= 0
                                  /\ \E q \in LongLong : a = q * b + r}
<1>1. a \in Int /\ b \in Int /\ LLongMax \in Nat /\ LLongMin = -LLongMax - 1
      /\ \A v : v \in LongLong <=> v \in Int /\ -LLongMax - 1 <= v /\ v <= LLongMax
  BY LongLongIs, LLongMaxAssumption
<1>2. \A x, y \in M : x = y
  <2> TAKE x, y \in M
  <2>1. /\ b # 0 /\ x \in Int /\ y \in Int
        /\ Magnitude(x) < Magnitude(b) /\ x * a >= 0
        /\ Magnitude(y) < Magnitude(b) /\ y * a >= 0
    BY <1>1
  <2>2. PICK p \in LongLong : a = p * b + x
    OBVIOUS
  <2>3. PICK q \in LongLong : a = q * b + y
    OBVIOUS
  <2>4. p \in Int /\ q \in Int
    BY <1>1
  <2>5. Leaves(a, b, p, x) /\ Leaves(a, b, q, y)
    BY <2>1, <2>2, <2>3 DEF Leaves
  <2> QED BY <1>1, <2>1, <2>4, <2>5, OneRemainder
<1>3. ASSUME ~ DivisionRefused(a, b) PROVE CRem(a, b) \in M
  <2> DEFINE q == CDiv(a, b)
             r == CRem(a, b)
  <2>1. b # 0 /\ ~ (a = LLongMin /\ b = -1)
    BY <1>3 DEF DivisionRefused
  <2>2. q \in LongLong /\ q \in Int /\ Truncates(a, b, q)
    BY <1>1, <1>3, <2>1, QuotientFits, CDivTruncates
  <2>3. r = a - b * q
    BY DEF CRem
  <2> HIDE DEF q, r
  <2>4. r = a - q * b /\ r \in Int /\ a = q * b + r
    <3>1. q * b = b * q /\ q * b \in Int
      BY <1>1, <2>2
    <3> QED BY <1>1, <2>3, <3>1
  <2>5. Magnitude(r) < Magnitude(b) /\ r * a >= 0
    BY <2>2, <2>4 DEF Truncates
  <2>6. r \in LongLong
    <3>1. -LLongMax - 1 <= b /\ b <= LLongMax
      BY <1>1
    <3> QED BY <1>1, <2>4, <2>5, <3>1 DEF Magnitude
  <2>7. \E x \in LongLong : a = x * b + r
    BY <2>2, <2>4
  <2> QED BY <2>1, <2>5, <2>6, <2>7 DEF r
<1>4. M # {} => ~ DivisionRefused(a, b)
  BY DEF DivisionRefused
<1>5. MeaningBinary("%", a, b) = M
      /\ FoldBinary("%", a, b) = IF DivisionRefused(a, b) THEN {} ELSE {CRem(a, b)}
  BY DEF MeaningBinary, FoldBinary, Truncates, BitOps, Comparisons
<1>6. M \subseteq LongLong
  OBVIOUS
<1> HIDE DEF M
<1> QED BY <1>2, <1>3, <1>4, <1>5, <1>6 DEF Decided

(* << and >>.                                                              *)
LEMMA ShiftsDecided ==
  ASSUME NEW a \in LongLong, NEW b \in LongLong, NEW op \in {"<<", ">>"}
  PROVE  Decided(op, FoldBinary(op, a, b), MeaningBinary(op, a, b))
<1>1. CASE ShiftRefused(b)
  <2>1. b \notin 0 .. Width - 1
    BY <1>1, ShiftIs
  <2>2. FoldBinary(op, a, b) = {} /\ MeaningBinary(op, a, b) = {}
    BY <1>1, <2>1 DEF MeaningBinary, FoldBinary, BitOps, Comparisons
  <2> QED BY <2>2 DEF Decided
<1>2. CASE ~ ShiftRefused(b)
  <2>1. b \in 0 .. Width - 1 /\ b \in Nat
    BY <1>2, ShiftIs
  <2>2. CASE op = "<<"
    <3> DEFINE s == a * 2^b
               f == AsSigned(AsUnsigned(AsUnsigned(a) * 2^b))
    <3>1. LeftShiftOverflows(a, b) <=> s \notin LongLong
      BY <1>2, LeftShiftTestExact
    <3>2. s \in LongLong => f = s
      BY <2>1, LeftShiftValue
    <3>3. FoldBinary("<<", a, b) = IF LeftShiftOverflows(a, b) THEN {} ELSE {f}
      BY <1>2 DEF FoldBinary, BitOps, Comparisons
    <3>4. MeaningBinary("<<", a, b) = IF s \in LongLong THEN {s} ELSE {}
      BY <2>1, RepresentableIs DEF MeaningBinary, BitOps, Comparisons
    <3> HIDE DEF s, f
    <3> QED BY <2>2, <3>1, <3>2, <3>3, <3>4 DEF Decided
  <2>3. CASE op = ">>"
    <3> DEFINE d == a \div 2^b
    <3>1. d \in LongLong /\ \A q \in LongLong : a - q * 2^b \in 0 .. 2^b - 1 <=> q = d
      BY <2>1, RightShiftValue
    <3>2. FoldBinary(">>", a, b) = {d}
      BY <1>2 DEF FoldBinary, BitOps, Comparisons
    <3>3. MeaningBinary(">>", a, b) = {q \in LongLong : b \in 0 .. Width - 1 /\ a - q * 2^b \in 0 .. 2^b - 1}
      BY DEF MeaningBinary, BitOps, Comparisons
    <3> HIDE DEF d
    <3>4. MeaningBinary(">>", a, b) = {d}
      BY <2>1, <3>1, <3>3
    <3> QED BY <2>3, <3>1, <3>2, <3>4 DEF Decided
  <2> QED BY <2>2, <2>3
<1> QED BY <1>1, <1>2

(* Whatever the operator, what the evaluator answers is what C means, C     *)
(* means one thing at most, and only a product is refused that C defines.   *)
LEMMA OperatorsDecided ==
  ASSUME NEW a \in LongLong, NEW b \in LongLong, NEW op \in BinaryOps \ {"&&", "||"}
  PROVE  Decided(op, FoldBinary(op, a, b), MeaningBinary(op, a, b))
<1>1. CASE op \in {"+", "-", "*"}
  BY <1>1, SumsDecided
<1>2. CASE op = "/"
  BY <1>2, QuotientsDecided
<1>3. CASE op = "%"
  BY <1>3, RemaindersDecided
<1>4. CASE op \in {"<<", ">>"}
  BY <1>4, ShiftsDecided
<1>5. CASE op \in BitOps
  BY <1>5, BitwiseIsLongLong, FoldClasses DEF Decided
<1>6. CASE op \in Comparisons
  BY <1>6, TruthIs, FoldClasses DEF Decided
<1>7. CASE op = ","
  BY <1>7 DEF Decided, FoldBinary, MeaningBinary, BitOps, Comparisons
<1> QED BY <1>1, <1>2, <1>3, <1>4, <1>5, <1>6, <1>7 DEF BinaryOps, ArithmeticOps

-----------------------------------------------------------------------------
(* The invariant.                                                          *)

(* An entry keeps what the properties say, and means one thing at most.    *)
Good(e) ==
  /\ \A x, y \in e.meaning : x = y
  /\ e.plain /\ ~ e.trips => e.answer \subseteq e.meaning
  /\ e.plain /\ ~ e.trips /\ ~ e.refused /\ e.meaning # {} => e.answer # {}

(* The inductive invariant.                                                *)
FoldInv == TypeOK /\ \A i \in DOMAIN stack : Good(stack[i])

(* The fields of an entry.                                                 *)
LEMMA EntryFields ==
  ASSUME NEW e \in Entries
  PROVE  /\ e.answer \subseteq LongLong /\ e.meaning \subseteq LongLong
         /\ e.trips \in BOOLEAN /\ e.plain \in BOOLEAN /\ e.refused \in BOOLEAN
BY DEF Entries

(* An entry whose meaning is given up promises less.                       *)
LEMMA FollowedIsGood ==
  ASSUME NEW e \in Entries, Good(e)
  PROVE  Followed(e) \in Entries /\ Good(Followed(e))
<1>1. CASE e.plain /\ ~ e.trips
  BY <1>1 DEF Followed
<1>2. CASE ~ (e.plain /\ ~ e.trips)
  <2> DEFINE f == [e EXCEPT !.meaning = {}, !.refused = FALSE]
  <2>1. f \in Entries
    BY DEF Entries
  <2>2. f.meaning = {} /\ f.plain = e.plain /\ f.trips = e.trips
    BY DEF Entries
  <2>3. Followed(e) = f
    BY <1>2 DEF Followed
  <2> HIDE DEF f
  <2>4. ~ (f.plain /\ ~ f.trips)
    BY <1>2, <2>2
  <2> QED BY <2>1, <2>2, <2>3, <2>4 DEF Good
<1> QED BY <1>1, <1>2

(* A good entry may be pushed.                                             *)
LEMMA PushKeeps ==
  ASSUME FoldInv, NEW n \in Nat, n <= Len(stack), Len(stack) - n + 1 <= MaxOperands,
         NEW e \in Entries, Good(e), Push(n, e)
  PROVE  FoldInv'
<1> DEFINE f == Followed(e)
           s == SubSeq(stack, 1, Len(stack) - n)
<1>1. f \in Entries /\ Good(f)
  BY FollowedIsGood
<1>2. stack \in Seq(Entries) /\ Len(stack) \in Nat /\ \A i \in 1 .. Len(stack) : Good(stack[i])
  BY DEF FoldInv, TypeOK
<1>3. /\ s \in Seq(Entries) /\ Len(s) = Len(stack) - n
      /\ \A i \in 1 .. Len(s) : s[i] = stack[i]
  BY <1>2
<1>4. stack' = Append(s, f)
  BY DEF Push
<1> HIDE DEF f, s
<1>5. /\ stack' \in Seq(Entries) /\ Len(stack') = Len(stack) - n + 1
      /\ \A i \in 1 .. Len(stack') : stack'[i] = IF i = Len(stack') THEN f ELSE s[i]
  <2> DEFINE t == Append(s, f)
  <2>1. t \in Seq(Entries)
    BY <1>1, <1>3
  <2>2. Len(t) = Len(s) + 1
    BY <1>3
  <2>3. \A i \in 1 .. Len(s) + 1 : t[i] = IF i = Len(s) + 1 THEN f ELSE s[i]
    <3> SUFFICES ASSUME NEW i \in 1 .. Len(s) + 1
                 PROVE  t[i] = IF i = Len(s) + 1 THEN f ELSE s[i]
      OBVIOUS
    <3>1. Len(s) \in Nat
      BY <1>3
    <3>2. CASE i = Len(s) + 1
      BY <1>1, <1>3, <3>1, <3>2
    <3>3. CASE i \in 1 .. Len(s)
      BY <1>1, <1>3, <3>1, <3>3
    <3> QED BY <3>1, <3>2, <3>3
  <2> HIDE DEF t
  <2>4. Len(s) + 1 = Len(stack) - n + 1
    BY <1>3
  <2>5. \A i \in 1 .. Len(t) : t[i] = IF i = Len(t) THEN f ELSE s[i]
    BY <2>2, <2>3
  <2>6. stack' = t
    BY <1>4 DEF t
  <2> QED BY <2>1, <2>2, <2>4, <2>5, <2>6
<1>6. ASSUME NEW i \in 1 .. Len(stack') PROVE Good(stack'[i])
  <2>1. CASE i = Len(stack')
    BY <1>1, <1>5, <2>1
  <2>2. CASE i # Len(stack')
    <3>1. i \in 1 .. Len(s) /\ i \in 1 .. Len(stack)
      BY <1>2, <1>3, <1>5, <2>2
    <3>2. stack'[i] = stack[i]
      BY <1>3, <1>5, <2>2, <3>1
    <3> QED BY <1>2, <3>1, <3>2
  <2> QED BY <2>1, <2>2
<1>7. TypeOK'
  BY <1>5 DEF TypeOK
<1>8. \A i \in DOMAIN stack' : Good(stack'[i])
  BY <1>5, <1>6
<1>9. FoldInv' <=> TypeOK' /\ \A i \in DOMAIN stack' : Good(stack'[i])
  BY DEF FoldInv, Good
<1> QED BY <1>7, <1>8, <1>9

(* An operand is an entry, and a good one.                                 *)
LEMMA OperandIs ==
  ASSUME FoldInv, NEW i \in Nat, i < Len(stack)
  PROVE  Operand(i) \in Entries /\ Good(Operand(i))
<1>1. stack \in Seq(Entries) /\ Len(stack) \in Nat /\ \A k \in 1 .. Len(stack) : Good(stack[k])
  BY DEF FoldInv, TypeOK
<1>2. Len(stack) - i \in 1 .. Len(stack)
  BY <1>1
<1> QED BY <1>1, <1>2 DEF Operand

(* The unary operators, one by one.                                        *)
LEMMA UnaryFits ==
  ASSUME NEW v \in LongLong, NEW op \in UnaryOps
  PROVE  /\ FoldUnary(op, v) \in LongLong
         /\ MeaningUnary(op, v) \subseteq LongLong
         /\ \A x, y \in MeaningUnary(op, v) : x = y
         /\ ~ UnaryTrips(op, v) => FoldUnary(op, v) \in MeaningUnary(op, v)
<1>1. v \in Int /\ -LLongMax - 1 <= v /\ v <= LLongMax /\ LLongMax \in Nat
  BY LongLongIs, LLongMaxAssumption
<1>2. CASE op = "plus"
  <2>1. FoldUnary(op, v) = v /\ MeaningUnary(op, v) = {v}
    BY <1>2 DEF FoldUnary, MeaningUnary
  <2> QED BY <2>1
<1>3. CASE op = "minus"
  <2> DEFINE w == AsSigned(AsUnsigned(-v))
  <2>1. FoldUnary(op, v) = w
    BY <1>3 DEF FoldUnary
  <2>2. MeaningUnary(op, v) = IF -v \in LongLong THEN {-v} ELSE {}
    BY <1>3, RepresentableIs DEF MeaningUnary
  <2>3. UnaryTrips(op, v) <=> -v \notin LongLong
    BY <1>3 DEF UnaryTrips
  <2>4. w \in LongLong
    BY <1>1, WrapType
  <2>5. -v \in LongLong => w = -v
    BY WrapOfLongLong
  <2> HIDE DEF w
  <2> QED BY <2>1, <2>2, <2>3, <2>4, <2>5
<1>4. CASE op = "bang"
  <2>1. FoldUnary(op, v) = Truth(v = 0) /\ MeaningUnary(op, v) = {Truth(v = 0)}
    BY <1>4 DEF FoldUnary, MeaningUnary
  <2>2. Truth(v = 0) \in LongLong
    BY TruthIs
  <2> QED BY <2>1, <2>2
<1>5. CASE op = "tilde"
  <2>1. FoldUnary(op, v) = -v - 1 /\ MeaningUnary(op, v) = {-1 - v}
    BY <1>5 DEF FoldUnary, MeaningUnary
  <2>2. -v - 1 = -1 - v /\ -v - 1 \in LongLong
    BY <1>1, LongLongIs
  <2> QED BY <2>1, <2>2
<1> QED BY <1>2, <1>3, <1>4, <1>5 DEF UnaryOps

(* A cast to fewer bits yields a long long.                                *)
LEMMA NarrowedFits ==
  ASSUME NEW v \in LongLong, NEW bits \in {1, Width}
  PROVE  Narrowed(bits, v) \in LongLong
<1>1. v \in Int /\ LLongMax \in Nat /\ LLongMax >= 1
  BY LongLongIs, LLongMaxAssumption
<1>2. CASE bits = 1
  <2>1. 2^1 = 2 /\ 2^(1 - 1) = 1
    <3>1. 2^0 = 1 /\ 2^1 = 2 /\ 1 - 1 = 0
      OBVIOUS
    <3> QED BY <3>1
  <2>2. Narrowed(bits, v) = IF v % 2 >= 1 THEN (v % 2) - 2 ELSE v % 2
    BY <1>2, <2>1 DEF Narrowed
  <2>3. v % 2 \in 0 .. 1
    BY <1>1
  <2> DEFINE u == v % 2
  <2> HIDE DEF u
  <2>4. u \in 0 .. 1 /\ Narrowed(bits, v) = IF u >= 1 THEN u - 2 ELSE u
    BY <2>2, <2>3 DEF u
  <2> QED BY <1>1, <2>4, LongLongIs
<1>3. CASE bits = Width
  <2> DEFINE m == 2^Width
             u == v % m
  <2>1. m \in Nat \ {0} /\ m = 2 * (LLongMax + 1)
    BY Modulus
  <2>2. 2^(Width - 1) = LLongMax + 1
    <3>1. Width - 1 \in Nat /\ LLongMax = 2^(Width - 1) - 1
      BY WidthAssumption
    <3>2. 2^(Width - 1) \in Nat
      BY <3>1, PowerIs
    <3> QED BY <3>1, <3>2
  <2>3. Narrowed(bits, v) = IF u >= LLongMax + 1 THEN u - m ELSE u
    BY <1>3, <2>2 DEF Narrowed
  <2> HIDE DEF m
  <2>4. u \in 0 .. m - 1
    BY <1>1, <2>1, DivMod
  <2> HIDE DEF u
  <2> QED BY <1>1, <2>1, <2>3, <2>4, LongLongIs
<1> QED BY <1>2, <1>3

-----------------------------------------------------------------------------
(* The steps.                                                              *)

(* What a literal folds to is a long long, and the value of an ordinary one *)
(* is its meaning.                                                          *)
LEMMA LiteralFolded ==
  ASSUME NEW l \in Literals
  PROVE  /\ FoldLiteral(l) \in LongLong
         /\ Ordinary(l) => MeaningLiteral(l) = {FoldLiteral(l)}
         /\ MeaningLiteral(l) \in SUBSET LongLong
         /\ \A x, y \in MeaningLiteral(l) : x = y
<1>1. LLongMax \in Nat /\ CharMax \in Nat /\ CharMax <= LLongMax
  BY CharMaxAssumption, LLongMaxAssumption
<1>2. 2^Width \in Nat
  BY Modulus
<1>3. l.value \in Nat /\ l.letter \in 0 .. CharMax
  <2> HIDE DEF Literals
  <2>1. \A m \in Nat : 0 .. m \subseteq Nat
    OBVIOUS
  <2>2. 0 .. 2^Width \subseteq Nat /\ 0 .. CharMax \subseteq Nat /\ 0 .. 2 * CharMax + 1 \subseteq Nat
    BY <1>1, <1>2
  <2>3. 0 \in 0 .. CharMax
    BY <1>1
  <2> QED BY <2>2, <2>3 DEF Literals
<1>4. MeaningLiteral(l) = IF l.form = "string" THEN {} ELSE IF l.value \in LongLong THEN {l.value} ELSE {}
  BY <1>3, RepresentableIs DEF MeaningLiteral
<1>5. CASE l.form = "binary"
  <2>1. FoldLiteral(l) = AsSigned(AsUnsigned(l.value))
    BY <1>5 DEF FoldLiteral
  <2>2. AsSigned(AsUnsigned(l.value)) \in LongLong
    BY <1>3, WrapType
  <2>3. Ordinary(l) => l.value \in LongLong
    BY <1>5 DEF Ordinary
  <2>4. l.value \in LongLong => AsSigned(AsUnsigned(l.value)) = l.value
    BY WrapOfLongLong
  <2> QED BY <1>4, <1>5, <2>1, <2>2, <2>3, <2>4
<1>6. CASE l.form = "zero"
  <2>1. FoldLiteral(l) = 0 /\ (Ordinary(l) => l.value = 0)
    BY <1>6 DEF FoldLiteral, Ordinary
  <2>2. 0 \in LongLong
    BY <1>1, LongLongIs
  <2> QED BY <1>4, <1>6, <2>1, <2>2
<1>7. CASE l.form \in {"letter", "string"}
  <2>1. FoldLiteral(l) = l.letter /\ ~ Ordinary(l)
    BY <1>7 DEF FoldLiteral, Ordinary
  <2>2. l.letter \in LongLong
    BY <1>1, <1>3, LongLongIs
  <2> QED BY <1>4, <2>1, <2>2
<1>8. CASE l.form \notin {"binary", "zero", "letter", "string"}
  <2>1. FoldLiteral(l) = IF l.value > LLongMax THEN LLongMax ELSE l.value
    BY <1>8 DEF FoldLiteral
  <2>2. FoldLiteral(l) \in LongLong
    BY <1>1, <1>3, <2>1, LongLongIs
  <2>3. Ordinary(l) => l.value \in LongLong /\ l.value <= LLongMax
    BY <1>1, <1>3, <1>8, LongLongIs DEF Ordinary
  <2>4. l.value <= LLongMax => FoldLiteral(l) = l.value
    BY <1>1, <1>3, <2>1
  <2> QED BY <1>4, <1>8, <2>2, <2>3, <2>4
<1> QED BY <1>5, <1>6, <1>7, <1>8

(* Literals.                                                               *)
LEMMA LiteralKeeps ==
  ASSUME FoldInv, Literal
  PROVE  FoldInv'
<1>1. PICK l \in Literals :
        Len(stack) < MaxOperands /\ Push(0, [answer |-> {FoldLiteral(l)}, meaning |-> MeaningLiteral(l),
          trips |-> FALSE, plain |-> Ordinary(l), refused |-> FALSE])
  BY DEF Literal, LiteralEntries
<1> DEFINE e == [answer |-> {FoldLiteral(l)}, meaning |-> MeaningLiteral(l),
                 trips |-> FALSE, plain |-> Ordinary(l), refused |-> FALSE]
<1>2. FoldLiteral(l) \in LongLong /\ (Ordinary(l) => MeaningLiteral(l) = {FoldLiteral(l)})
      /\ MeaningLiteral(l) \in SUBSET LongLong /\ (\A x, y \in MeaningLiteral(l) : x = y)
  BY LiteralFolded
<1>3. Ordinary(l) \in BOOLEAN
  BY DEF Ordinary
<1>4. e \in Entries
  BY <1>2, <1>3 DEF Entries
<1>5. Len(stack) < MaxOperands /\ Push(0, e)
  BY <1>1
<1>6. e.answer = {FoldLiteral(l)} /\ e.meaning = MeaningLiteral(l) /\ (e.plain <=> Ordinary(l))
  BY <1>3
<1> HIDE DEF e
<1>7. Good(e)
  BY <1>2, <1>6 DEF Good
<1>8. Len(stack) \in Nat /\ MaxOperands \in Nat
  BY MaxOperandsAssumption DEF FoldInv, TypeOK
<1> QED BY <1>4, <1>5, <1>7, <1>8, PushKeeps

(* What the evaluator has no case for.                                     *)
LEMMA NotConstantKeeps ==
  ASSUME FoldInv, NotConstant
  PROVE  FoldInv'
<1> DEFINE e == [answer |-> {}, meaning |-> {}, trips |-> FALSE, plain |-> TRUE, refused |-> FALSE]
<1>1. e \in Entries
  BY DEF Entries
<1>2. Len(stack) < MaxOperands /\ Push(0, e)
  BY DEF NotConstant
<1>3. Good(e)
  BY DEF Good
<1> HIDE DEF e
<1>4. Len(stack) \in Nat /\ MaxOperands \in Nat
  BY MaxOperandsAssumption DEF FoldInv, TypeOK
<1> QED BY <1>1, <1>2, <1>3, <1>4, PushKeeps

(* Unary operators.                                                        *)
LEMMA UnaryKeeps ==
  ASSUME FoldInv, NEW op \in UnaryOps, Unary(op)
  PROVE  FoldInv'
<1> DEFINE x == Operand(0)
           answer == {FoldUnary(op, v) : v \in x.answer}
           meaning == UNION {MeaningUnary(op, v) : v \in x.meaning}
           trips == x.trips \/ \E v \in x.answer : UnaryTrips(op, v)
           e == [x EXCEPT !.answer = answer, !.meaning = meaning, !.trips = trips]
<1>1. Len(stack) >= 1 /\ Push(1, e)
  BY DEF Unary
<1>2. Len(stack) \in Nat /\ Len(stack) <= MaxOperands /\ MaxOperands \in Nat
  BY MaxOperandsAssumption DEF FoldInv, TypeOK
<1>3. x \in Entries /\ Good(x)
  BY <1>1, <1>2, OperandIs
<1> HIDE DEF x
<1>4. /\ x.answer \subseteq LongLong /\ x.meaning \subseteq LongLong
      /\ x.trips \in BOOLEAN /\ x.plain \in BOOLEAN /\ x.refused \in BOOLEAN
  BY <1>3, EntryFields
<1>5. answer \subseteq LongLong
  BY <1>4, UnaryFits
<1>6. meaning \subseteq LongLong
  BY <1>4, UnaryFits
<1>7. trips \in BOOLEAN
  OBVIOUS
<1>8. \A y, z \in meaning : y = z
  <2> TAKE y, z \in meaning
  <2>1. PICK v \in x.meaning : y \in MeaningUnary(op, v)
    OBVIOUS
  <2>2. PICK w \in x.meaning : z \in MeaningUnary(op, w)
    OBVIOUS
  <2>3. v = w /\ v \in LongLong
    BY <1>3, <1>4 DEF Good
  <2> QED BY <2>1, <2>2, <2>3, UnaryFits
<1>9. ASSUME x.plain, ~ trips PROVE answer \subseteq meaning
  <2>1. ASSUME NEW v \in x.answer PROVE FoldUnary(op, v) \in meaning
    <3>1. v \in x.meaning /\ v \in LongLong
      BY <1>3, <1>4, <1>9 DEF Good
    <3>2. FoldUnary(op, v) \in MeaningUnary(op, v)
      BY <1>9, <3>1, UnaryFits
    <3> QED BY <3>1, <3>2
  <2> QED BY <2>1
<1>10. ASSUME x.plain, ~ trips, ~ x.refused, meaning # {} PROVE answer # {}
  <2>1. x.meaning # {} /\ ~ x.trips
    BY <1>10
  <2>2. x.answer # {}
    BY <1>3, <1>10, <2>1 DEF Good
  <2> QED BY <2>2
<1> HIDE DEF answer, meaning, trips
<1>11. e \in Entries /\ e.answer = answer /\ e.meaning = meaning /\ e.trips = trips
       /\ e.plain = x.plain /\ e.refused = x.refused
  BY <1>3, <1>5, <1>6, <1>7 DEF Entries
<1> HIDE DEF e
<1>12. Good(e)
  BY <1>8, <1>9, <1>10, <1>11 DEF Good
<1> QED BY <1>1, <1>2, <1>11, <1>12, PushKeeps

(* Casts.                                                                  *)
LEMMA CastKeeps ==
  ASSUME FoldInv, NEW bits \in {1, Width}, Cast(bits)
  PROVE  FoldInv'
<1> DEFINE x == Operand(0)
           meaning == {Narrowed(bits, v) : v \in x.meaning}
           plain == x.plain /\ \A v \in x.meaning : Narrowed(bits, v) = v
           e == [x EXCEPT !.meaning = meaning, !.plain = plain]
<1>1. Len(stack) >= 1 /\ Push(1, e)
  BY DEF Cast
<1>2. Len(stack) \in Nat /\ Len(stack) <= MaxOperands /\ MaxOperands \in Nat
  BY MaxOperandsAssumption DEF FoldInv, TypeOK
<1>3. x \in Entries /\ Good(x)
  BY <1>1, <1>2, OperandIs
<1> HIDE DEF x
<1>4. /\ x.answer \subseteq LongLong /\ x.meaning \subseteq LongLong
      /\ x.trips \in BOOLEAN /\ x.plain \in BOOLEAN /\ x.refused \in BOOLEAN
  BY <1>3, EntryFields
<1>5. meaning \subseteq LongLong
  BY <1>4, NarrowedFits
<1>6. plain \in BOOLEAN
  OBVIOUS
<1>7. \A y, z \in meaning : y = z
  BY <1>3 DEF Good
<1>8. plain => x.plain /\ meaning = x.meaning
  OBVIOUS
<1> HIDE DEF meaning, plain
<1>9. e \in Entries /\ e.answer = x.answer /\ e.meaning = meaning /\ e.trips = x.trips
       /\ e.plain = plain /\ e.refused = x.refused
  BY <1>3, <1>5, <1>6 DEF Entries
<1> HIDE DEF e
<1>10. Good(e)
  BY <1>3, <1>7, <1>8, <1>9 DEF Good
<1> QED BY <1>1, <1>2, <1>9, <1>10, PushKeeps

(* What && and || answer.                                                  *)
LEMMA TruthBinary ==
  ASSUME NEW a, NEW b
  PROVE  /\ FoldBinary("&&", a, b) = {Truth(a # 0 /\ b # 0)}
         /\ FoldBinary("||", a, b) = {Truth(a # 0 \/ b # 0)}
BY DEF FoldBinary, BitOps, Comparisons

(* The answers an operator gives for those of its operands.                *)
Answers(op, l, r) == UNION {FoldBinary(op, a, b) : a \in l, b \in r}

(* At most one value.                                                      *)
Single(S) == \A x, y \in S : x = y

(* An operator on operands that are decided.                                *)
LEMMA BinaryDecided ==
  ASSUME NEW op \in BinaryOps \ {"&&", "||"},
         NEW la \in SUBSET LongLong, NEW lm \in SUBSET LongLong, Single(lm),
         NEW ra \in SUBSET LongLong, NEW rm \in SUBSET LongLong, Single(rm)
  PROVE  /\ Answers(op, la, ra) \subseteq LongLong
         /\ MeaningOf(op, lm, rm) \subseteq LongLong
         /\ Single(MeaningOf(op, lm, rm))
         /\ la \subseteq lm /\ ra \subseteq rm => Answers(op, la, ra) \subseteq MeaningOf(op, lm, rm)
         /\ /\ la \subseteq lm /\ ra \subseteq rm
            /\ lm # {} => la # {}
            /\ rm # {} => ra # {}
            /\ MeaningOf(op, lm, rm) # {} /\ op # "*"
            => Answers(op, la, ra) # {}
<1>1. MeaningOf(op, lm, rm) = UNION {MeaningBinary(op, a, b) : a \in lm, b \in rm}
  BY DEF MeaningOf
<1> DEFINE M == MeaningOf(op, lm, rm)
           A == Answers(op, la, ra)
<1>2. \A x : x \in M <=> \E a \in lm, b \in rm : x \in MeaningBinary(op, a, b)
  BY <1>1
<1>3. \A x : x \in A <=> \E a \in la, b \in ra : x \in FoldBinary(op, a, b)
  BY DEF Answers
<1> HIDE DEF M, A
<1>4. \A a, b \in LongLong :
        /\ FoldBinary(op, a, b) \subseteq MeaningBinary(op, a, b)
        /\ MeaningBinary(op, a, b) \subseteq LongLong
        /\ \A x, y \in MeaningBinary(op, a, b) : x = y
        /\ op # "*" /\ MeaningBinary(op, a, b) # {} => FoldBinary(op, a, b) # {}
  BY OperatorsDecided DEF Decided
<1>5. A \subseteq LongLong
  BY <1>3, <1>4
<1>6. M \subseteq LongLong
  BY <1>2, <1>4
<1>7. Single(M)
  <2> SUFFICES ASSUME NEW x \in M, NEW y \in M PROVE x = y
    BY DEF Single
  <2>1. PICK a \in lm, b \in rm : x \in MeaningBinary(op, a, b)
    BY <1>2
  <2>2. PICK c \in lm, d \in rm : y \in MeaningBinary(op, c, d)
    BY <1>2
  <2>3. a = c /\ b = d
    BY DEF Single
  <2> QED BY <1>4, <2>1, <2>2, <2>3
<1>8. la \subseteq lm /\ ra \subseteq rm => A \subseteq M
  BY <1>2, <1>3, <1>4
<1>9. ASSUME la \subseteq lm, ra \subseteq rm, lm # {} => la # {}, rm # {} => ra # {}, M # {}, op # "*"
      PROVE  A # {}
  <2>1. PICK x : x \in M
    BY <1>9
  <2>2. PICK a \in lm, b \in rm : x \in MeaningBinary(op, a, b)
    BY <1>2, <2>1
  <2>3. a \in la /\ b \in ra
    BY <1>9 DEF Single
  <2>4. FoldBinary(op, a, b) # {}
    BY <1>4, <1>9, <2>2
  <2> QED BY <1>3, <2>3, <2>4
<1> QED BY <1>5, <1>6, <1>7, <1>8, <1>9 DEF M, A

(* && and ||, which C lets stop at their left operand.                      *)
LEMMA LogicalDecided ==
  ASSUME NEW op \in {"&&", "||"},
         NEW la \in SUBSET LongLong, NEW lm \in SUBSET LongLong, Single(lm),
         NEW ra \in SUBSET LongLong, NEW rm \in SUBSET LongLong, Single(rm)
  PROVE  /\ Answers(op, la, ra) \subseteq LongLong
         /\ MeaningOf(op, lm, rm) \subseteq LongLong
         /\ Single(MeaningOf(op, lm, rm))
         /\ la \subseteq lm /\ ra \subseteq rm => Answers(op, la, ra) \subseteq MeaningOf(op, lm, rm)
<1> DEFINE M == MeaningOf(op, lm, rm)
           A == Answers(op, la, ra)
           Counts(a) == IF (a = 0) = (op = "&&") THEN {a} ELSE rm
<1>1. \A x : x \in M <=> \E a \in lm : \E b \in Counts(a) : x = Truth(b # 0)
  BY DEF MeaningOf
<1>2. \A x : x \in A <=> \E a \in la, b \in ra :
                x = IF op = "&&" THEN Truth(a # 0 /\ b # 0) ELSE Truth(a # 0 \/ b # 0)
  <2>1. CASE op = "&&"
    BY <2>1, TruthBinary DEF Answers
  <2>2. CASE op = "||"
    BY <2>2, TruthBinary DEF Answers
  <2> QED BY <2>1, <2>2
<1>4. \A p : Truth(p) \in LongLong
  BY TruthIs
<1> HIDE DEF M, A
<1>5. A \subseteq LongLong
  BY <1>2, <1>4
<1>6. M \subseteq LongLong
  BY <1>1, <1>4
<1>7. Single(M)
  <2> SUFFICES ASSUME NEW x \in M, NEW y \in M PROVE x = y
    BY DEF Single
  <2>1. PICK a \in lm : \E b \in Counts(a) : x = Truth(b # 0)
    BY <1>1
  <2>2. PICK c \in lm : \E d \in Counts(c) : y = Truth(d # 0)
    BY <1>1
  <2>3. a = c
    BY DEF Single
  <2>4. \A b, d \in Counts(a) : b = d
    BY DEF Single
  <2> QED BY <2>1, <2>2, <2>3, <2>4
<1>8. ASSUME la \subseteq lm, ra \subseteq rm, NEW x \in A PROVE x \in M
  <2>1. PICK a \in la, b \in ra :
          x = IF op = "&&" THEN Truth(a # 0 /\ b # 0) ELSE Truth(a # 0 \/ b # 0)
    BY <1>2
  <2>2. a \in lm /\ b \in rm
    BY <1>8
  <2>3. CASE (a = 0) = (op = "&&")
    <3>1. a \in Counts(a) /\ x = Truth(a # 0)
      BY <2>1, <2>3 DEF Truth
    <3> QED BY <1>1, <2>2, <3>1
  <2>4. CASE ~ ((a = 0) = (op = "&&"))
    <3>1. b \in Counts(a) /\ x = Truth(b # 0)
      BY <2>1, <2>2, <2>4 DEF Truth
    <3> QED BY <1>1, <2>2, <3>1
  <2> QED BY <2>3, <2>4
<1> QED BY <1>5, <1>6, <1>7, <1>8 DEF M, A

(* Binary operators.                                                       *)
LEMMA BinaryKeeps ==
  ASSUME FoldInv, NEW op \in BinaryOps, Binary(op)
  PROVE  FoldInv'
<1> DEFINE l == Operand(1)
           r == Operand(0)
           answer == UNION {FoldBinary(op, a, b) : a \in l.answer, b \in r.answer}
           meaning == MeaningOf(op, l.meaning, r.meaning)
           refused == \/ l.refused \/ r.refused
                      \/ op \in {"*", "&&", "||"} /\ answer = {}
           e == [answer |-> answer, meaning |-> meaning,
                 trips |-> l.trips \/ r.trips,
                 plain |-> l.plain /\ r.plain,
                 refused |-> refused]
<1>1. Len(stack) >= 2 /\ Push(2, e)
  BY DEF Binary
<1>2. Len(stack) \in Nat /\ Len(stack) <= MaxOperands /\ MaxOperands \in Nat
  BY MaxOperandsAssumption DEF FoldInv, TypeOK
<1>3. l \in Entries /\ Good(l) /\ r \in Entries /\ Good(r)
  BY <1>1, <1>2, OperandIs
<1>4. answer = Answers(op, l.answer, r.answer)
  BY DEF Answers
<1> HIDE DEF l, r
<1>5. /\ l.answer \in SUBSET LongLong /\ l.meaning \in SUBSET LongLong
      /\ l.trips \in BOOLEAN /\ l.plain \in BOOLEAN /\ l.refused \in BOOLEAN
      /\ r.answer \in SUBSET LongLong /\ r.meaning \in SUBSET LongLong
      /\ r.trips \in BOOLEAN /\ r.plain \in BOOLEAN /\ r.refused \in BOOLEAN
      /\ Single(l.meaning) /\ Single(r.meaning)
  BY <1>3, EntryFields DEF Good, Single
<1> HIDE DEF answer
<1>6. /\ answer \subseteq LongLong
      /\ meaning \subseteq LongLong
      /\ Single(meaning)
      /\ l.answer \subseteq l.meaning /\ r.answer \subseteq r.meaning => answer \subseteq meaning
  <2>1. CASE op \in {"&&", "||"}
    BY <1>4, <1>5, <2>1, LogicalDecided
  <2>2. CASE op \in BinaryOps \ {"&&", "||"}
    BY <1>4, <1>5, <2>2, BinaryDecided
  <2> QED BY <2>1, <2>2
<1>7. ASSUME l.plain, r.plain, ~ l.trips, ~ r.trips
      PROVE  l.answer \subseteq l.meaning /\ r.answer \subseteq r.meaning
  BY <1>3, <1>7 DEF Good
<1>8. ASSUME l.plain, r.plain, ~ l.trips, ~ r.trips, ~ refused, meaning # {}
      PROVE  answer # {}
  <2>1. ~ l.refused /\ ~ r.refused
    BY <1>8
  <2>2. (l.meaning # {} => l.answer # {}) /\ (r.meaning # {} => r.answer # {})
    BY <1>3, <1>8, <2>1 DEF Good
  <2>3. CASE op \in {"*", "&&", "||"}
    BY <1>8, <2>3
  <2>4. CASE op \notin {"*", "&&", "||"}
    <3>1. op \in BinaryOps \ {"&&", "||"} /\ op # "*"
      BY <2>4
    <3> QED BY <1>4, <1>5, <1>7, <1>8, <2>2, <3>1, BinaryDecided
  <2> QED BY <2>3, <2>4
<1>9. refused \in BOOLEAN
  OBVIOUS
<1> HIDE DEF meaning, refused
<1>10. /\ e \in Entries /\ e.answer = answer /\ e.meaning = meaning
       /\ e.refused = refused
  BY <1>5, <1>6, <1>9 DEF Entries
<1>11. (e.trips <=> l.trips \/ r.trips) /\ (e.plain <=> l.plain /\ r.plain)
  OBVIOUS
<1> HIDE DEF e
<1>12. Good(e)
  BY <1>6, <1>7, <1>8, <1>10, <1>11 DEF Good, Single
<1> QED BY <1>1, <1>2, <1>10, <1>12, PushKeeps

(* The conditional operator.                                               *)
LEMMA ConditionalKeeps ==
  ASSUME FoldInv, Conditional
  PROVE  FoldInv'
<1> DEFINE c == Operand(2)
           Chosen(v) == IF v # 0 THEN Operand(1) ELSE Operand(0)
           branches == {Chosen(v) : v \in c.answer}
           answer == UNION {Chosen(v).answer : v \in c.answer}
           meaning == UNION {Chosen(v).meaning : v \in c.meaning}
           trips == c.trips \/ \E b \in branches : b.trips
           plain == c.plain /\ \A i \in {0, 1} : Operand(i).plain
           refused == c.refused \/ \E b \in branches : b.refused
           e == [answer |-> answer, meaning |-> meaning, trips |-> trips,
                 plain |-> plain, refused |-> refused]
<1>1. Len(stack) >= 3 /\ Push(3, e)
  BY DEF Conditional
<1>2. Len(stack) \in Nat /\ Len(stack) <= MaxOperands /\ MaxOperands \in Nat
  BY MaxOperandsAssumption DEF FoldInv, TypeOK
<1>3. c \in Entries /\ Good(c)
  BY <1>1, <1>2, OperandIs
<1>4. \A i \in {0, 1} : Operand(i) \in Entries /\ Good(Operand(i))
  BY <1>1, <1>2, OperandIs
<1>5. \A v : Chosen(v) \in Entries /\ Good(Chosen(v)) /\ (plain => Chosen(v).plain)
  BY <1>4
<1>6. plain => c.plain
  OBVIOUS
<1>7. plain \in BOOLEAN /\ trips \in BOOLEAN /\ refused \in BOOLEAN
  OBVIOUS
<1> HIDE DEF c, Chosen, plain
<1>8. c.answer \subseteq LongLong /\ c.meaning \subseteq LongLong
      /\ \A v : Chosen(v).answer \subseteq LongLong /\ Chosen(v).meaning \subseteq LongLong
  BY <1>3, <1>5, EntryFields
<1>9. answer \subseteq LongLong /\ meaning \subseteq LongLong
  BY <1>8
<1>10. \A x, y \in meaning : x = y
  <2> TAKE x, y \in meaning
  <2>1. PICK v \in c.meaning : x \in Chosen(v).meaning
    OBVIOUS
  <2>2. PICK w \in c.meaning : y \in Chosen(w).meaning
    OBVIOUS
  <2>3. v = w
    BY <1>3 DEF Good
  <2> QED BY <1>5, <2>1, <2>2, <2>3 DEF Good
<1>11. ASSUME plain, ~ trips PROVE c.answer \subseteq c.meaning /\ answer \subseteq meaning
  <2>1. c.answer \subseteq c.meaning
    BY <1>3, <1>6, <1>11 DEF Good
  <2>2. ASSUME NEW v \in c.answer PROVE Chosen(v).answer \subseteq Chosen(v).meaning
    <3>1. ~ Chosen(v).trips
      BY <1>11
    <3> QED BY <1>5, <1>11, <3>1 DEF Good
  <2> QED BY <2>1, <2>2
<1>12. ASSUME plain, ~ trips, ~ refused, meaning # {} PROVE answer # {}
  <2>1. PICK v \in c.meaning : Chosen(v).meaning # {}
    BY <1>12
  <2>2. c.answer # {}
    BY <1>3, <1>6, <1>12, <2>1 DEF Good
  <2>3. v \in c.answer
    BY <1>3, <1>11, <1>12, <2>2 DEF Good
  <2>4. ~ Chosen(v).trips /\ ~ Chosen(v).refused
    BY <1>12, <2>3
  <2>5. Chosen(v).answer # {}
    BY <1>5, <1>12, <2>1, <2>4 DEF Good
  <2> QED BY <2>3, <2>5
<1> HIDE DEF answer, meaning, trips, refused
<1>13. e \in Entries
  BY <1>7, <1>9 DEF Entries
<1>14. /\ e.answer = answer /\ e.meaning = meaning
       /\ e.trips = trips /\ e.plain = plain /\ e.refused = refused
  OBVIOUS
<1> HIDE DEF e
<1>15. Good(e)
  BY <1>10, <1>11, <1>12, <1>14 DEF Good
<1> QED BY <1>1, <1>2, <1>13, <1>15, PushKeeps

(* Nothing has been built at first.                                        *)
LEMMA InitHolds == Init => FoldInv
<1> SUFFICES ASSUME Init PROVE FoldInv
  OBVIOUS
<1>1. stack \in Seq(Entries) /\ Len(stack) = 0 /\ DOMAIN stack = {}
  BY DEF Init
<1> QED BY <1>1, MaxOperandsAssumption DEF FoldInv, TypeOK

(* Every expression built is good.                                         *)
LEMMA StepKeeps == FoldInv /\ [Next]_stack => FoldInv'
<1> SUFFICES ASSUME FoldInv, [Next]_stack PROVE FoldInv'
  OBVIOUS
<1>1. CASE Literal
  BY <1>1, LiteralKeeps
<1>2. CASE NotConstant
  BY <1>2, NotConstantKeeps
<1>3. ASSUME NEW op \in UnaryOps, Unary(op) PROVE FoldInv'
  BY <1>3, UnaryKeeps
<1>4. ASSUME NEW op \in Operators, Binary(op) PROVE FoldInv'
  BY <1>4, OperatorsAssumption, BinaryKeeps
<1>5. CASE Conditional
  BY <1>5, ConditionalKeeps
<1>6. ASSUME NEW bits \in {1, Width}, Cast(bits) PROVE FoldInv'
  BY <1>6, CastKeeps
<1>7. CASE UNCHANGED stack
  BY <1>7 DEF FoldInv, TypeOK, Good
<1> QED BY <1>1, <1>2, <1>3, <1>4, <1>5, <1>6, <1>7 DEF Next

(* The invariant the three theorems below follow from.                     *)
THEOREM FoldInvariant == Spec => []FoldInv
BY InitHolds, StepKeeps, PTL DEF Spec

(* cc_eval_const_integer_expr, for every width: what it answers without an *)
(* undefined operation is the value of the expression.                     *)
THEOREM AnswersAreRight == Spec => []AnswersAreMeanings
<1>1. FoldInv => AnswersAreMeanings
  BY DEF FoldInv, Good, AnswersAreMeanings, Expressions
<1> QED BY <1>1, FoldInvariant, PTL

(* For every width: an expression C defines is refused only for a product  *)
(* or for an operand of && or || that is not needed.                       *)
THEOREM RefusalsHaveAReason == Spec => []RefusedForAReason
<1>1. FoldInv => RefusedForAReason
  BY DEF FoldInv, Good, RefusedForAReason, Expressions
<1> QED BY <1>1, FoldInvariant, PTL

(* Answers and meanings are values of long long, and the operands that     *)
(* wait stay within the bound.                                             *)
THEOREM FoldTypes == Spec => []TypeOK
<1>1. FoldInv => TypeOK
  BY DEF FoldInv
<1> QED BY <1>1, FoldInvariant, PTL

=============================================================================
