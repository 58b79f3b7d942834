---------------------------- MODULE MlKemProofs ----------------------------
(***************************************************************************)
(* ML-KEM: what the coefficient arithmetic computes for every input, that  *)
(* decryption returns the message, and that the forms of a key and the two *)
(* ways of encapsulation agree.                                            *)
(***************************************************************************)
EXTENDS MlKem, FiniteSetTheorems, TLAPS

(* The numbers of bits that a ciphertext coefficient is compressed to. *)
CoefficientBits == {4, 5, 10, 11}

(* compress_ciphertext_coefficient as the code writes it: the product can  *)
(* be larger than the integers TLC computes with.                          *)
CompressByReciprocal(coefficient_bits, fe) ==
    (((fe * 2^coefficient_bits + 1664) * 10321340) \div (8 * 65536 * 65536))
        % 2^coefficient_bits

(* Half a step of the compression, rounded: how far it may move a value. *)
HalfStep(d) == CASE d = 4 -> 104 [] d = 5 -> 52 [] d = 10 -> 2 [] d = 11 -> 1

-----------------------------------------------------------------------------
(* The powers of two in question, as numbers. *)
LEMMA Powers == 2^4 = 16 /\ 2^5 = 32 /\ 2^10 = 1024 /\ 2^11 = 2048
  BY SMT

(* Multiplying by 10321340 and shifting right by 35 divides by 3329, for   *)
(* every numerator that the compression of a field element can produce.    *)
LEMMA ReciprocalDivides ==
    ASSUME NEW n \in Int, 0 <= n, n <= 6817408
    PROVE  (n * 10321340) \div (8 * 65536 * 65536) = n \div 3329
<1> DEFINE e == n \div 3329
           f == n - 3329 * e
<1>1. e \in Int /\ 0 <= e /\ e <= 2047 /\ f \in Int /\ 0 <= f /\ f <= 3328
  BY SMT
<1>2. n = 3329 * e + f
  BY <1>1
<1> HIDE DEF e, f
<1>3. /\ (8 * 65536 * 65536) * e <= n * 10321340
      /\ n * 10321340 < (8 * 65536 * 65536) * e + 8 * 65536 * 65536
  BY <1>1, <1>2, SMT
<1>4. (n * 10321340) \div (8 * 65536 * 65536) = e
  BY <1>1, <1>3, SMT
<1> QED
  BY <1>4 DEF e

(* The constant-time compression of the code equals the division by the    *)
(* modulus with rounding that the model uses, on every field element and   *)
(* for every number of bits in use.                                        *)
THEOREM CompressDivides ==
    ASSUME NEW d \in CoefficientBits, NEW fe \in Int, 0 <= fe, fe < FIELD_MODULUS
    PROVE  CompressByReciprocal(d, fe) = compress_ciphertext_coefficient(d, fe)
<1> DEFINE n == fe * 2^d + 1664
<1>1. n \in Int /\ 0 <= n /\ n <= 6817408
  <2>1. 0 <= fe /\ fe <= 3328
    BY SMT DEF FIELD_MODULUS
  <2>2. n = fe * 16 + 1664 \/ n = fe * 32 + 1664 \/ n = fe * 1024 + 1664
        \/ n = fe * 2048 + 1664
    <3>1. CASE d = 4
      BY <3>1, Powers
    <3>2. CASE d = 5
      BY <3>2, Powers
    <3>3. CASE d = 10
      BY <3>3, Powers
    <3>4. CASE d = 11
      BY <3>4, Powers
    <3> QED
      BY <3>1, <3>2, <3>3, <3>4 DEF CoefficientBits
  <2> HIDE DEF n
  <2> QED
    BY <2>1, <2>2, SMT
<1> HIDE DEF n
<1>2. (n * 10321340) \div (8 * 65536 * 65536) = n \div 3329
  BY <1>1, ReciprocalDivides
<1> QED
  BY <1>2 DEF n, CompressByReciprocal, compress_ciphertext_coefficient, FIELD_MODULUS

(* What compression followed by decompression may do to a coefficient: the *)
(* result is a field element that differs from the original, modulo the    *)
(* field, by at most half a step.                                          *)
THEOREM CompressionError ==
    ASSUME NEW d \in CoefficientBits, NEW fe \in Int, 0 <= fe, fe < FIELD_MODULUS
    PROVE  LET back == decompress_ciphertext_coefficient(d,
                           compress_ciphertext_coefficient(d, fe))
           IN  /\ back \in Int /\ 0 <= back /\ back < FIELD_MODULUS
               /\ \E k \in {0, 1} :
                     /\ -HalfStep(d) <= back - fe + k * FIELD_MODULUS
                     /\ back - fe + k * FIELD_MODULUS <= HalfStep(d)
<1>1. ASSUME NEW p \in {16, 32, 1024, 2048}, NEW b \in Int,
             b = (CASE p = 16 -> 104 [] p = 32 -> 52 [] p = 1024 -> 2 [] p = 2048 -> 1)
      PROVE  LET back == (((((fe * p + 1664) \div 3329) % p) * 3329) * 2 + p) \div (p * 2)
             IN  /\ back \in Int /\ 0 <= back /\ back < 3329
                 /\ \E k \in {0, 1} :
                       -b <= back - fe + k * 3329 /\ back - fe + k * 3329 <= b
  <2> DEFINE c    == (fe * p + 1664) \div 3329
             m    == c % p
             back == ((m * 3329) * 2 + p) \div (p * 2)
  <2>1. c \in Int /\ 3329 * c <= fe * p + 1664 /\ fe * p + 1664 < 3329 * c + 3329
        /\ 0 <= c /\ c <= p
    BY SMT DEF FIELD_MODULUS
  <2> HIDE DEF c
  <2>2. m = IF c = p THEN 0 ELSE c
    BY <2>1, SMT
  <2> HIDE DEF m
  <2>3. /\ back \in Int /\ (p * 2) * back <= (m * 3329) * 2 + p
        /\ (m * 3329) * 2 + p < (p * 2) * back + p * 2
    BY <2>1, <2>2, SMT
  <2> HIDE DEF back
  <2>4. 0 <= back /\ back < 3329
    BY <2>1, <2>2, <2>3, SMT
  <2>5. CASE c # p
    <3>1. -b <= back - fe /\ back - fe <= b
      BY <2>1, <2>2, <2>3, <2>5, <1>1, SMT
    <3> QED
      BY <3>1, <2>3, <2>4 DEF back, m, c
  <2>6. CASE c = p
    <3>1. -b <= back - fe + 3329 /\ back - fe + 3329 <= b
      BY <2>1, <2>2, <2>3, <2>6, <1>1, SMT DEF FIELD_MODULUS
    <3> QED
      BY <3>1, <2>3, <2>4 DEF back, m, c
  <2> QED
    BY <2>5, <2>6
<1> DEFINE p == 2^d
<1>2. /\ p \in {16, 32, 1024, 2048} /\ HalfStep(d) \in Int
      /\ HalfStep(d) = (CASE p = 16 -> 104 [] p = 32 -> 52 [] p = 1024 -> 2 [] p = 2048 -> 1)
  <2>1. CASE d = 4
    BY <2>1, Powers DEF HalfStep
  <2>2. CASE d = 5
    BY <2>2, Powers DEF HalfStep
  <2>3. CASE d = 10
    BY <2>3, Powers DEF HalfStep
  <2>4. CASE d = 11
    BY <2>4, Powers DEF HalfStep
  <2> QED
    BY <2>1, <2>2, <2>3, <2>4 DEF CoefficientBits
<1> HIDE DEF p
<1> QED
  BY <1>1, <1>2 DEF p, decompress_ciphertext_coefficient,
     compress_ciphertext_coefficient, FIELD_MODULUS

(* A message bit survives decryption: decompress_1 followed by             *)
(* compress_message_coefficient returns the bit, whatever error of -832 to *)
(* 831 the noise and the compression of the ciphertext add to it.          *)
THEOREM MessageBitSurvives ==
    ASSUME NEW bit \in {0, 1}, NEW e \in Int, -832 <= e, e <= 831,
           NEW fe \in Int, 0 <= fe, fe < FIELD_MODULUS,
           NEW k \in Int, fe = decompress_1(bit) + e + k * FIELD_MODULUS
    PROVE  compress_message_coefficient(fe) = bit
<1>1. compress_message_coefficient(fe) = IF 833 <= fe /\ fe <= 2496 THEN 1 ELSE 0
  BY SMT DEF compress_message_coefficient, FIELD_MODULUS
<1>2. CASE bit = 0
  BY <1>1, <1>2, SMT DEF decompress_1, FIELD_MODULUS
<1>3. CASE bit = 1
  BY <1>1, <1>3, SMT DEF decompress_1, FIELD_MODULUS
<1> QED
  BY <1>2, <1>3

-----------------------------------------------------------------------------
(* barrett_reduce_element keeps the residue and brings every value of the  *)
(* range the code requires below the modulus in size, so that              *)
(* to_unsigned_representative then gives the field element.                *)
THEOREM BarrettReduces ==
    ASSUME NEW value \in Int, -28296 <= value, value <= 28296
    PROVE  /\ \E k \in Int : barrett_reduce_element(value) = value - k * FIELD_MODULUS
           /\ -FIELD_MODULUS < barrett_reduce_element(value)
           /\ barrett_reduce_element(value) < FIELD_MODULUS
<1> DEFINE k == (value * 20159 + 33554432) \div 67108864
<1>1. /\ k \in Int /\ 67108864 * k <= value * 20159 + 33554432
      /\ value * 20159 + 33554432 < 67108864 * k + 67108864
  BY SMT
<1>2. barrett_reduce_element(value) = value - k * 3329
  BY DEF barrett_reduce_element, FIELD_MODULUS
<1> HIDE DEF k
<1>3. -3329 < value - k * 3329 /\ value - k * 3329 < 3329
  BY <1>1, SMT
<1> QED
  BY <1>1, <1>2, <1>3 DEF FIELD_MODULUS

(* A cast to i16 subtracts a multiple of 2^16. *)
LEMMA CastToInt16 ==
    ASSUME NEW x \in Int
    PROVE  /\ ToInt16(x) \in Int /\ -32768 <= ToInt16(x) /\ ToInt16(x) < 32768
           /\ \E b \in Int : x = 65536 * b + ToInt16(x)
<1> DEFINE u == x % 65536
           q == x \div 65536
<1>1. u \in Int /\ q \in Int /\ 0 <= u /\ u < 65536 /\ x = 65536 * q + u
  BY SMT
<1>2. ToInt16(x) = IF u < 32768 THEN u ELSE u - 65536
  BY DEF ToInt16
<1> HIDE DEF u, q
<1>3. CASE u < 32768
  BY <1>1, <1>2, <1>3
<1>4. CASE ~(u < 32768)
  <2>1. q + 1 \in Int /\ x = 65536 * (q + 1) + (u - 65536)
    BY <1>1, SMT
  <2>2. u - 65536 \in Int /\ -32768 <= u - 65536 /\ u - 65536 < 32768
    BY <1>1, <1>4, SMT
  <2> QED
    BY <1>2, <1>4, <2>1, <2>2
<1> QED
  BY <1>3, <1>4

(* montgomery_reduce_element is exact: it divides value, less a multiple   *)
(* of the modulus that an i16 can hold, by 2^16 without a remainder, so    *)
(* the product of two field elements comes back at most 1834 in size.      *)
THEOREM MontgomeryExact ==
    ASSUME NEW value \in Int
    PROVE  /\ montgomery_reduce_element(value) \in Int
           /\ \E k \in Int :
                 /\ -32768 <= k /\ k < 32768
                 /\ montgomery_reduce_element(value) * 65536 = value - k * FIELD_MODULUS
           /\ (-3328 * 3328 <= value /\ value <= 3328 * 3328) =>
                 /\ -1834 <= montgomery_reduce_element(value)
                 /\ montgomery_reduce_element(value) <= 1834
<1> DEFINE v == ToInt16(value)
           k == ToInt16(v * 62209)
           g == (k * FIELD_MODULUS) \div 65536
           a == value \div 65536
           r == value % 65536
<1>1. montgomery_reduce_element(value) = a - g
  BY DEF montgomery_reduce_element
<1>2. /\ a \in Int /\ r \in Int /\ 0 <= r /\ r < 65536 /\ value = 65536 * a + r
  BY SMT
<1>3. v \in Int /\ \E s \in Int : value = 65536 * s + v
  BY CastToInt16
<1>4. k \in Int /\ -32768 <= k /\ k < 32768
      /\ \E b \in Int : v * 62209 = 65536 * b + k
  <2>1. v * 62209 \in Int
    BY <1>3
  <2> HIDE DEF v
  <2> QED
    BY <2>1, CastToInt16
<1> HIDE DEF v, k, a, r
<1>5. PICK s \in Int : value = 65536 * s + v
  BY <1>3
<1>6. PICK b \in Int : v * 62209 = 65536 * b + k
  BY <1>4
<1> DEFINE c == v * 3160 - b * 3329 - (a - s)
<1>7. c \in Int
  BY <1>2, <1>3
<1>8. k * 3329 = 65536 * (a - s + c) + v
  BY <1>2, <1>3, <1>4, <1>5, <1>6, SMT
<1>9. v = 65536 * (a - s) + r
  BY <1>2, <1>3, <1>5, SMT
<1> DEFINE h == a - s + c + (a - s)
<1>10. h \in Int /\ k * 3329 = 65536 * h + r
  BY <1>2, <1>3, <1>7, <1>8, <1>9, SMT
<1> HIDE DEF c, h
<1>11. g = h
  BY <1>2, <1>4, <1>10, SMT DEF FIELD_MODULUS
<1>12. (a - h) * 65536 = value - k * 3329 /\ a - h \in Int
  BY <1>2, <1>10, SMT
<1> HIDE DEF g
<1>13. (-3328 * 3328 <= value /\ value <= 3328 * 3328) => -1834 <= a - h /\ a - h <= 1834
  BY <1>2, <1>4, <1>10, <1>12, SMT
<1> QED
  BY <1>1, <1>4, <1>11, <1>12, <1>13 DEF FIELD_MODULUS

-----------------------------------------------------------------------------
(* The field elements. *)
FieldElements == 0..(FIELD_MODULUS - 1)

(* Equal modulo the field modulus. *)
Congruent(a, b) == \E k \in Int : a = b + k * FIELD_MODULUS

(* A remainder is a field element in the class of the number. *)
LEMMA RemainderCongruent ==
    ASSUME NEW a \in Int
    PROVE  /\ a % FIELD_MODULUS \in FieldElements
           /\ Congruent(a % FIELD_MODULUS, a)
<1>1. a % 3329 \in 0..3328 /\ a % 3329 = a + (-(a \div 3329)) * 3329 /\ -(a \div 3329) \in Int
  BY SMT
<1>2. PICK k \in Int : a % FIELD_MODULUS = a + k * FIELD_MODULUS
  BY <1>1, SMT DEF FIELD_MODULUS
<1>3. a % FIELD_MODULUS \in FieldElements
  BY <1>1, SMT DEF FieldElements, FIELD_MODULUS
<1> QED
  BY <1>2, <1>3, Zenon DEF Congruent

(* A field element is the only one in its class. *)
LEMMA ElementUnique ==
    ASSUME NEW a \in FieldElements, NEW b \in FieldElements, Congruent(a, b)
    PROVE  a = b
<1>1. /\ a \in Int /\ 0 <= a /\ a <= FIELD_MODULUS - 1
      /\ b \in Int /\ 0 <= b /\ b <= FIELD_MODULUS - 1
  BY SMT DEF FieldElements, FIELD_MODULUS
<1>2. PICK k \in Int : a = b + k * FIELD_MODULUS
  BY Zenon DEF Congruent
<1> QED
  BY <1>1, <1>2, SMT DEF FIELD_MODULUS

(* Congruence is an equivalence that sums and products respect. *)
LEMMA CongruentReflexive ==
    ASSUME NEW a \in Int
    PROVE  Congruent(a, a)
<1>1. a = a + 0 * FIELD_MODULUS
  BY SMT DEF FIELD_MODULUS
<1> QED
  BY <1>1, SMT DEF Congruent

(* The other way round. *)
LEMMA CongruentSymmetric ==
    ASSUME NEW a \in Int, NEW b \in Int, Congruent(a, b)
    PROVE  Congruent(b, a)
<1>1. PICK k \in Int : a = b + k * FIELD_MODULUS
  BY Zenon DEF Congruent
<1>2. b = a + (-k) * FIELD_MODULUS /\ -k \in Int
  BY <1>1, SMT DEF FIELD_MODULUS
<1> QED
  BY <1>2, Zenon DEF Congruent

(* Through a third number. *)
LEMMA CongruentTransitive ==
    ASSUME NEW a \in Int, NEW b \in Int, NEW c \in Int, Congruent(a, b), Congruent(b, c)
    PROVE  Congruent(a, c)
<1>1. PICK k \in Int : a = b + k * FIELD_MODULUS
  BY Zenon DEF Congruent
<1>2. PICK l \in Int : b = c + l * FIELD_MODULUS
  BY Zenon DEF Congruent
<1>3. PICK j \in Int : j = k + l
  BY SMT
<1>4. a = c + j * FIELD_MODULUS
  BY <1>1, <1>2, <1>3, SMT DEF FIELD_MODULUS
<1> QED
  BY <1>4, Zenon DEF Congruent

(* A sum with multiples. *)
LEMMA CongruentCombine ==
    ASSUME NEW a \in Int, NEW b \in Int, NEW c \in Int, NEW d \in Int, NEW e \in Int,
           Congruent(a, b), Congruent(c, d)
    PROVE  Congruent(a + e * c, b + e * d)
<1>1. PICK k \in Int : a = b + k * FIELD_MODULUS
  BY Zenon DEF Congruent
<1>2. PICK l \in Int : c = d + l * FIELD_MODULUS
  BY Zenon DEF Congruent
<1>3. PICK j \in Int : j = k + e * l
  BY SMT
<1>4. a + e * c \in Int /\ b + e * d \in Int /\ a + e * c = (b + e * d) + j * FIELD_MODULUS
  BY <1>1, <1>2, <1>3, SMT DEF FIELD_MODULUS
<1> QED
  BY <1>4, Zenon DEF Congruent

(* Congruent numbers have one remainder. *)
LEMMA CongruentRemainder ==
    ASSUME NEW a \in Int, NEW b \in Int, Congruent(a, b)
    PROVE  a % FIELD_MODULUS = b % FIELD_MODULUS
<1>1. PICK x \in FieldElements : x = a % FIELD_MODULUS /\ Congruent(x, a)
  BY RemainderCongruent, Zenon
<1>2. PICK y \in FieldElements : y = b % FIELD_MODULUS /\ Congruent(y, b)
  BY RemainderCongruent, Zenon
<1>3. x \in Int /\ y \in Int
  BY SMT DEF FieldElements, FIELD_MODULUS
<1>4. Congruent(x, y)
  BY <1>1, <1>2, <1>3, CongruentSymmetric, CongruentTransitive, Zenon
<1> QED
  BY <1>1, <1>2, <1>4, ElementUnique, Zenon

-----------------------------------------------------------------------------
(* A set of naturals that is not empty has a least element. *)
LEMMA LeastElement ==
    ASSUME NEW T, T \subseteq Nat, T # {}
    PROVE  \E x \in T : \A y \in T : x <= y
<1> DEFINE R == OpToRel(<, Nat)
<1>1. IsWellFoundedOn(R, Nat)
  BY NatLessThanWellFounded, Zenon
<1>2. \A x, y \in Nat : x < y => <<x, y>> \in R
  BY DEF OpToRel
<1> HIDE DEF R
<1>3. PICK x \in T : \A y \in T : ~(<<y, x>> \in R)
  BY <1>1, WFMin, Zenon
<1>4. ASSUME NEW y \in T
      PROVE  x <= y
  <2>1. x \in Nat /\ y \in Nat /\ ~(y < x)
    BY <1>2, <1>3, Zenon
  <2> QED
    BY <2>1
<1> QED
  BY <1>4

(* Induction, for the set of the numbers that have a property. *)
LEMMA SetInduction ==
    ASSUME NEW S, 0 \in S, \A n \in Nat : n \in S => n + 1 \in S
    PROVE  \A n \in Nat : n \in S
<1> SUFFICES ASSUME Nat \ S # {}
             PROVE  FALSE
  OBVIOUS
<1>1. PICK x \in Nat \ S : \A y \in Nat \ S : x <= y
  BY LeastElement, Zenon
<1>2. x - 1 \in Nat
  BY <1>1
<1>3. x - 1 \in S
  BY <1>1, <1>2
<1> QED
  BY <1>1, <1>2, <1>3

-----------------------------------------------------------------------------
(* One coefficient of each element of a vector. *)
Row == [Ranks -> Int]

(* The partial sums that an inner product has before reduction. *)
SumsOf(u, v, f) ==
    /\ f \in [0..K -> Int]
    /\ f[0] = 0
    /\ \A j \in 1..K : f[j] = f[j - 1] + u[j] * v[j]

(* There are partial sums, up to every index. *)
LEMMA SumsExist ==
    ASSUME ParametersOk, NEW u \in Row, NEW v \in Row
    PROVE  \E f : SumsOf(u, v, f)
<1>0. K \in Nat
  BY DEF ParametersOk
<1> DEFINE Upto(n, f) == /\ f \in [0..n -> Int] /\ f[0] = 0
                         /\ \A j \in 1..n : f[j] = f[j - 1] + u[j] * v[j]
           S == {n \in Nat : n <= K => \E f : Upto(n, f)}
<1>1. 0 \in S
  <2>1. Upto(0, [i \in 0..0 |-> 0])
    OBVIOUS
  <2> QED
    BY <2>1, Zenon
<1>2. ASSUME NEW n \in Nat, n \in S
      PROVE  n + 1 \in S
  <2> SUFFICES ASSUME n + 1 <= K
               PROVE  \E f : Upto(n + 1, f)
    OBVIOUS
  <2>1. PICK f : Upto(n, f)
    BY <1>0, <1>2
  <2>2. PICK t \in Int : t = f[n] + u[n + 1] * v[n + 1]
    BY <1>0, <2>1 DEF Row, Ranks
  <2>3. PICK g : g = [i \in 0..(n + 1) |-> IF i = n + 1 THEN t ELSE f[i]]
    BY Zenon
  <2>4. g \in [0..(n + 1) -> Int]
    BY <2>1, <2>3
  <2>5. g[0] = 0
    BY <2>1, <2>3
  <2>6. ASSUME NEW j \in 1..(n + 1)
        PROVE  g[j] = g[j - 1] + u[j] * v[j]
    <3>1. CASE j = n + 1
      <4>1. g[j] = t /\ g[j - 1] = f[n]
        BY <2>3, <3>1
      <4> QED
        BY <2>2, <3>1, <4>1
    <3>2. CASE j # n + 1
      <4>1. j \in 1..n /\ j - 1 \in 0..n
        BY <3>2
      <4>2. g[j] = f[j] /\ g[j - 1] = f[j - 1]
        BY <2>3, <3>2, <4>1
      <4> QED
        BY <2>1, <4>1, <4>2
    <3> QED
      BY <3>1, <3>2, Zenon
  <2> QED
    BY <2>4, <2>5, <2>6, Zenon
<1> HIDE DEF S
<1>3. K \in S
  BY <1>0, <1>1, <1>2, SetInduction
<1> QED
  BY <1>0, <1>3 DEF S, SumsOf

(* The definition by recursion gives the remainder of the last sum. *)
LEMMA InnerProductSums ==
    ASSUME ParametersOk, NEW u \in Row, NEW v \in Row
    PROVE  \E f : SumsOf(u, v, f) /\ InnerProduct(u, v) = f[K] % FIELD_MODULUS
<1>0. K \in Nat
  BY DEF ParametersOk
<1> DEFINE F(f) == [j \in 0..K |->
                      IF j = 0 THEN 0 ELSE (f[j - 1] + u[j] * v[j]) % FIELD_MODULUS]
           sum == CHOOSE f : f = F(f)
<1>1. PICK f : SumsOf(u, v, f)
  BY SumsExist
<1>2. PICK g : g = [j \in 0..K |-> f[j] % FIELD_MODULUS]
  BY Zenon
<1>3. ASSUME NEW j \in 1..K
      PROVE  g[j] = (g[j - 1] + u[j] * v[j]) % FIELD_MODULUS
  <2>1. j - 1 \in 0..K /\ j \in 0..K
    BY <1>0
  <2>2. PICK x \in Int, y \in Int : x = f[j - 1] /\ y = u[j] * v[j]
    BY <1>1, <2>1 DEF SumsOf, Row, Ranks
  <2>3. f[j] = x + y
    BY <1>1, <2>2 DEF SumsOf
  <2>4. g[j] = (x + y) % FIELD_MODULUS /\ g[j - 1] = x % FIELD_MODULUS
    BY <1>2, <2>1, <2>2, <2>3
  <2>5. (x + y) % 3329 = ((x % 3329) + y) % 3329
    BY SMT
  <2> QED
    BY <2>2, <2>4, <2>5 DEF FIELD_MODULUS
<1>4. g[0] = 0
  <2>1. f[0] = 0 /\ 0 \in 0..K
    BY <1>0, <1>1 DEF SumsOf
  <2>2. g[0] = 0 % FIELD_MODULUS
    BY <1>2, <2>1
  <2> QED
    BY <2>2 DEF FIELD_MODULUS
<1>5. g = F(g)
  <2>1. ASSUME NEW j \in 0..K
        PROVE  g[j] = IF j = 0 THEN 0 ELSE (g[j - 1] + u[j] * v[j]) % FIELD_MODULUS
    <3>1. CASE j = 0
      BY <1>4, <3>1
    <3>2. CASE j # 0
      <4>1. j \in 1..K
        BY <3>2
      <4> QED
        BY <1>3, <3>2, <4>1, Zenon
    <3> QED
      BY <3>1, <3>2
  <2>2. g = [j \in 0..K |-> g[j]]
    BY <1>2
  <2>3. [j \in 0..K |-> g[j]] = F(g)
    BY <2>1, Zenon
  <2> QED
    BY <2>2, <2>3, Zenon
<1>6. sum = F(sum)
  <2> HIDE DEF F
  <2> QED
    BY <1>5, Zenon
<1>7. InnerProduct(u, v) = sum[K]
  BY DEF InnerProduct
<1>8. PICK h : h = sum
  OBVIOUS
<1>9. h = F(h)
  BY <1>6, <1>8, Zenon
<1> HIDE DEF sum
<1> DEFINE S == {n \in Nat : n <= K => h[n] = g[n]}
<1>10. 0 \in S
  BY <1>0, <1>4, <1>9
<1>11. ASSUME NEW n \in Nat, n \in S
      PROVE  n + 1 \in S
  <2> SUFFICES ASSUME n + 1 <= K
               PROVE  h[n + 1] = g[n + 1]
    OBVIOUS
  <2>1. h[n] = g[n]
    BY <1>0, <1>11
  <2>2. h[n + 1] = (h[n] + u[n + 1] * v[n + 1]) % FIELD_MODULUS
    BY <1>0, <1>9
  <2>3. n + 1 \in 1..K /\ (n + 1) - 1 = n
    BY <1>0
  <2>4. g[n + 1] = (g[n] + u[n + 1] * v[n + 1]) % FIELD_MODULUS
    BY <1>3, <2>3
  <2> QED
    BY <2>1, <2>2, <2>4
<1> HIDE DEF S, F
<1>12. K \in S
  BY <1>0, <1>10, <1>11, SetInduction
<1>13. h[K] = g[K] /\ K \in 0..K
  BY <1>0, <1>12 DEF S
<1>14. g[K] = f[K] % FIELD_MODULUS
  BY <1>2, <1>13
<1> QED
  BY <1>1, <1>7, <1>8, <1>13, <1>14

(* An inner product is a field element. *)
LEMMA InnerProductElement ==
    ASSUME ParametersOk, NEW u \in Row, NEW v \in Row
    PROVE  InnerProduct(u, v) \in FieldElements
<1>1. PICK f : SumsOf(u, v, f) /\ InnerProduct(u, v) = f[K] % FIELD_MODULUS
  BY InnerProductSums, Zenon
<1>2. f[K] \in Int
  BY <1>1 DEF SumsOf, ParametersOk
<1> QED
  BY <1>1, <1>2, RemainderCongruent, Zenon

(* The inner product is linear modulo the field modulus. *)
LEMMA InnerProductLinear ==
    ASSUME ParametersOk, NEW a \in Row, NEW y \in Row, NEW s \in Row, NEW z \in Row,
           NEW c \in Int,
           \A j \in 1..K : Congruent(z[j], y[j] + c * s[j])
    PROVE  Congruent(InnerProduct(a, z), InnerProduct(a, y) + c * InnerProduct(a, s))
<1>0. K \in Nat
  BY SMT DEF ParametersOk
<1>1. PICK f : SumsOf(a, y, f) /\ InnerProduct(a, y) = f[K] % FIELD_MODULUS
  BY InnerProductSums, Zenon
<1>2. PICK g : SumsOf(a, s, g) /\ InnerProduct(a, s) = g[K] % FIELD_MODULUS
  BY InnerProductSums, Zenon
<1>3. PICK h : SumsOf(a, z, h) /\ InnerProduct(a, z) = h[K] % FIELD_MODULUS
  BY InnerProductSums, Zenon
<1> DEFINE S == {n \in Nat : n <= K => Congruent(h[n], f[n] + c * g[n])}
<1>4. 0 \in S
  <2>1. f[0] = 0 /\ g[0] = 0 /\ h[0] = 0
    BY <1>1, <1>2, <1>3, SMT DEF SumsOf
  <2>2. h[0] = f[0] + c * g[0] + 0 * FIELD_MODULUS
    BY <2>1, SMT DEF FIELD_MODULUS
  <2>3. 0 \in Int
    BY SMT
  <2>4. Congruent(h[0], f[0] + c * g[0])
    BY <2>2, <2>3, Zenon DEF Congruent
  <2> QED
    BY <2>4, SMT
<1>5. ASSUME NEW n \in Nat, n \in S
      PROVE  n + 1 \in S
  <2> SUFFICES ASSUME n + 1 <= K
               PROVE  Congruent(h[n + 1], f[n + 1] + c * g[n + 1])
    BY SMT
  <2>1. n \in 0..K /\ n + 1 \in 1..K /\ n + 1 \in 0..K
    BY <1>0, SMT
  <2>2. PICK fn \in Int, gn \in Int, hn \in Int : fn = f[n] /\ gn = g[n] /\ hn = h[n]
    BY <1>1, <1>2, <1>3, <2>1, SMT DEF SumsOf
  <2>3. PICK p \in Int, yn \in Int, sn \in Int, zn \in Int :
            p = a[n + 1] /\ yn = y[n + 1] /\ sn = s[n + 1] /\ zn = z[n + 1]
    BY <2>1, SMT DEF Row, Ranks
  <2>4. /\ f[n + 1] = fn + p * yn
        /\ g[n + 1] = gn + p * sn
        /\ h[n + 1] = hn + p * zn
    BY <1>1, <1>2, <1>3, <2>1, <2>2, <2>3, SMT DEF SumsOf
  <2>5. PICK k \in Int : hn = fn + c * gn + k * FIELD_MODULUS
    <3>1. Congruent(h[n], f[n] + c * g[n])
      BY <1>5, <2>1, SMT
    <3> QED
      BY <2>2, <3>1, Zenon DEF Congruent
  <2>6. PICK l \in Int : zn = yn + c * sn + l * FIELD_MODULUS
    BY <2>1, <2>3, Zenon DEF Congruent
  <2>7. hn + p * zn = (fn + p * yn) + c * (gn + p * sn) + (k + p * l) * FIELD_MODULUS
    BY <2>5, <2>6, SMT DEF FIELD_MODULUS
  <2>8. h[n + 1] = f[n + 1] + c * g[n + 1] + (k + p * l) * FIELD_MODULUS
    BY <2>4, <2>7, Zenon
  <2>9. k + p * l \in Int
    BY SMT
  <2> QED
    BY <2>8, <2>9, Zenon DEF Congruent
<1> HIDE DEF S
<1>6. K \in S
  BY <1>0, <1>4, <1>5, SetInduction, SMT
<1>7. K \in 0..K
  BY <1>0, SMT
<1>8. PICK fk \in Int, gk \in Int, hk \in Int : fk = f[K] /\ gk = g[K] /\ hk = h[K]
  BY <1>1, <1>2, <1>3, <1>7, SMT DEF SumsOf
<1>9. Congruent(hk, fk + c * gk)
  BY <1>0, <1>6, <1>8, SMT DEF S
<1>10. PICK fr \in Int, gr \in Int, hr \in Int :
         /\ fr = InnerProduct(a, y) /\ Congruent(fr, fk)
         /\ gr = InnerProduct(a, s) /\ Congruent(gr, gk)
         /\ hr = InnerProduct(a, z) /\ Congruent(hr, hk)
  <2>1. \A x \in FieldElements : x \in Int
    BY SMT DEF FieldElements, FIELD_MODULUS
  <2> QED
    BY <1>1, <1>2, <1>3, <1>8, <2>1, RemainderCongruent, Zenon
<1>11. Congruent(fr + c * gr, fk + c * gk)
  BY <1>10, CongruentCombine, Zenon
<1>12. /\ fk + c * gk \in Int /\ fr + c * gr \in Int
  BY SMT
<1>13. Congruent(hr, fr + c * gr)
  BY <1>9, <1>10, <1>11, <1>12, CongruentSymmetric, CongruentTransitive, Zenon
<1> QED
  BY <1>10, <1>13, Zenon

(* It depends on the residues only. *)
LEMMA InnerProductResidues ==
    ASSUME ParametersOk, NEW a \in Row, NEW y \in Row, NEW z \in Row,
           \A j \in 1..K : Congruent(z[j], y[j])
    PROVE  InnerProduct(a, z) = InnerProduct(a, y)
<1>1. PICK p \in FieldElements, q \in FieldElements :
        p = InnerProduct(a, z) /\ q = InnerProduct(a, y)
  BY InnerProductElement, Zenon
<1>2. ASSUME NEW j \in 1..K
      PROVE  Congruent(z[j], y[j] + 0 * y[j])
  <2>1. PICK u \in Int : u = y[j]
    BY SMT DEF Row, Ranks
  <2>2. u + 0 * u = u
    BY SMT
  <2> QED
    BY <2>1, <2>2, Zenon
<1>3. 0 \in Int
  OBVIOUS
<1>4. Congruent(p, q + 0 * q)
  BY <1>1, <1>2, <1>3, InnerProductLinear, Zenon
<1>5. q + 0 * q = q
  BY SMT DEF FieldElements, FIELD_MODULUS
<1> QED
  BY <1>1, <1>4, <1>5, ElementUnique, Zenon

(* It is symmetric. *)
LEMMA InnerProductSymmetric ==
    ASSUME ParametersOk, NEW u \in Row, NEW v \in Row
    PROVE  InnerProduct(u, v) = InnerProduct(v, u)
<1>0. K \in Nat
  BY SMT DEF ParametersOk
<1>1. PICK f : SumsOf(u, v, f) /\ InnerProduct(u, v) = f[K] % FIELD_MODULUS
  BY InnerProductSums, Zenon
<1>2. PICK g : SumsOf(v, u, g) /\ InnerProduct(v, u) = g[K] % FIELD_MODULUS
  BY InnerProductSums, Zenon
<1> DEFINE S == {n \in Nat : n <= K => f[n] = g[n]}
<1>3. 0 \in S
  BY <1>1, <1>2, SMT DEF SumsOf
<1>4. ASSUME NEW n \in Nat, n \in S
      PROVE  n + 1 \in S
  <2> SUFFICES ASSUME n + 1 <= K
               PROVE  f[n + 1] = g[n + 1]
    BY SMT
  <2>1. n + 1 \in 1..K /\ (n + 1) - 1 = n /\ f[n] = g[n]
    BY <1>0, <1>4, SMT
  <2>2. PICK x \in Int, y \in Int : x = u[n + 1] /\ y = v[n + 1]
    BY <2>1, SMT DEF Row, Ranks
  <2>3. f[n + 1] = f[n] + x * y /\ g[n + 1] = g[n] + y * x
    BY <1>1, <1>2, <2>1, <2>2, SMT DEF SumsOf
  <2>4. x * y = y * x
    BY SMT
  <2> QED
    BY <2>1, <2>3, <2>4, Zenon
<1> HIDE DEF S
<1>5. K \in S
  BY <1>0, <1>3, <1>4, SetInduction, SMT
<1>6. f[K] = g[K]
  BY <1>0, <1>5, SMT DEF S
<1> QED
  BY <1>1, <1>2, <1>6, Zenon

-----------------------------------------------------------------------------
(* Ring elements and vectors of integers. *)
Elements == [Coefficients -> Int]
Vectors == [Ranks -> Elements]

(* One coefficient of every element of a vector. *)
Column(v, n) == [j \in Ranks |-> v[j][n]]

(* Vectors that agree modulo the field modulus. *)
SameResidues(u, v) ==
    \A i \in Ranks, n \in Coefficients : Congruent(u[i][n], v[i][n])

(* Between minus the modulus and the modulus. *)
Small(a) == a \in Int /\ -FIELD_MODULUS < a /\ a < FIELD_MODULUS

(* Vectors of such coefficients. *)
SmallVector(v) == v \in Vectors /\ \A i \in Ranks, n \in Coefficients : Small(v[i][n])

(* A column consists of integers. *)
LEMMA ColumnType ==
    ASSUME NEW v \in Vectors, NEW n \in Coefficients
    PROVE  Column(v, n) \in Row
  BY DEF Column, Vectors, Elements, Row

(* The coefficients of a product. *)
LEMMA DotEntry ==
    ASSUME NEW u, NEW v, NEW n \in Coefficients
    PROVE  Dot(u, v)[n] = InnerProduct(Column(u, n), Column(v, n))
  BY DEF Dot, Column

(* They are field elements. *)
LEMMA DotElement ==
    ASSUME ParametersOk, NEW u \in Vectors, NEW v \in Vectors, NEW n \in Coefficients
    PROVE  Dot(u, v)[n] \in FieldElements
  BY ColumnType, DotEntry, InnerProductElement, Zenon

(* They depend on the residues of the first vector only. *)
LEMMA DotResidues ==
    ASSUME ParametersOk, NEW u \in Vectors, NEW v \in Vectors, NEW w \in Vectors,
           SameResidues(u, v)
    PROVE  Dot(u, w) = Dot(v, w)
<1>1. ASSUME NEW n \in Coefficients
      PROVE  Dot(u, w)[n] = Dot(v, w)[n]
  <2>1. PICK x \in Row, y \in Row, z \in Row :
          x = Column(u, n) /\ y = Column(v, n) /\ z = Column(w, n)
    BY ColumnType, Zenon
  <2>2. \A j \in 1..K : Congruent(x[j], y[j])
    BY <2>1, Zenon DEF SameResidues, Column, Ranks
  <2>3. InnerProduct(z, x) = InnerProduct(z, y)
    BY <2>2, InnerProductResidues, Zenon
  <2>4. InnerProduct(x, z) = InnerProduct(y, z)
    BY <2>3, InnerProductSymmetric, Zenon
  <2> QED
    BY <2>1, <2>4, DotEntry, Zenon
<1>2. PICK a, b : a = Dot(u, w) /\ b = Dot(v, w)
  OBVIOUS
<1>3. a = [n \in Coefficients |-> a[n]] /\ b = [n \in Coefficients |-> b[n]]
  BY <1>2 DEF Dot
<1>4. \A n \in Coefficients : a[n] = b[n]
  BY <1>1, <1>2, Zenon
<1> QED
  BY <1>2, <1>3, <1>4

(* The range of the field elements. *)
LEMMA FieldElementsRange ==
    ASSUME NEW a
    PROVE  a \in FieldElements <=> a \in Int /\ 0 <= a /\ a < FIELD_MODULUS
<1>1. ASSUME a \in FieldElements
      PROVE  a \in Int /\ 0 <= a /\ a < FIELD_MODULUS
  <2>1. a \in Int /\ 0 <= a /\ a <= FIELD_MODULUS - 1
    BY <1>1, SMT DEF FieldElements, FIELD_MODULUS
  <2> QED
    BY <2>1, SMT DEF FIELD_MODULUS
<1>2. ASSUME a \in Int, 0 <= a, a < FIELD_MODULUS
      PROVE  a \in FieldElements
  <2>1. a <= FIELD_MODULUS - 1
    BY <1>2, SMT DEF FIELD_MODULUS
  <2> QED
    BY <1>2, <2>1, SMT DEF FieldElements, FIELD_MODULUS
<1> QED
  BY <1>1, <1>2, Zenon

(* The unsigned representative is the field element of the class. *)
LEMMA UnsignedRepresentative ==
    ASSUME NEW a, Small(a)
    PROVE  /\ to_unsigned_representative(a) \in FieldElements
           /\ Congruent(to_unsigned_representative(a), a)
<1>1. a \in Int /\ -FIELD_MODULUS < a /\ a < FIELD_MODULUS
  BY Zenon DEF Small
<1>2. PICK b \in Int, k \in Int :
        b = to_unsigned_representative(a) /\ b = a + k * FIELD_MODULUS
        /\ 0 <= b /\ b < FIELD_MODULUS
  <2>1. CASE a < 0
    <3>1. to_unsigned_representative(a) = a + 1 * FIELD_MODULUS
      BY <1>1, <2>1, SMT DEF to_unsigned_representative, FIELD_MODULUS
    <3> QED
      BY <1>1, <2>1, <3>1, SMT DEF FIELD_MODULUS
  <2>2. CASE ~(a < 0)
    <3>1. to_unsigned_representative(a) = a + 0 * FIELD_MODULUS
      BY <1>1, <2>2, SMT DEF to_unsigned_representative, FIELD_MODULUS
    <3> QED
      BY <1>1, <2>2, <3>1, SMT DEF FIELD_MODULUS
  <2> QED
    BY <2>1, <2>2
<1>3. b \in FieldElements
  BY <1>2, FieldElementsRange, Zenon
<1> QED
  BY <1>2, <1>3, Zenon DEF Congruent

(* Serialisation keeps the residues and gives field elements. *)
LEMMA SerializeResidues ==
    ASSUME NEW v, SmallVector(v)
    PROVE  /\ serialize_vector(v) \in [Ranks -> [Coefficients -> FieldElements]]
           /\ SameResidues(serialize_vector(v), v)
<1>1. \A i \in Ranks, n \in Coefficients :
         /\ to_unsigned_representative(v[i][n]) \in FieldElements
         /\ Congruent(to_unsigned_representative(v[i][n]), v[i][n])
  BY UnsignedRepresentative, Zenon DEF SmallVector
<1>2. PICK w : w = serialize_vector(v)
  OBVIOUS
<1>3. \A i \in Ranks, n \in Coefficients : w[i][n] = to_unsigned_representative(v[i][n])
  BY <1>2 DEF serialize_vector
<1>4. w \in [Ranks -> [Coefficients -> FieldElements]]
  BY <1>1, <1>2, Zenon DEF serialize_vector
<1>5. SameResidues(w, v)
  BY <1>1, <1>3, Zenon DEF SameResidues
<1> QED
  BY <1>2, <1>4, <1>5, Zenon

(* Field elements are integers. *)
LEMMA FieldElementsInt == FieldElements \subseteq Int
  BY SMT DEF FieldElements, FIELD_MODULUS

(* Deserialisation leaves field elements as they are. *)
LEMMA ReducedIsReduced ==
    ASSUME NEW v \in [Ranks -> [Coefficients -> FieldElements]]
    PROVE  DeserializeReduced(v) = v
<1>1. ASSUME NEW a \in FieldElements
      PROVE  cond_subtract_3329(a) = a
  <2>1. a \in Int /\ a < FIELD_MODULUS
    BY FieldElementsRange, Zenon
  <2>2. ~(a >= FIELD_MODULUS)
    BY <2>1, SMT DEF FIELD_MODULUS
  <2> QED
    BY <2>2, Zenon DEF cond_subtract_3329
<1>2. \A i \in Ranks, n \in Coefficients : cond_subtract_3329(v[i][n]) = v[i][n]
  BY <1>1, Zenon
<1>3. v = [i \in Ranks |-> [n \in Coefficients |-> v[i][n]]]
  OBVIOUS
<1>4. DeserializeReduced(v) = [i \in Ranks |-> [n \in Coefficients |-> v[i][n]]]
  BY <1>2, Zenon DEF DeserializeReduced
<1> QED
  BY <1>3, <1>4, Zenon

(* Seeds from which noise is drawn. *)
NoiseSeed(seed) ==
    \A i \in 0..(2 * K), n \in Coefficients : SampleCbd(seed, i, n) \in -3..3

(* Noise is small. *)
LEMMA NoiseVector ==
    ASSUME ParametersOk, NEW seed, NoiseSeed(seed), NEW first \in {0, K}
    PROVE  /\ SmallVector(SampleVectorCbd(seed, first))
           /\ \A i \in Ranks, n \in Coefficients :
                 SampleVectorCbd(seed, first)[i][n] \in -3..3
<1>1. PICK v : v = SampleVectorCbd(seed, first)
  OBVIOUS
<1>2. ASSUME NEW i \in Ranks, NEW n \in Coefficients
      PROVE  v[i][n] \in -3..3
  <2>1. first + i - 1 \in 0..(2 * K)
    BY SMT DEF ParametersOk, Ranks
  <2>2. v[i][n] = SampleCbd(seed, first + i - 1, n)
    BY <1>1, Zenon DEF SampleVectorCbd
  <2> QED
    BY <2>1, <2>2, Zenon DEF NoiseSeed
<1>3. \A a \in -3..3 : Small(a) /\ a \in Int
  BY SMT DEF Small, FIELD_MODULUS
<1>4. v = [i \in Ranks |-> [n \in Coefficients |-> v[i][n]]]
  BY <1>1, Zenon DEF SampleVectorCbd
<1>5. v \in Vectors
  BY <1>2, <1>3, <1>4, Zenon DEF Vectors, Elements
<1> QED
  BY <1>1, <1>2, <1>3, <1>5, Zenon DEF SmallVector

(* A row of the matrix is a vector. *)
LEMMA MatrixRow ==
    ASSUME ParametersOk, NEW d \in Seeds, NEW b \in BOOLEAN, NEW i \in Ranks
    PROVE  sample_matrix_A(d, b)[i] \in Vectors
<1>1. \A j \in Ranks, n \in Coefficients :
        SampleUniform(d, i, j, n) \in Int /\ SampleUniform(d, j, i, n) \in Int
  <2>1. \A j \in Ranks, n \in Coefficients :
          SampleUniform(d, i, j, n) \in FieldElements /\ SampleUniform(d, j, i, n) \in FieldElements
    BY Zenon DEF ParametersOk, FieldElements
  <2> QED
    BY <2>1, FieldElementsInt, Zenon
<1>2. sample_matrix_A(d, b)[i] = [j \in Ranks |-> [n \in Coefficients |->
         IF b THEN SampleUniform(d, j, i, n) ELSE SampleUniform(d, i, j, n)]]
  BY Zenon DEF sample_matrix_A
<1>3. CASE b = TRUE
  <2>1. sample_matrix_A(d, b)[i]
           = [j \in Ranks |-> [n \in Coefficients |-> SampleUniform(d, j, i, n)]]
    BY <1>2, <1>3
  <2>2. [j \in Ranks |-> [n \in Coefficients |-> SampleUniform(d, j, i, n)]]
           \in [Ranks -> [Coefficients -> Int]]
    BY <1>1
  <2> QED
    BY <2>1, <2>2, Zenon DEF Vectors, Elements
<1>4. CASE b = FALSE
  <2>1. sample_matrix_A(d, b)[i]
           = [j \in Ranks |-> [n \in Coefficients |-> SampleUniform(d, i, j, n)]]
    BY <1>2, <1>4
  <2>2. [j \in Ranks |-> [n \in Coefficients |-> SampleUniform(d, i, j, n)]]
           \in [Ranks -> [Coefficients -> Int]]
    BY <1>1
  <2> QED
    BY <2>1, <2>2, Zenon DEF Vectors, Elements
<1> QED
  BY <1>3, <1>4, Zenon

(* The matrix of an unpacked key is the one that encryption expands. *)
LEMMA MatrixTransposed ==
    ASSUME NEW d
    PROVE  transpose_a(sample_matrix_A(d, TRUE)) = sample_matrix_A(d, FALSE)
<1>1. \A i, j \in Ranks : sample_matrix_A(d, TRUE)[j][i]
         = [n \in Coefficients |-> SampleUniform(d, i, j, n)]
  BY DEF sample_matrix_A
<1> QED
  BY <1>1, Zenon DEF transpose_a, sample_matrix_A

(* What is added to a field element before it is reduced. *)
Addends == {x \in Int : -2000 <= x /\ x <= 2000}

(* A sum of a field element and a small number reduces to its class. *)
LEMMA SumReduces ==
    ASSUME NEW x \in FieldElements, NEW e \in Addends
    PROVE  /\ Small(barrett_reduce_element(x + e))
           /\ Congruent(barrett_reduce_element(x + e), x + e)
<1>1. x \in Int /\ 0 <= x /\ x < FIELD_MODULUS
  BY FieldElementsRange, Zenon
<1>2. x + e \in Int /\ -28296 <= x + e /\ x + e <= 28296
  BY <1>1, SMT DEF FIELD_MODULUS, Addends
<1>3. PICK a \in Int : a = x + e
  BY <1>2
<1>4. PICK k \in Int : barrett_reduce_element(a) = a - k * FIELD_MODULUS
  BY <1>2, <1>3, BarrettReduces, SMT
<1>5. -FIELD_MODULUS < barrett_reduce_element(a) /\ barrett_reduce_element(a) < FIELD_MODULUS
  BY <1>2, <1>3, BarrettReduces, SMT
<1>6. PICK j \in Int : j = -k
  BY SMT
<1>7. PICK b \in Int : b = barrett_reduce_element(a) /\ b = a + j * FIELD_MODULUS
  BY <1>4, <1>6, SMT DEF FIELD_MODULUS
<1> QED
  BY <1>3, <1>5, <1>7, Zenon DEF Small, Congruent

-----------------------------------------------------------------------------
(* The secret vector, the noise and the public vector of a key pair. *)
SecretOf(d) == SampleVectorCbd(d, 0)
ErrorOf(d) == SampleVectorCbd(d, K)
PublicOf(d) == [i \in Ranks |-> AddReduce(Dot(sample_matrix_A(d, TRUE)[i], SecretOf(d)), ErrorOf(d)[i])]

(* They are what key generation computes. *)
LEMMA CpaKeyPairParts ==
    ASSUME NEW d
    PROVE  /\ CpaKeyPair(d).s = SecretOf(d) /\ CpaKeyPair(d).t = PublicOf(d)
           /\ CpaKeyPair(d).seed = d /\ CpaKeyPair(d).A = sample_matrix_A(d, TRUE)
<1>1. PICK A, s, t : A = sample_matrix_A(d, TRUE) /\ s = SecretOf(d) /\ t = PublicOf(d)
  BY Zenon
<1>2. CpaKeyPair(d) = [s |-> s, t |-> t, seed |-> d, A |-> A]
  BY <1>1, Zenon DEF CpaKeyPair, SecretOf, PublicOf, ErrorOf
<1> QED
  BY <1>1, <1>2

(* Seeds of key pairs, and of encapsulations to them, give noise. *)
LEMMA KeySeed ==
    ASSUME ParametersOk, NEW d \in Seeds
    PROVE  /\ NoiseSeed(d)
           /\ \A m \in [Coefficients -> {0, 1}] : NoiseSeed(G(m, Hash(d)))
  BY Zenon DEF ParametersOk, NoiseSeed

(* Secret and public vectors are small. *)
LEMMA KeyVectors ==
    ASSUME ParametersOk, NEW d \in Seeds
    PROVE  /\ SmallVector(SecretOf(d)) /\ SmallVector(PublicOf(d))
           /\ \A i \in Ranks, n \in Coefficients :
                 Congruent(PublicOf(d)[i][n],
                           Dot(sample_matrix_A(d, TRUE)[i], SecretOf(d))[n] + ErrorOf(d)[i][n])
<1>1. 0 \in {0, K} /\ K \in {0, K}
  OBVIOUS
<1>2. SmallVector(SecretOf(d))
  BY <1>1, KeySeed, NoiseVector, Zenon DEF SecretOf
<1>3. \A i \in Ranks, n \in Coefficients : ErrorOf(d)[i][n] \in -3..3
  BY <1>1, KeySeed, NoiseVector, Zenon DEF ErrorOf
<1>4. \A a \in -3..3 : a \in Addends
  BY SMT DEF Addends
<1>5. PICK p, s, e : p = PublicOf(d) /\ s = SecretOf(d) /\ e = ErrorOf(d)
  OBVIOUS
<1>6. ASSUME NEW i \in Ranks, NEW n \in Coefficients
      PROVE  /\ Small(p[i][n])
             /\ Congruent(p[i][n], Dot(sample_matrix_A(d, TRUE)[i], s)[n] + e[i][n])
  <2>1. PICK x \in FieldElements : x = Dot(sample_matrix_A(d, TRUE)[i], s)[n]
    BY <1>2, <1>5, MatrixRow, DotElement, Zenon DEF SmallVector
  <2>2. PICK y \in Addends : y = e[i][n]
    BY <1>3, <1>4, <1>5, Zenon
  <2>3. p[i][n] = barrett_reduce_element(x + y)
    BY <1>5, <2>1, <2>2, Zenon DEF PublicOf, AddReduce
  <2> QED
    BY <2>1, <2>2, <2>3, SumReduces, Zenon
<1>7. p = [i \in Ranks |-> [n \in Coefficients |-> p[i][n]]]
  BY <1>5, Zenon DEF PublicOf, AddReduce
<1>8. p \in Vectors
  BY <1>6, <1>7, Zenon DEF Vectors, Elements, Small
<1> QED
  BY <1>2, <1>5, <1>6, <1>8, Zenon DEF SmallVector

-----------------------------------------------------------------------------
(* The messages that a ciphertext can hold. *)
Bits == [Coefficients -> {0, 1}]

(* The parts of a ciphertext. *)
Ciphertext(ct) == ct[1] \in Vectors /\ ct[2] \in Elements

(* Compression and its inverse give integers. *)
LEMMA CompressionInt ==
    ASSUME NEW d \in CoefficientBits, NEW a \in Int
    PROVE  /\ compress_ciphertext_coefficient(d, a) \in Int
           /\ decompress_ciphertext_coefficient(d, a) \in Int
<1>1. PICK p \in Int : p = 2^d /\ p > 0
  <2>1. CASE d = 4
    BY <2>1, Powers
  <2>2. CASE d = 5
    BY <2>2, Powers
  <2>3. CASE d = 10
    BY <2>3, Powers
  <2>4. CASE d = 11
    BY <2>4, Powers
  <2> QED
    BY <2>1, <2>2, <2>3, <2>4 DEF CoefficientBits
<1>2. (a * p + 1664) \div 3329 \in Int
  BY SMT
<1>3. compress_ciphertext_coefficient(d, a) = ((a * p + 1664) \div 3329) % p
  BY <1>1 DEF compress_ciphertext_coefficient, FIELD_MODULUS
<1>4. decompress_ciphertext_coefficient(d, a) = ((a * 3329) * 2 + p) \div (p * 2)
  BY <1>1 DEF decompress_ciphertext_coefficient, FIELD_MODULUS
<1>5. PICK q \in Int : q = (a * p + 1664) \div 3329
  BY <1>2
<1>6. PICK x \in Int, y \in Int : x = (a * 3329) * 2 + p /\ y = p * 2 /\ y > 0
  BY <1>1
<1>7. q % p \in Int
  BY <1>1
<1>8. x \div y \in Int
  BY <1>6
<1> QED
  BY <1>3, <1>4, <1>5, <1>6, <1>7, <1>8

(* The compression factors are among those in use. *)
LEMMA Factors ==
    ASSUME ParametersOk
    PROVE  DU \in CoefficientBits /\ DV \in CoefficientBits
  BY DEF ParametersOk, CoefficientBits

(* The second half of a ciphertext depends on the residues of t only. *)
LEMMA SecondHalfResidues ==
    ASSUME ParametersOk, NEW t \in Vectors, NEW w \in Vectors, SameResidues(t, w),
           NEW r \in Vectors, NEW e2, NEW m
    PROVE  encrypt_c2(t, r, e2, m) = encrypt_c2(w, r, e2, m)
<1>1. Dot(t, r) = Dot(w, r)
  BY DotResidues, Zenon
<1> QED
  BY <1>1, Zenon DEF encrypt_c2

(* The first half of a ciphertext. *)
FirstHalf(A, r, e1) ==
    [i \in Ranks |-> [n \in Coefficients |->
        compress_ciphertext_coefficient(DU,
            to_unsigned_representative(AddReduce(Dot(A[i], r), e1[i])[n]))]]

(* What encrypt_c1 returns. *)
LEMMA FirstHalfParts ==
    ASSUME NEW seed, NEW A
    PROVE  /\ encrypt_c1(seed, A).r = SampleVectorCbd(seed, 0)
           /\ encrypt_c1(seed, A).e2 = [n \in Coefficients |-> SampleCbd(seed, 2 * K, n)]
           /\ encrypt_c1(seed, A).c1
                = FirstHalf(A, SampleVectorCbd(seed, 0), SampleVectorCbd(seed, K))
<1>1. PICK r, e1, e2 : /\ r = SampleVectorCbd(seed, 0) /\ e1 = SampleVectorCbd(seed, K)
                       /\ e2 = [n \in Coefficients |-> SampleCbd(seed, 2 * K, n)]
  BY Zenon
<1>2. PICK u : u = [i \in Ranks |-> AddReduce(Dot(A[i], r), e1[i])]
  BY Zenon
<1>3. PICK c1 : c1 = [i \in Ranks |-> [n \in Coefficients |->
          compress_ciphertext_coefficient(DU, to_unsigned_representative(u[i][n]))]]
  BY Zenon
<1>4. encrypt_c1(seed, A) = [c1 |-> c1, r |-> r, e2 |-> e2]
  BY <1>1, <1>2, <1>3, Zenon DEF encrypt_c1
<1>5. c1 = FirstHalf(A, r, e1)
  BY <1>2, <1>3, Zenon DEF FirstHalf
<1>6. encrypt_c1(seed, A).r = r /\ encrypt_c1(seed, A).e2 = e2 /\ encrypt_c1(seed, A).c1 = c1
  BY <1>4
<1> QED
  BY <1>1, <1>5, <1>6, Zenon

(* So does a whole ciphertext. *)
LEMMA EncryptResidues ==
    ASSUME ParametersOk, NEW t \in Vectors, NEW w \in Vectors, SameResidues(t, w),
           NEW A, NEW m, NEW seed, NoiseSeed(seed)
    PROVE  Encrypt(t, A, m, seed) = Encrypt(w, A, m, seed)
<1>1. PICK r, e2, c1 : /\ r = encrypt_c1(seed, A).r /\ e2 = encrypt_c1(seed, A).e2
                       /\ c1 = encrypt_c1(seed, A).c1
  OBVIOUS
<1>2. r \in Vectors
  <2>1. 0 \in {0, K}
    OBVIOUS
  <2>2. r = SampleVectorCbd(seed, 0)
    BY <1>1, FirstHalfParts, Zenon
  <2> QED
    BY <2>1, <2>2, NoiseVector, Zenon DEF SmallVector
<1>3. encrypt_c2(t, r, e2, m) = encrypt_c2(w, r, e2, m)
  BY <1>2, SecondHalfResidues
<1>4. /\ Encrypt(t, A, m, seed) = <<c1, encrypt_c2(t, r, e2, m)>>
      /\ Encrypt(w, A, m, seed) = <<c1, encrypt_c2(w, r, e2, m)>>
  BY <1>1, Zenon DEF Encrypt
<1> QED
  BY <1>3, <1>4, Zenon

(* A decrypted message depends on the residues of s only, and is bits. *)
LEMMA DecryptResidues ==
    ASSUME ParametersOk, NEW s \in Vectors, NEW w \in Vectors, SameResidues(s, w),
           NEW ct, Ciphertext(ct)
    PROVE  Decrypt(s, ct) = Decrypt(w, ct) /\ Decrypt(s, ct) \in Bits
<1>1. PICK u : u = [i \in Ranks |-> [n \in Coefficients |->
                      decompress_ciphertext_coefficient(DU, ct[1][i][n])]]
  BY Zenon
<1>2. u \in Vectors
  <2>1. \A i \in Ranks, n \in Coefficients : ct[1][i][n] \in Int
    BY DEF Ciphertext, Vectors, Elements
  <2>2. \A i \in Ranks, n \in Coefficients :
           decompress_ciphertext_coefficient(DU, ct[1][i][n]) \in Int
    BY <2>1, Factors, CompressionInt, Zenon
  <2> QED
    BY <1>1, <2>2, Zenon DEF Vectors, Elements
<1>3. Dot(s, u) = Dot(w, u)
  BY <1>2, DotResidues, Zenon
<1>4. Decrypt(s, ct) = Decrypt(w, ct)
  BY <1>1, <1>3, Zenon DEF Decrypt
<1>5. \A fe : compress_message_coefficient(fe) \in {0, 1}
  BY SMT DEF compress_message_coefficient
<1>6. Decrypt(s, ct) \in Bits
  BY <1>5, Zenon DEF Decrypt, Bits
<1> QED
  BY <1>4, <1>6

(* Decapsulation with the parts of a private key. *)
DecapsulateParts(s, t, A, hash, z, ct) ==
    LET m == Decrypt(s, ct)
    IN  IF ct = Encrypt(t, A, m, G(m, hash)) THEN SharedSecret(m, hash)
        ELSE ImplicitRejection(z, ct)

(* Both kinds of decapsulation are this one. *)
LEMMA UnpackedParts ==
    ASSUME NEW k, NEW ct
    PROVE  DecapsulateUnpacked(k, ct) = DecapsulateParts(k.s, k.t, k.A, k.hash, k.z, ct)
  BY Zenon DEF DecapsulateUnpacked, DecapsulateParts, compare_ciphertexts

(* The packed one takes its parts from the key. *)
LEMMA PackedParts ==
    ASSUME NEW sk, NEW ct
    PROVE  Decapsulate(sk, ct)
             = DecapsulateParts(sk.s, DeserializeReduced(sk.ek.t),
                                sample_matrix_A(sk.ek.seed, FALSE), sk.hash, sk.z, ct)
<1>1. PICK t, A : t = DeserializeReduced(sk.ek.t) /\ A = sample_matrix_A(sk.ek.seed, FALSE)
  BY Zenon
<1>2. UnpackPublicKey(sk.ek) = [t |-> t, seed |-> sk.ek.seed, A |-> A, hash |-> H(sk.ek)]
  BY <1>1, Zenon DEF UnpackPublicKey
<1>3. UnpackPublicKey(sk.ek).t = t /\ UnpackPublicKey(sk.ek).A = A
  BY <1>2
<1> QED
  BY <1>1, <1>3, Zenon DEF Decapsulate, DecapsulateParts, compare_ciphertexts

(* Vectors of one key: the secret and the public one. *)
SameKey(s, t, p, q) ==
    /\ s \in Vectors /\ t \in Vectors /\ p \in Vectors /\ q \in Vectors
    /\ SameResidues(s, p) /\ SameResidues(t, q)

(* It depends on the residues only. *)
LEMMA PartsResidues ==
    ASSUME ParametersOk, NEW d \in Seeds, NEW z, NEW ct, Ciphertext(ct),
           NEW s, NEW t, NEW p, NEW q, SameKey(s, t, p, q), NEW A
    PROVE  DecapsulateParts(s, t, A, Hash(d), z, ct) = DecapsulateParts(p, q, A, Hash(d), z, ct)
<1>0. /\ s \in Vectors /\ t \in Vectors /\ p \in Vectors /\ q \in Vectors
      /\ SameResidues(s, p) /\ SameResidues(t, q)
  BY Zenon DEF SameKey
<1>1. PICK m \in Bits : m = Decrypt(s, ct) /\ m = Decrypt(p, ct)
  BY <1>0, DecryptResidues, Zenon
<1>2. NoiseSeed(G(m, Hash(d)))
  BY KeySeed, Zenon DEF Bits
<1>3. PICK seed : seed = G(m, Hash(d))
  OBVIOUS
<1>4. NoiseSeed(seed)
  BY <1>2, <1>3, Zenon
<1>5. Encrypt(t, A, m, seed) = Encrypt(q, A, m, seed)
  BY <1>0, <1>4, EncryptResidues
<1> QED
  BY <1>1, <1>3, <1>5, Zenon DEF DecapsulateParts

-----------------------------------------------------------------------------
(* A key pair in all its forms. *)
KeyOf(d, z) ==
    [packed |-> PackedKeyPair(d, z), unpacked |-> UnpackedKeyPair(d, z),
     restored |-> keys_from_private_key(PackedKeyPair(d, z)),
     stored |-> to_bytes(UnpackedKeyPair(d, z)),
     compressed |-> to_bytes_compressed(UnpackedKeyPair(d, z))]

(* The public key bytes. *)
PublicBytes(d) == [t |-> serialize_vector(PublicOf(d)), seed |-> d]

(* What is hashed are the public key bytes. *)
LEMMA HashOfBytes ==
    ASSUME NEW d
    PROVE  PublicKeyBytes(CpaKeyPair(d)) = PublicBytes(d) /\ Hash(d) = H(PublicBytes(d))
  BY CpaKeyPairParts, Zenon DEF PublicKeyBytes, PublicBytes, Hash

(* The parts of an unpacked key pair. *)
LEMMA UnpackedForm ==
    ASSUME NEW d, NEW z
    PROVE  LET k == UnpackedKeyPair(d, z)
           IN  /\ k.s = SecretOf(d) /\ k.t = PublicOf(d) /\ k.seed = d
               /\ k.A = sample_matrix_A(d, FALSE) /\ k.hash = Hash(d) /\ k.z = z
<1>1. PICK s, t, A, h : /\ s = SecretOf(d) /\ t = PublicOf(d)
                        /\ A = sample_matrix_A(d, FALSE) /\ h = Hash(d)
  BY Zenon
<1>2. UnpackedKeyPair(d, z) = [s |-> s, t |-> t, seed |-> d, A |-> A, hash |-> h, z |-> z]
  BY <1>1, CpaKeyPairParts, MatrixTransposed, Zenon DEF UnpackedKeyPair, Hash
<1>3. PICK k : k = UnpackedKeyPair(d, z)
  OBVIOUS
<1>4. k.s = s /\ k.t = t /\ k.seed = d /\ k.A = A /\ k.hash = h /\ k.z = z
  BY <1>2, <1>3
<1> QED
  BY <1>1, <1>3, <1>4, Zenon

(* The parts of a packed key pair. *)
LEMMA PackedForm ==
    ASSUME NEW d, NEW z
    PROVE  LET k == PackedKeyPair(d, z)
           IN  /\ k.s = serialize_vector(SecretOf(d)) /\ k.ek = PublicBytes(d)
               /\ k.hash = Hash(d) /\ k.z = z
<1>1. PICK s, ek, h : /\ s = serialize_vector(SecretOf(d)) /\ ek = PublicBytes(d)
                      /\ h = Hash(d)
  OBVIOUS
<1>2. PackedKeyPair(d, z) = [s |-> s, ek |-> ek, hash |-> h, z |-> z]
  BY <1>1, CpaKeyPairParts, HashOfBytes, Zenon
     DEF PackedKeyPair, serialize_kem_secret_key
<1>3. PICK k : k = PackedKeyPair(d, z)
  OBVIOUS
<1>4. k.s = s /\ k.ek = ek /\ k.hash = h /\ k.z = z
  BY <1>2, <1>3
<1> QED
  BY <1>1, <1>3, <1>4, Zenon

(* The compressed form is the packed one. *)
LEMMA CompressedForm ==
    ASSUME NEW d, NEW z
    PROVE  to_bytes_compressed(UnpackedKeyPair(d, z)) = PackedKeyPair(d, z)
<1>1. to_bytes_compressed(UnpackedKeyPair(d, z))
        = serialize_kem_secret_key(SecretOf(d), PublicBytes(d), Hash(d), z)
  BY UnpackedForm, Zenon DEF to_bytes_compressed, PublicKey2, PublicBytes
<1>2. PackedKeyPair(d, z)
        = serialize_kem_secret_key(SecretOf(d), PublicBytes(d), Hash(d), z)
  <2>1. /\ PublicKeyBytes(CpaKeyPair(d)) = PublicBytes(d) /\ H(PublicBytes(d)) = Hash(d)
        /\ CpaKeyPair(d).s = SecretOf(d)
    BY CpaKeyPairParts, HashOfBytes, Zenon
  <2>2. PackedKeyPair(d, z) = serialize_kem_secret_key(CpaKeyPair(d).s,
          PublicKeyBytes(CpaKeyPair(d)), H(PublicKeyBytes(CpaKeyPair(d))), z)
    BY Zenon DEF PackedKeyPair
  <2> QED
    BY <2>1, <2>2, Zenon
<1> QED
  BY <1>1, <1>2, Zenon

(* The parts of a key pair restored from its stored form. *)
LEMMA StoredForm ==
    ASSUME NEW d, NEW z
    PROVE  LET k == from_bytes(to_bytes(UnpackedKeyPair(d, z)))
           IN  /\ k.s = SecretOf(d) /\ k.t = serialize_vector(PublicOf(d)) /\ k.seed = d
               /\ k.A = sample_matrix_A(d, FALSE) /\ k.hash = Hash(d) /\ k.z = z
<1>1. PICK s, t, A, h : /\ s = SecretOf(d) /\ t = serialize_vector(PublicOf(d))
                        /\ A = sample_matrix_A(d, FALSE) /\ h = Hash(d)
  BY Zenon
<1>2. PICK b : b = to_bytes(UnpackedKeyPair(d, z))
  OBVIOUS
<1>3. b = [pk1 |-> [seed |-> d, hash |-> h], pk2 |-> t, s |-> s, z |-> z, matrix |-> A]
  BY <1>1, <1>2, UnpackedForm, Zenon DEF to_bytes, PublicKey1, PublicKey2
<1>4. b.pk1 = [seed |-> d, hash |-> h] /\ b.pk2 = t /\ b.s = s /\ b.z = z /\ b.matrix = A
  BY <1>3
<1>5. b.pk1.seed = d /\ b.pk1.hash = h
  BY <1>4
<1>6. PICK k : k = from_bytes(b)
  OBVIOUS
<1>7. k = [s |-> s, t |-> t, seed |-> d, A |-> A, hash |-> h, z |-> z]
  BY <1>4, <1>5, <1>6, Zenon DEF from_bytes
<1>8. k.s = s /\ k.t = t /\ k.seed = d /\ k.A = A /\ k.hash = h /\ k.z = z
  BY <1>7
<1> QED
  BY <1>1, <1>2, <1>6, <1>8, Zenon

(* The parts of a key pair restored from its packed form. *)
LEMMA RestoredForm ==
    ASSUME NEW d, NEW z
    PROVE  LET k == keys_from_private_key(PackedKeyPair(d, z))
           IN  /\ k.s = serialize_vector(SecretOf(d))
               /\ k.t = DeserializeReduced(serialize_vector(PublicOf(d)))
               /\ k.A = sample_matrix_A(d, FALSE) /\ k.hash = Hash(d) /\ k.z = z
<1>1. PICK s, t, A, h : /\ s = serialize_vector(SecretOf(d))
                        /\ t = DeserializeReduced(serialize_vector(PublicOf(d)))
                        /\ A = sample_matrix_A(d, FALSE) /\ h = Hash(d)
  BY Zenon
<1>2. PublicBytes(d).t = serialize_vector(PublicOf(d)) /\ PublicBytes(d).seed = d
  BY DEF PublicBytes
<1>3. PICK k : k = keys_from_private_key(PackedKeyPair(d, z))
  OBVIOUS
<1>4. k = [s |-> s, t |-> t, seed |-> d, A |-> A, hash |-> h, z |-> z]
  BY <1>1, <1>2, <1>3, PackedForm, Zenon DEF keys_from_private_key
<1>5. k.s = s /\ k.t = t /\ k.A = A /\ k.hash = h /\ k.z = z
  BY <1>4
<1> QED
  BY <1>1, <1>3, <1>5, Zenon

(* The forms of a key. *)
LEMMA KeyFields ==
    ASSUME NEW d, NEW z
    PROVE  LET k == KeyOf(d, z)
           IN  /\ k.packed = PackedKeyPair(d, z) /\ k.unpacked = UnpackedKeyPair(d, z)
               /\ k.restored = keys_from_private_key(PackedKeyPair(d, z))
               /\ k.stored = to_bytes(UnpackedKeyPair(d, z))
               /\ k.compressed = to_bytes_compressed(UnpackedKeyPair(d, z))
<1>1. PICK p, u, r, s, c :
        /\ p = PackedKeyPair(d, z) /\ u = UnpackedKeyPair(d, z)
        /\ r = keys_from_private_key(PackedKeyPair(d, z))
        /\ s = to_bytes(UnpackedKeyPair(d, z))
        /\ c = to_bytes_compressed(UnpackedKeyPair(d, z))
  OBVIOUS
<1>2. PICK k : k = KeyOf(d, z)
  OBVIOUS
<1>3. k = [packed |-> p, unpacked |-> u, restored |-> r, stored |-> s, compressed |-> c]
  BY <1>1, <1>2, Zenon DEF KeyOf
<1>4. k.packed = p /\ k.unpacked = u /\ k.restored = r /\ k.stored = s /\ k.compressed = c
  BY <1>3
<1> QED
  BY <1>1, <1>2, <1>4, Zenon

(* Decapsulation with the vectors that key generation computed. *)
Plain(d, z, ct) ==
    DecapsulateParts(SecretOf(d), PublicOf(d), sample_matrix_A(d, FALSE), Hash(d), z, ct)

(* Congruent vectors of a key, and itself. *)
LEMMA KeyResidues ==
    ASSUME ParametersOk, NEW d \in Seeds
    PROVE  /\ SecretOf(d) \in Vectors /\ PublicOf(d) \in Vectors
           /\ serialize_vector(SecretOf(d)) \in Vectors
           /\ serialize_vector(PublicOf(d)) \in Vectors
           /\ SameResidues(serialize_vector(SecretOf(d)), SecretOf(d))
           /\ SameResidues(serialize_vector(PublicOf(d)), PublicOf(d))
           /\ SameResidues(SecretOf(d), SecretOf(d))
           /\ DeserializeReduced(serialize_vector(PublicOf(d))) = serialize_vector(PublicOf(d))
<1>1. SmallVector(SecretOf(d)) /\ SmallVector(PublicOf(d))
  BY KeyVectors, Zenon
<1>2. ASSUME NEW v, SmallVector(v)
      PROVE  /\ v \in Vectors /\ serialize_vector(v) \in Vectors
             /\ SameResidues(serialize_vector(v), v) /\ SameResidues(v, v)
             /\ DeserializeReduced(serialize_vector(v)) = serialize_vector(v)
  <2>1. PICK w : w = serialize_vector(v)
    OBVIOUS
  <2>2. w \in [Ranks -> [Coefficients -> FieldElements]] /\ SameResidues(w, v)
    BY <1>2, <2>1, SerializeResidues, Zenon
  <2>3. w \in Vectors
    BY <2>2, FieldElementsInt, Zenon DEF Vectors, Elements
  <2>4. SameResidues(v, v)
    BY <1>2, CongruentReflexive, Zenon DEF SmallVector, Small, SameResidues
  <2> QED
    BY <1>2, <2>1, <2>2, <2>3, <2>4, ReducedIsReduced, Zenon DEF SmallVector
<1> QED
  BY <1>1, <1>2, Zenon

(* All forms of a key decapsulate alike. *)
LEMMA FormsDecapsulateAlike ==
    ASSUME ParametersOk, NEW d \in Seeds, NEW z, NEW ct, Ciphertext(ct)
    PROVE  /\ DecapsulateUnpacked(KeyOf(d, z).unpacked, ct) = Plain(d, z, ct)
           /\ Decapsulations(KeyOf(d, z), ct) = {Plain(d, z, ct)}
<1>1. PICK s, t, p, q, A, h :
        /\ s = SecretOf(d) /\ t = PublicOf(d)
        /\ p = serialize_vector(SecretOf(d)) /\ q = serialize_vector(PublicOf(d))
        /\ A = sample_matrix_A(d, FALSE) /\ h = Hash(d)
  BY Zenon
<1>2. /\ s \in Vectors /\ t \in Vectors /\ p \in Vectors /\ q \in Vectors
      /\ SameResidues(p, s) /\ SameResidues(q, t) /\ SameResidues(s, s)
      /\ DeserializeReduced(q) = q
  BY <1>1, KeyResidues, Zenon
<1>3. PICK k : k = KeyOf(d, z)
  OBVIOUS
<1>parts. PICK u, v, w, b :
        /\ u = UnpackedKeyPair(d, z) /\ v = PackedKeyPair(d, z)
        /\ w = keys_from_private_key(PackedKeyPair(d, z))
        /\ b = from_bytes(to_bytes(UnpackedKeyPair(d, z)))
  OBVIOUS
<1>fields. k.unpacked = u /\ k.packed = v /\ k.restored = w /\ from_bytes(k.stored) = b
  BY <1>3, <1>parts, KeyFields
<1>packed. k.compressed = v
  BY <1>3, <1>parts, KeyFields, CompressedForm
<1>4. DecapsulateUnpacked(u, ct) = Plain(d, z, ct)
  <2>1. u.s = s /\ u.t = t /\ u.A = A /\ u.hash = h /\ u.z = z
    BY <1>1, <1>parts, UnpackedForm, Zenon
  <2> QED
    BY <1>1, <2>1, UnpackedParts, Zenon DEF Plain
<1>5. DecapsulateParts(p, q, A, h, z, ct) = Plain(d, z, ct)
  <2>1. SameKey(p, q, s, t)
    BY <1>2, Zenon DEF SameKey
  <2>2. DecapsulateParts(p, q, A, Hash(d), z, ct) = DecapsulateParts(s, t, A, Hash(d), z, ct)
    BY <2>1, PartsResidues
  <2> QED
    BY <1>1, <2>2, Zenon DEF Plain
<1>6. DecapsulateParts(s, q, A, h, z, ct) = Plain(d, z, ct)
  <2>1. SameKey(s, q, s, t)
    BY <1>2, Zenon DEF SameKey
  <2>2. DecapsulateParts(s, q, A, Hash(d), z, ct) = DecapsulateParts(s, t, A, Hash(d), z, ct)
    BY <2>1, PartsResidues
  <2> QED
    BY <1>1, <2>2, Zenon DEF Plain
<1>7. PublicBytes(d).t = q /\ PublicBytes(d).seed = d
  BY <1>1 DEF PublicBytes
<1>8. Decapsulate(v, ct) = Plain(d, z, ct)
  <2>1. v.s = p /\ v.ek = PublicBytes(d) /\ v.hash = h /\ v.z = z
    BY <1>1, <1>parts, PackedForm
  <2> QED
    BY <1>1, <1>2, <1>5, <1>7, <2>1, PackedParts, Zenon
<1>9. DecapsulateUnpacked(w, ct) = Plain(d, z, ct)
  <2>1. w.s = p /\ w.t = q /\ w.A = A /\ w.hash = h /\ w.z = z
    BY <1>1, <1>2, <1>parts, RestoredForm, Zenon
  <2> QED
    BY <1>5, <2>1, UnpackedParts
<1>10. DecapsulateUnpacked(b, ct) = Plain(d, z, ct)
  <2>1. b.s = s /\ b.t = q /\ b.A = A /\ b.hash = h /\ b.z = z
    BY <1>1, <1>parts, StoredForm, Zenon
  <2> QED
    BY <1>6, <2>1, UnpackedParts
<1>12. Decapsulations(k, ct) = {Plain(d, z, ct)}
  BY <1>fields, <1>packed, <1>4, <1>8, <1>9, <1>10, Zenon DEF Decapsulations
<1> QED
  BY <1>3, <1>fields, <1>4, <1>12, Zenon

(* Reduction gives integers. *)
LEMMA ReductionInt ==
    ASSUME NEW a \in Int
    PROVE  barrett_reduce_element(a) \in Int /\ to_unsigned_representative(a) \in Int
<1>1. (a * 20159 + 33554432) \div 67108864 \in Int
  BY SMT
<1> QED
  BY <1>1, SMT DEF barrett_reduce_element, to_unsigned_representative, FIELD_MODULUS

(* A sum of ring elements is compressed to integers. *)
LEMMA CompressedInt ==
    ASSUME NEW bits \in CoefficientBits, NEW x, NEW e, NEW n \in Coefficients,
           x[n] \in Int, e[n] \in Int
    PROVE  compress_ciphertext_coefficient(bits,
               to_unsigned_representative(AddReduce(x, e)[n])) \in Int
<1>1. PICK a \in Int : a = x[n] + e[n]
  OBVIOUS
<1>2. AddReduce(x, e)[n] = barrett_reduce_element(a)
  BY <1>1, Zenon DEF AddReduce
<1> QED
  BY <1>2, ReductionInt, CompressionInt, Zenon

(* Encryption gives ciphertexts. *)
LEMMA EncryptsToCiphertext ==
    ASSUME ParametersOk, NEW d \in Seeds, NEW m \in Bits, NEW t \in Vectors
    PROVE  Ciphertext(Encrypt(t, sample_matrix_A(d, FALSE), m, G(m, Hash(d))))
<1>1. PICK seed, A : seed = G(m, Hash(d)) /\ A = sample_matrix_A(d, FALSE)
  BY Zenon
<1>2. NoiseSeed(seed)
  BY <1>1, KeySeed, Zenon DEF Bits
<1>3. PICK r, e1 : r = SampleVectorCbd(seed, 0) /\ e1 = SampleVectorCbd(seed, K)
  OBVIOUS
<1>4. PICK c1, e2 : c1 = encrypt_c1(seed, A).c1 /\ e2 = encrypt_c1(seed, A).e2
  OBVIOUS
<1>5. r \in Vectors /\ e1 \in Vectors
  <2>1. 0 \in {0, K} /\ K \in {0, K}
    OBVIOUS
  <2> QED
    BY <1>2, <1>3, <2>1, NoiseVector, Zenon DEF SmallVector
<1>6. c1 \in Vectors
  <2>1. ASSUME NEW i \in Ranks, NEW n \in Coefficients
        PROVE  compress_ciphertext_coefficient(DU,
                 to_unsigned_representative(AddReduce(Dot(A[i], r), e1[i])[n])) \in Int
    <3>1. Dot(A[i], r)[n] \in Int
      <4>1. A[i] \in Vectors
        BY <1>1, MatrixRow, Zenon
      <4> QED
        BY <1>5, <4>1, DotElement, FieldElementsInt, Zenon
    <3>2. e1[i][n] \in Int
      BY <1>5, Zenon DEF Vectors, Elements
    <3> QED
      BY <3>1, <3>2, Factors, CompressedInt, Zenon
  <2>2. c1 = FirstHalf(A, r, e1)
    BY <1>3, <1>4, FirstHalfParts, Zenon
  <2> QED
    BY <2>1, <2>2, Zenon DEF FirstHalf, Vectors, Elements
<1>7. encrypt_c2(t, r, e2, m) \in Elements
  <2>1. PICK message : message = [n \in Coefficients |-> decompress_1(m[n]) + e2[n]]
    BY Zenon
  <2>2. ASSUME NEW n \in Coefficients
        PROVE  compress_ciphertext_coefficient(DV,
                 to_unsigned_representative(AddReduce(Dot(t, r), message)[n])) \in Int
    <3>1. Dot(t, r)[n] \in Int
      BY <1>5, DotElement, FieldElementsInt, Zenon
    <3>2. e2[n] \in -3..3
      <4>1. e2[n] = SampleCbd(seed, 2 * K, n)
        <5>1. e2 = [i \in Coefficients |-> SampleCbd(seed, 2 * K, i)]
          BY <1>4, FirstHalfParts
        <5> QED
          BY <5>1
      <4>2. 2 * K \in 0..(2 * K)
        BY SMT DEF ParametersOk
      <4> QED
        BY <1>2, <4>1, <4>2, Zenon DEF NoiseSeed
    <3>3. decompress_1(m[n]) \in Int
      BY DEF decompress_1
    <3>4. message[n] \in Int
      BY <2>1, <3>2, <3>3
    <3> QED
      BY <3>1, <3>4, Factors, CompressedInt, Zenon
  <2>3. encrypt_c2(t, r, e2, m) = [n \in Coefficients |->
           compress_ciphertext_coefficient(DV,
             to_unsigned_representative(AddReduce(Dot(t, r), message)[n]))]
    BY <2>1, Zenon DEF encrypt_c2
  <2> QED
    BY <2>2, <2>3, Zenon DEF Elements
<1>8. PICK c2 : c2 = encrypt_c2(t, r, e2, m)
  OBVIOUS
<1>9. Encrypt(t, A, m, seed) = <<c1, c2>>
  BY <1>3, <1>4, <1>8, FirstHalfParts, Zenon DEF Encrypt
<1>10. <<c1, c2>>[1] = c1 /\ <<c1, c2>>[2] = c2
  OBVIOUS
<1> QED
  BY <1>1, <1>6, <1>7, <1>8, <1>9, <1>10, Zenon DEF Ciphertext

-----------------------------------------------------------------------------
(* The first half of the public key of d. *)
First(d) == [seed |-> d, hash |-> Hash(d)]

(* The matrix of d, and the randomness of an encapsulation of m to it. *)
MatrixOf(d) == sample_matrix_A(d, FALSE)
Randomness(d, m) == G(m, Hash(d))

(* What encapsulate1 returned for m. *)
Begun(d, m, e) ==
    /\ e.pk1 = First(d)
    /\ e.c1 = encrypt_c1(Randomness(d, m), MatrixOf(d)).c1
    /\ e.ss = SharedSecret(m, Hash(d))
    /\ e.state = [r |-> encrypt_c1(Randomness(d, m), MatrixOf(d)).r,
                  e2 |-> encrypt_c1(Randomness(d, m), MatrixOf(d)).e2, m |-> m]

(* A finished encapsulation of m: the ciphertext for the second half used. *)
Made(d, m, e) ==
    /\ e.pk1 = First(d)
    /\ e.pk2 \in Vectors
    /\ e.ct = Encrypt(e.pk2, MatrixOf(d), m, Randomness(d, m))
    /\ e.ss = SharedSecret(m, Hash(d))

(* The inductive invariant: every key is what key generation makes of some *)
(* seed and rejection value, every encapsulation begun is what encapsulate1 *)
(* returns for some message and first half, and every finished one holds    *)
(* the encryption of its message to the second half it was given.           *)
KemInv ==
    /\ \A k \in keys : \E d \in Seeds, z \in RejectionValues : k = KeyOf(d, z)
    /\ \A e \in started : \E d \in Seeds, m \in Messages : Begun(d, m, e)
    /\ \A e \in done : \E d \in Seeds, m \in Messages : Made(d, m, e)

(* The first half of the public key of an unpacked key pair. *)
LEMMA FirstOfKey ==
    ASSUME NEW d, NEW z
    PROVE  /\ PublicKey1(KeyOf(d, z).unpacked) = First(d)
           /\ PublicKey2(KeyOf(d, z).unpacked) = serialize_vector(PublicOf(d))
<1>1. PICK k : k = UnpackedKeyPair(d, z)
  OBVIOUS
<1>2. KeyOf(d, z).unpacked = k
  BY <1>1, KeyFields
<1>3. k.seed = d /\ k.hash = Hash(d) /\ k.t = PublicOf(d)
  BY <1>1, UnpackedForm, Zenon
<1> QED
  BY <1>2, <1>3, Zenon DEF PublicKey1, PublicKey2, First

(* A finished encapsulation, from its parts. *)
LEMMA FinishedMade ==
    ASSUME NEW d, NEW m, NEW pk2 \in Vectors, NEW ct, NEW e,
           ct = Encrypt(pk2, MatrixOf(d), m, Randomness(d, m)),
           e = [pk1 |-> First(d), pk2 |-> pk2, ct |-> ct, ss |-> SharedSecret(m, Hash(d))]
    PROVE  Made(d, m, e)
<1>1. PICK pk1, ss : pk1 = First(d) /\ ss = SharedSecret(m, Hash(d))
  OBVIOUS
<1>2. e = [pk1 |-> pk1, pk2 |-> pk2, ct |-> ct, ss |-> ss]
  BY <1>1, Zenon
<1>3. e.pk1 = pk1 /\ e.pk2 = pk2 /\ e.ct = ct /\ e.ss = ss
  BY <1>2
<1> QED
  BY <1>1, <1>3, Zenon DEF Made

(* A new encapsulation keeps the invariant. *)
LEMMA FinishedStep ==
    ASSUME KemInv, NEW d \in Seeds, NEW m \in Messages, NEW e, Made(d, m, e),
           done' = done \cup {e}, keys' = keys, started' = started
    PROVE  KemInv'
<1>1. \A x \in done' : \E c \in Seeds, n \in Messages : Made(c, n, x)
  BY Zenon DEF KemInv
<1> QED
  BY <1>1, Zenon DEF KemInv

(* Key generation, and all the forms it leaves a key in, keep it. *)
LEMMA GenerateStep ==
    ASSUME KemInv, NEW d \in Seeds, NEW z \in RejectionValues, GenerateKeyPair(d, z)
    PROVE  KemInv'
<1>1. keys' = keys \cup {KeyOf(d, z)} /\ started' = started /\ done' = done
  BY Zenon DEF GenerateKeyPair, KeyOf
<1>2. \A k \in keys' : \E c \in Seeds, x \in RejectionValues : k = KeyOf(c, x)
  BY <1>1, Zenon DEF KemInv
<1> QED
  BY <1>1, <1>2, Zenon DEF KemInv

(* What an encapsulation to an unpacked public key returns. *)
LEMMA EncapsulatedParts ==
    ASSUME NEW pk, NEW m
    PROVE  /\ EncapsulateUnpacked(pk, m).ct = Encrypt(pk.t, pk.A, m, G(m, pk.hash))
           /\ EncapsulateUnpacked(pk, m).ss = SharedSecret(m, pk.hash)
<1>1. PICK ct, ss : ct = Encrypt(pk.t, pk.A, m, G(m, pk.hash)) /\ ss = SharedSecret(m, pk.hash)
  OBVIOUS
<1>2. PICK r : r = EncapsulateUnpacked(pk, m)
  OBVIOUS
<1>3. r = [ct |-> ct, ss |-> ss]
  BY <1>1, <1>2, Zenon DEF EncapsulateUnpacked
<1>4. r.ct = ct /\ r.ss = ss
  BY <1>3
<1> QED
  BY <1>1, <1>2, <1>4, Zenon

(* The public key bytes, unpacked. *)
LEMMA UnpackedBytes ==
    ASSUME ParametersOk, NEW d \in Seeds
    PROVE  LET pk == UnpackPublicKey(PublicBytes(d))
           IN  /\ pk.t = serialize_vector(PublicOf(d)) /\ pk.A = MatrixOf(d)
               /\ pk.hash = Hash(d)
<1>1. PICK t, A, h : /\ t = serialize_vector(PublicOf(d)) /\ A = MatrixOf(d) /\ h = Hash(d)
  OBVIOUS
<1>2. PublicBytes(d).t = t /\ PublicBytes(d).seed = d
  BY <1>1 DEF PublicBytes
<1>3. DeserializeReduced(t) = t
  BY <1>1, KeyResidues, Zenon
<1>4. PICK pk : pk = UnpackPublicKey(PublicBytes(d))
  OBVIOUS
<1>5. pk = [t |-> t, seed |-> d, A |-> A, hash |-> h]
  BY <1>1, <1>2, <1>3, <1>4, HashOfBytes, Zenon DEF UnpackPublicKey, MatrixOf
<1>6. pk.t = t /\ pk.A = A /\ pk.hash = h
  BY <1>5
<1> QED
  BY <1>1, <1>4, <1>6, Zenon

(* Messages are bits. *)
LEMMA MessageBits ==
    ASSUME ParametersOk, NEW m \in Messages
    PROVE  m \in Bits
  BY Zenon DEF ParametersOk, Bits

(* Encryption to the serialised public vector is encryption to the vector. *)
LEMMA EncryptSerialized ==
    ASSUME ParametersOk, NEW d \in Seeds, NEW m \in Bits
    PROVE  Encrypt(serialize_vector(PublicOf(d)), MatrixOf(d), m, Randomness(d, m))
             = Encrypt(PublicOf(d), MatrixOf(d), m, Randomness(d, m))
<1>1. PICK p, q, A, seed : /\ p = serialize_vector(PublicOf(d)) /\ q = PublicOf(d)
                           /\ A = MatrixOf(d) /\ seed = Randomness(d, m)
  OBVIOUS
<1>2. p \in Vectors /\ q \in Vectors /\ SameResidues(p, q)
  BY <1>1, KeyResidues, Zenon
<1>3. NoiseSeed(seed)
  BY <1>1, KeySeed, Zenon DEF Randomness, Bits
<1>4. Encrypt(p, A, m, seed) = Encrypt(q, A, m, seed)
  BY <1>2, <1>3, EncryptResidues
<1> QED
  BY <1>1, <1>4, Zenon

(* One-step encapsulation to the public key bytes keeps it. *)
LEMMA EncapsulateStep ==
    ASSUME ParametersOk, KemInv, NEW k \in keys, NEW m \in Messages, Encapsulate(k, m)
    PROVE  KemInv'
<1>1. PICK d \in Seeds, z \in RejectionValues : k = KeyOf(d, z)
  BY Zenon DEF KemInv
<1>2. PICK t, A, h : /\ t = serialize_vector(PublicOf(d)) /\ A = MatrixOf(d) /\ h = Hash(d)
  OBVIOUS
<1>3. PICK b, p : b = PublicBytes(d) /\ p = PackedKeyPair(d, z)
  OBVIOUS
<1>4. k.packed = p /\ p.ek = b /\ b.t = t
  <2>1. k.packed = p
    BY <1>1, <1>3, KeyFields
  <2>2. p.ek = b
    BY <1>3, PackedForm
  <2>3. b.t = t
    BY <1>2, <1>3 DEF PublicBytes
  <2> QED
    BY <2>1, <2>2, <2>3
<1>5. PICK pk : pk = UnpackPublicKey(b)
  OBVIOUS
<1>6. pk.t = t /\ pk.A = A /\ pk.hash = h
  BY <1>2, <1>3, <1>5, UnpackedBytes
<1>7. PICK result : result = EncapsulateUnpacked(pk, m)
  OBVIOUS
<1>8. result.ct = Encrypt(t, A, m, G(m, h)) /\ result.ss = SharedSecret(m, h)
  BY <1>6, <1>7, EncapsulatedParts
<1>9. PublicKey1(k.unpacked) = First(d)
  BY <1>1, FirstOfKey
<1>10. PICK e : e = [pk1 |-> First(d), pk2 |-> t, ct |-> result.ct, ss |-> result.ss]
  BY Zenon
<1>11. done' = done \cup {e} /\ keys' = keys /\ started' = started
  BY <1>4, <1>5, <1>7, <1>9, <1>10, Zenon DEF Encapsulate, Finished
<1>12. Made(d, m, e)
  <2>1. t \in Vectors
    BY <1>2, KeyResidues, Zenon
  <2>2. result.ct = Encrypt(t, MatrixOf(d), m, Randomness(d, m))
    BY <1>2, <1>8, Zenon DEF Randomness
  <2>3. e = [pk1 |-> First(d), pk2 |-> t, ct |-> result.ct, ss |-> SharedSecret(m, Hash(d))]
    BY <1>2, <1>8, <1>10, Zenon
  <2> QED
    BY <2>1, <2>2, <2>3, FinishedMade
<1> QED
  BY <1>11, <1>12, FinishedStep

(* One-step encapsulation to an unpacked public key keeps it. *)
LEMMA EncapsulateToUnpackedStep ==
    ASSUME ParametersOk, KemInv, NEW k \in keys, NEW m \in Messages, EncapsulateToUnpacked(k, m)
    PROVE  KemInv'
<1>1. PICK d \in Seeds, z \in RejectionValues : k = KeyOf(d, z)
  BY Zenon DEF KemInv
<1>2. PICK t, p, A, h : /\ t = serialize_vector(PublicOf(d)) /\ p = PublicOf(d)
                        /\ A = MatrixOf(d) /\ h = Hash(d)
  OBVIOUS
<1>3. PICK u : u = UnpackedKeyPair(d, z)
  OBVIOUS
<1>4. k.unpacked = u
  BY <1>1, <1>3, KeyFields
<1>5. u.t = p /\ u.A = A /\ u.hash = h
  BY <1>2, <1>3, UnpackedForm, Zenon DEF MatrixOf
<1>6. PICK result : result = EncapsulateUnpacked(u, m)
  OBVIOUS
<1>7. result.ct = Encrypt(p, A, m, G(m, h)) /\ result.ss = SharedSecret(m, h)
  BY <1>5, <1>6, EncapsulatedParts
<1>8. PublicKey1(u) = First(d) /\ PublicKey2(u) = t
  BY <1>1, <1>2, <1>4, FirstOfKey
<1>9. PICK e : e = [pk1 |-> First(d), pk2 |-> t, ct |-> result.ct, ss |-> result.ss]
  BY Zenon
<1>10. done' = done \cup {e} /\ keys' = keys /\ started' = started
  BY <1>4, <1>6, <1>8, <1>9, Zenon DEF EncapsulateToUnpacked, Finished
<1>11. Made(d, m, e)
  <2>1. t \in Vectors
    BY <1>2, KeyResidues, Zenon
  <2>2. result.ct = Encrypt(t, MatrixOf(d), m, Randomness(d, m))
    <3>1. Encrypt(t, MatrixOf(d), m, Randomness(d, m)) = Encrypt(p, A, m, Randomness(d, m))
      BY <1>2, MessageBits, EncryptSerialized
    <3> QED
      BY <1>2, <1>7, <3>1, Zenon DEF Randomness
  <2>3. e = [pk1 |-> First(d), pk2 |-> t, ct |-> result.ct, ss |-> SharedSecret(m, Hash(d))]
    BY <1>2, <1>7, <1>9, Zenon
  <2> QED
    BY <2>1, <2>2, <2>3, FinishedMade
<1> QED
  BY <1>10, <1>11, FinishedStep

(* encapsulate1, which sees only the first half, keeps it. *)
LEMMA Encapsulate1Step ==
    ASSUME KemInv, NEW k \in keys, NEW m \in Messages, Encapsulate1(PublicKey1(k.unpacked), m)
    PROVE  KemInv'
<1>1. PICK d \in Seeds, z \in RejectionValues : k = KeyOf(d, z)
  BY Zenon DEF KemInv
<1>2. PublicKey1(k.unpacked) = First(d)
  BY <1>1, FirstOfKey
<1>3. First(d).seed = d /\ First(d).hash = Hash(d)
  BY DEF First
<1>4. PICK f : f = encrypt_c1(Randomness(d, m), MatrixOf(d))
  OBVIOUS
<1>5. PICK pk1, ss, c1, state :
        /\ pk1 = First(d) /\ ss = SharedSecret(m, Hash(d)) /\ c1 = f.c1
        /\ state = [r |-> f.r, e2 |-> f.e2, m |-> m]
  BY Zenon
<1>6. PICK e : e = [pk1 |-> pk1, c1 |-> c1, ss |-> ss, state |-> state]
  BY Zenon
<1>7. started' = started \cup {e} /\ keys' = keys /\ done' = done
  BY <1>2, <1>3, <1>4, <1>5, <1>6, Zenon DEF Encapsulate1, Randomness, MatrixOf
<1>8. e.pk1 = pk1 /\ e.c1 = c1 /\ e.ss = ss /\ e.state = state
  BY <1>6
<1>9. Begun(d, m, e)
  BY <1>4, <1>5, <1>8, Zenon DEF Begun
<1>10. \A x \in started' : \E c \in Seeds, n \in Messages : Begun(c, n, x)
  BY <1>7, <1>9, Zenon DEF KemInv
<1> QED
  BY <1>7, <1>10, Zenon DEF KemInv

(* A vector with one coefficient moved is a vector. *)
LEMMA MovedVector ==
    ASSUME NEW t \in Vectors, NEW i \in Ranks, NEW n \in Coefficients
    PROVE  [t EXCEPT ![i][n] = @ + FIELD_MODULUS] \in Vectors
<1>1. t[i] \in Elements
  BY DEF Vectors
<1>2. t[i][n] + FIELD_MODULUS \in Int
  BY <1>1 DEF Elements, FIELD_MODULUS
<1>3. [t[i] EXCEPT ![n] = @ + FIELD_MODULUS] \in Elements
  BY <1>1, <1>2 DEF Elements
<1>4. [t EXCEPT ![i][n] = @ + FIELD_MODULUS]
        = [t EXCEPT ![i] = [t[i] EXCEPT ![n] = @ + FIELD_MODULUS]]
  OBVIOUS
<1> QED
  BY <1>3, <1>4 DEF Vectors

(* The second halves that can arrive are vectors. *)
LEMMA SecondHalvesVectors ==
    ASSUME ParametersOk, KemInv, NEW pk2 \in SecondHalves
    PROVE  pk2 \in Vectors
<1>1. PICK k \in keys : pk2 \in {PublicKey2(k.unpacked)} \cup Beyond(PublicKey2(k.unpacked))
  BY Zenon DEF SecondHalves
<1>2. PICK d \in Seeds, z \in RejectionValues : k = KeyOf(d, z)
  BY Zenon DEF KemInv
<1>3. PICK t : t = PublicKey2(k.unpacked)
  OBVIOUS
<1>4. t = serialize_vector(PublicOf(d))
  BY <1>2, <1>3, FirstOfKey
<1>5. t \in Vectors
  BY <1>4, KeyResidues, Zenon
<1>6. CASE pk2 \in Beyond(t)
  <2> DEFINE Moved(p) == [t EXCEPT ![p[1]][p[2]] = @ + FIELD_MODULUS]
             Room(q) == t[q[1]][q[2]] + FIELD_MODULUS < 4096
  <2>0. Beyond(t) = {Moved(p) : p \in {q \in Ranks \X Coefficients : Room(q)}}
    BY DEF Beyond
  <2> HIDE DEF Moved, Room
  <2>1. PICK p \in Ranks \X Coefficients : pk2 = Moved(p)
    BY <1>6, <2>0, Zenon
  <2>2. PICK i \in Ranks, n \in Coefficients : p[1] = i /\ p[2] = n
    BY <2>1
  <2>3. pk2 = [t EXCEPT ![i][n] = @ + FIELD_MODULUS]
    BY <2>1, <2>2 DEF Moved
  <2> QED
    BY <1>5, <2>3, MovedVector, Zenon
<1> QED
  BY <1>1, <1>3, <1>5, <1>6, Zenon

(* encapsulate2 keeps it, whichever second half it is given. *)
LEMMA Encapsulate2Step ==
    ASSUME ParametersOk, KemInv, NEW e \in started, NEW pk2 \in SecondHalves, Encapsulate2(e, pk2)
    PROVE  KemInv'
<1>1. PICK d \in Seeds, m \in Messages : Begun(d, m, e)
  BY Zenon DEF KemInv
<1>2. PICK f : f = encrypt_c1(Randomness(d, m), MatrixOf(d))
  OBVIOUS
<1>3. PICK r, e2 : r = f.r /\ e2 = f.e2
  OBVIOUS
<1>4. e.state = [r |-> r, e2 |-> e2, m |-> m]
  BY <1>1, <1>2, <1>3, Zenon DEF Begun
<1>5. e.state.r = r /\ e.state.e2 = e2 /\ e.state.m = m
  BY <1>4
<1>6. e.pk1 = First(d) /\ e.c1 = f.c1 /\ e.ss = SharedSecret(m, Hash(d))
  BY <1>1, <1>2, Zenon DEF Begun
<1>7. PICK ct : ct = <<f.c1, encrypt_c2(pk2, r, e2, m)>>
  BY Zenon
<1>8. PICK x : x = [pk1 |-> First(d), pk2 |-> pk2, ct |-> ct, ss |-> SharedSecret(m, Hash(d))]
  BY Zenon
<1>9. done' = done \cup {x} /\ keys' = keys /\ started' = started
  BY <1>5, <1>6, <1>7, <1>8, Zenon DEF Encapsulate2, Finished
<1>10. ct = Encrypt(pk2, MatrixOf(d), m, Randomness(d, m))
  BY <1>2, <1>3, <1>7, Zenon DEF Encrypt
<1>11. Made(d, m, x)
  BY <1>8, <1>10, SecondHalvesVectors, FinishedMade
<1> QED
  BY <1>9, <1>11, FinishedStep

(* The invariant is inductive. *)
LEMMA KemInvStep ==
    ASSUME ParametersOk, KemInv, [Next]_vars
    PROVE  KemInv'
<1>1. ASSUME NEW d \in Seeds, NEW z \in RejectionValues, GenerateKeyPair(d, z)
      PROVE  KemInv'
  BY <1>1, GenerateStep, Zenon
<1>2. ASSUME NEW k \in keys, NEW m \in Messages, Encapsulate(k, m)
      PROVE  KemInv'
  BY <1>2, EncapsulateStep, Zenon
<1>3. ASSUME NEW k \in keys, NEW m \in Messages, EncapsulateToUnpacked(k, m)
      PROVE  KemInv'
  BY <1>3, EncapsulateToUnpackedStep, Zenon
<1>4. ASSUME NEW e \in started, NEW pk2 \in SecondHalves, Encapsulate2(e, pk2)
      PROVE  KemInv'
  BY <1>4, Encapsulate2Step, Zenon
<1>5. ASSUME NEW k \in keys, NEW m \in Messages, Encapsulate1(PublicKey1(k.unpacked), m)
      PROVE  KemInv'
  BY <1>5, Encapsulate1Step, Zenon
<1>6. CASE UNCHANGED vars
  BY <1>6, Zenon DEF KemInv, vars
<1> QED
  BY <1>1, <1>2, <1>3, <1>4, <1>5, <1>6, Zenon DEF Next

(* Key generation and the three ways of encapsulation keep what they       *)
(* compute from the seeds: the invariant holds in every reachable state,   *)
(* for every rank, degree, compression factor and sampler.                 *)
THEOREM KemInvariant == Spec => []KemInv
<1> USE KemAssumption
<1>1. Init => KemInv
  BY Zenon DEF Init, KemInv
<1>2. KemInv /\ [Next]_vars => KemInv'
  BY KemInvStep, Zenon
<1> QED
  BY <1>1, <1>2, PTL DEF Spec

-----------------------------------------------------------------------------
(* Finished encapsulations hold ciphertexts, and so do their halves mixed. *)
LEMMA MixedCiphertext ==
    ASSUME ParametersOk, KemInv, NEW ct \in Mixed
    PROVE  Ciphertext(ct)
<1>1. ASSUME NEW e \in done
      PROVE  Ciphertext(e.ct)
  <2>1. PICK d \in Seeds, m \in Messages : Made(d, m, e)
    BY Zenon DEF KemInv
  <2>2. PICK t \in Vectors : e.ct = Encrypt(t, MatrixOf(d), m, Randomness(d, m))
    BY <2>1, Zenon DEF Made
  <2> QED
    BY <2>2, MessageBits, EncryptsToCiphertext, Zenon DEF MatrixOf, Randomness
<1>2. PICK e \in done, f \in done : ct = <<e.ct[1], f.ct[2]>>
  BY DEF Mixed
<1>3. ct[1] = e.ct[1] /\ ct[2] = f.ct[2]
  BY <1>2
<1> QED
  BY <1>1, <1>3, Zenon DEF Ciphertext

(* The packed forms hold the hash of the public key they hold. *)
LEMMA FormsValid ==
    ASSUME NEW d, NEW z
    PROVE  /\ validate_private_key_only(KeyOf(d, z).packed)
           /\ validate_private_key_only(KeyOf(d, z).compressed)
<1>1. PICK p : p = PackedKeyPair(d, z)
  OBVIOUS
<1>2. KeyOf(d, z).packed = p /\ KeyOf(d, z).compressed = p
  BY <1>1, KeyFields, CompressedForm
<1>3. p.ek = PublicBytes(d) /\ p.hash = Hash(d)
  BY <1>1, PackedForm
<1> QED
  BY <1>2, <1>3, HashOfBytes, Zenon DEF validate_private_key_only

(* Unpacked, packed, compressed, stored and restored private keys          *)
(* decapsulate every pair of ciphertext halves to one value, although the  *)
(* unpacked key holds signed coefficients and the others reduced ones; and *)
(* the packed forms pass validate_private_key_only.                        *)
THEOREM FormsAgreeAlways == Spec => []FormsAgree
<1> USE KemAssumption
<1>1. ASSUME KemInv
      PROVE  FormsAgree
  <2>1. ASSUME NEW k \in keys
        PROVE  /\ validate_private_key_only(k.packed)
               /\ validate_private_key_only(k.compressed)
               /\ \A ct \in Mixed : Cardinality(Decapsulations(k, ct)) = 1
    <3>1. PICK d \in Seeds, z \in RejectionValues : k = KeyOf(d, z)
      BY <1>1, Zenon DEF KemInv
    <3>2. ASSUME NEW ct \in Mixed
          PROVE  Cardinality(Decapsulations(k, ct)) = 1
      <4>1. Ciphertext(ct)
        BY <1>1, MixedCiphertext, Zenon
      <4>2. Decapsulations(k, ct) = {Plain(d, z, ct)}
        BY <3>1, <4>1, FormsDecapsulateAlike
      <4> QED
        BY <4>2, FS_Singleton, Zenon
    <3> QED
      BY <3>1, <3>2, FormsValid, Zenon
  <2> QED
    BY <2>1, Zenon DEF FormsAgree
<1> QED
  BY <1>1, KemInvariant, PTL

(* Shared secrets determine their inputs. *)
LEMMA SecretInjective ==
    ASSUME NEW m, NEW h, NEW n, NEW g, SharedSecret(m, h) = SharedSecret(n, g)
    PROVE  m = n /\ h = g
<1>1. /\ SharedSecret(m, h).m = m /\ SharedSecret(m, h).hash = h
      /\ SharedSecret(n, g).m = n /\ SharedSecret(n, g).hash = g
  BY DEF SharedSecret
<1> QED
  BY <1>1, Zenon

(* No rejection value is a shared secret. *)
LEMMA RejectionSeparate ==
    ASSUME NEW z, NEW ct, NEW n, NEW g
    PROVE  ImplicitRejection(z, ct) # SharedSecret(n, g)
<1>1. "z" \in DOMAIN ImplicitRejection(z, ct) /\ ~("z" \in DOMAIN SharedSecret(n, g))
  BY DEF ImplicitRejection, SharedSecret
<1> QED
  BY <1>1, Zenon

(* The hash determines the public key bytes. *)
LEMMA HashInjective ==
    ASSUME NEW a, NEW b, H(a) = H(b)
    PROVE  a = b
<1>1. H(a).hash_of = a /\ H(b).hash_of = b
  BY DEF H
<1> QED
  BY <1>1, Zenon

(* Two halves that pass validation are those of the key. *)
LEMMA ValidatedHalves ==
    ASSUME NEW d, NEW pk2, validate_pk_parts(First(d), pk2)
    PROVE  pk2 = serialize_vector(PublicOf(d))
<1>1. First(d).seed = d /\ First(d).hash = Hash(d)
  BY DEF First
<1>2. PICK pk : pk = [t |-> pk2, seed |-> d]
  BY Zenon
<1>3. H(pk) = Hash(d)
  BY <1>1, <1>2, Zenon DEF validate_pk_parts
<1>4. pk = PublicBytes(d)
  BY <1>3, HashOfBytes, HashInjective, Zenon
<1>5. pk.t = pk2 /\ PublicBytes(d).t = serialize_vector(PublicOf(d))
  BY <1>2 DEF PublicBytes
<1> QED
  BY <1>4, <1>5, Zenon

(* The hash determines the seed of the key. *)
LEMMA HashOfSeed ==
    ASSUME NEW c, NEW d, Hash(c) = Hash(d)
    PROVE  c = d
<1>1. PublicBytes(c) = PublicBytes(d)
  BY HashOfBytes, HashInjective, Zenon
<1>2. PublicBytes(c).seed = c /\ PublicBytes(d).seed = d
  BY DEF PublicBytes
<1> QED
  BY <1>1, <1>2, Zenon

(* A validated encapsulation is one to the public vector of the key. *)
LEMMA ValidatedCiphertext ==
    ASSUME ParametersOk, NEW d \in Seeds, NEW m \in Bits, NEW e, Made(d, m, e),
           validate_pk_parts(e.pk1, e.pk2)
    PROVE  e.ct = Encrypt(PublicOf(d), MatrixOf(d), m, Randomness(d, m))
<1>1. e.pk2 = serialize_vector(PublicOf(d))
  BY ValidatedHalves, Zenon DEF Made
<1> QED
  BY <1>1, EncryptSerialized, Zenon DEF Made

(* decapsulate never gives the secret of an encapsulation for a ciphertext *)
(* that is not the whole one of it: halves of two encapsulations do not    *)
(* pass the comparison with the ciphertext encrypted anew.                 *)
THEOREM OnlyWholeAlways == Spec => []OnlyWholeCiphertexts
<1> USE KemAssumption
<1>1. ASSUME KemInv
      PROVE  OnlyWholeCiphertexts
  <2>1. ASSUME NEW k \in keys, NEW ct \in Mixed, NEW e \in done,
               validate_pk_parts(e.pk1, e.pk2),
               DecapsulateUnpacked(k.unpacked, ct) = e.ss
        PROVE  ct = e.ct
    <3>1. PICK d \in Seeds, z \in RejectionValues : k = KeyOf(d, z)
      BY <1>1, Zenon DEF KemInv
    <3>2. PICK c \in Seeds, n \in Messages : Made(c, n, e)
      BY <1>1, Zenon DEF KemInv
    <3>3. Plain(d, z, ct) = SharedSecret(n, Hash(c))
      <4>1. Ciphertext(ct)
        BY <1>1, MixedCiphertext, Zenon
      <4>2. DecapsulateUnpacked(k.unpacked, ct) = Plain(d, z, ct)
        BY <3>1, <4>1, FormsDecapsulateAlike
      <4> QED
        BY <2>1, <3>2, <4>2, Zenon DEF Made
    <3>4. PICK m : m = Decrypt(SecretOf(d), ct)
      OBVIOUS
    <3>5. \/ /\ ct = Encrypt(PublicOf(d), MatrixOf(d), m, Randomness(d, m))
             /\ SharedSecret(m, Hash(d)) = SharedSecret(n, Hash(c))
          \/ ImplicitRejection(z, ct) = SharedSecret(n, Hash(c))
      BY <3>3, <3>4, Zenon DEF Plain, DecapsulateParts, MatrixOf, Randomness
    <3>6. /\ ct = Encrypt(PublicOf(d), MatrixOf(d), m, Randomness(d, m))
          /\ m = n /\ Hash(d) = Hash(c)
      <4>1. ImplicitRejection(z, ct) # SharedSecret(n, Hash(c))
        BY RejectionSeparate, Zenon
      <4> QED
        BY <3>5, <4>1, SecretInjective
    <3>7. c = d
      BY <3>6, HashOfSeed, Zenon
    <3>8. e.ct = Encrypt(PublicOf(c), MatrixOf(c), n, Randomness(c, n))
      BY <2>1, <3>2, MessageBits, ValidatedCiphertext, Zenon
    <3> QED
      BY <3>6, <3>7, <3>8, Zenon
  <2> QED
    BY <2>1, Zenon DEF OnlyWholeCiphertexts
<1> QED
  BY <1>1, KemInvariant, PTL

-----------------------------------------------------------------------------
(* Sums and differences of congruent numbers. *)
LEMMA CongruentSums ==
    ASSUME NEW a \in Int, NEW b \in Int, NEW c \in Int, NEW d \in Int,
           Congruent(a, b), Congruent(c, d)
    PROVE  Congruent(a + c, b + d) /\ Congruent(a - c, b - d)
<1>1. PICK k \in Int : a = b + k * FIELD_MODULUS
  BY Zenon DEF Congruent
<1>2. PICK l \in Int : c = d + l * FIELD_MODULUS
  BY Zenon DEF Congruent
<1>3. PICK i \in Int, j \in Int : i = k + l /\ j = k - l
  BY SMT
<1>4. a + c = (b + d) + i * FIELD_MODULUS /\ a - c = (b - d) + j * FIELD_MODULUS
  BY <1>1, <1>2, <1>3, SMT DEF FIELD_MODULUS
<1> QED
  BY <1>4, Zenon DEF Congruent

(* The inner product with zeros. *)
LEMMA InnerProductZero ==
    ASSUME ParametersOk, NEW s \in Row, NEW z \in Row, \A j \in 1..K : z[j] = 0
    PROVE  InnerProduct(s, z) = 0
<1>1. PICK p \in FieldElements : p = InnerProduct(s, z)
  BY InnerProductElement, Zenon
<1>2. ASSUME NEW j \in 1..K
      PROVE  Congruent(z[j], z[j] + 1 * z[j])
  <2>1. z[j] = 0 /\ 0 = 0 + 1 * 0 /\ 0 \in Int
    BY SMT
  <2> QED
    BY <2>1, CongruentReflexive, Zenon
<1>3. 1 \in Int
  OBVIOUS
<1>4. Congruent(p, p + 1 * p)
  BY <1>1, <1>2, <1>3, InnerProductLinear, Zenon
<1>5. PICK k \in Int : p = (p + 1 * p) + k * FIELD_MODULUS
  BY <1>4, Zenon DEF Congruent
<1>6. p = 0
  <2>1. p \in Int /\ 0 <= p /\ p <= 3328
    BY SMT DEF FieldElements, FIELD_MODULUS
  <2>2. p = -(k * 3329)
    BY <1>5, <2>1, SMT DEF FIELD_MODULUS
  <2> QED
    BY <2>1, <2>2, SMT
<1> QED
  BY <1>1, <1>6, Zenon

(* The two orders of a double sum: x is the product of the matrix with s,  *)
(* y that of its transpose with r.                                         *)
Products(M, T, s, r, x, y) ==
    /\ M \in [Ranks -> Row] /\ T \in [Ranks -> Row]
    /\ \A i, j \in Ranks : T[j][i] = M[i][j]
    /\ s \in Row /\ r \in Row /\ x \in Row /\ y \in Row
    /\ \A i \in Ranks : x[i] = InnerProduct(M[i], s)
    /\ \A j \in Ranks : y[j] = InnerProduct(T[j], r)

(* They give the same sum. *)
LEMMA SumsExchange ==
    ASSUME ParametersOk, NEW M, NEW T, NEW s, NEW r, NEW x, NEW y, Products(M, T, s, r, x, y)
    PROVE  InnerProduct(x, r) = InnerProduct(s, y)
<1>a. /\ M \in [Ranks -> Row] /\ T \in [Ranks -> Row]
      /\ \A i, j \in Ranks : T[j][i] = M[i][j]
      /\ s \in Row /\ r \in Row /\ x \in Row /\ y \in Row
      /\ \A i \in Ranks : x[i] = InnerProduct(M[i], s)
      /\ \A j \in Ranks : y[j] = InnerProduct(T[j], r)
  BY Zenon DEF Products
<1> USE <1>a
<1>0. K \in Nat
  BY SMT DEF ParametersOk
<1>1. PICK f : SumsOf(x, r, f) /\ InnerProduct(x, r) = f[K] % FIELD_MODULUS
  BY InnerProductSums, Zenon
<1>2. PICK h : \A j \in Ranks : SumsOf(T[j], r, h[j]) /\ y[j] = h[j][K] % FIELD_MODULUS
  <2>1. \A j \in Ranks : \E g : SumsOf(T[j], r, g) /\ InnerProduct(T[j], r) = g[K] % FIELD_MODULUS
    BY InnerProductSums
  <2>2. PICK h : h = [j \in Ranks |->
           CHOOSE g : SumsOf(T[j], r, g) /\ InnerProduct(T[j], r) = g[K] % FIELD_MODULUS]
    BY Zenon
  <2>3. \A j \in Ranks : SumsOf(T[j], r, h[j]) /\ InnerProduct(T[j], r) = h[j][K] % FIELD_MODULUS
    BY <2>1, <2>2, Zenon
  <2>4. \A j \in Ranks : SumsOf(T[j], r, h[j]) /\ y[j] = h[j][K] % FIELD_MODULUS
    BY <2>3
  <2> QED
    BY <2>4
<1> DEFINE partial(p) == [j \in Ranks |-> h[j][p]]
<1>3. ASSUME NEW p \in 0..K
      PROVE  /\ partial(p) \in Row
             /\ \A j \in Ranks : partial(p)[j] = h[j][p]
  BY <1>2, Zenon DEF SumsOf, Row
<1> HIDE DEF partial
<1> DEFINE S == {p \in Nat : p <= K => Congruent(f[p], InnerProduct(s, partial(p)))}
<1>4. 0 \in S
  <2>1. 0 \in 0..K /\ 0 \in Nat /\ 0 \in Int
    BY <1>0, SMT
  <2>2. \A j \in 1..K : partial(0)[j] = 0
    BY <1>2, <1>3, <2>1, Zenon DEF SumsOf, Ranks
  <2>3. InnerProduct(s, partial(0)) = 0
    BY <1>3, <2>1, <2>2, InnerProductZero, Zenon
  <2>4. f[0] = 0
    BY <1>1, Zenon DEF SumsOf
  <2> QED
    BY <2>1, <2>3, <2>4, CongruentReflexive, Zenon
<1>5. ASSUME NEW p \in Nat, p \in S
      PROVE  p + 1 \in S
  <2> SUFFICES ASSUME p + 1 <= K
               PROVE  Congruent(f[p + 1], InnerProduct(s, partial(p + 1)))
    BY SMT
  <2>1. p \in 0..K /\ p + 1 \in 0..K /\ p + 1 \in Ranks /\ (p + 1) - 1 = p
    BY <1>0, SMT DEF Ranks
  <2>2. PICK q \in Ranks : q = p + 1
    BY <2>1
  <2>3. PICK u \in Row, v \in Row, m \in Row : u = partial(p) /\ v = partial(q) /\ m = M[q]
    BY <1>3, <2>1, <2>2, Zenon
  <2>4. PICK c \in Int : c = r[q]
    BY Zenon DEF Row
  <2>5. ASSUME NEW j \in 1..K
        PROVE  Congruent(v[j], u[j] + c * m[j])
    <3>1. j \in Ranks
      BY Zenon DEF Ranks
    <3>2. v[j] = h[j][q] /\ u[j] = h[j][p]
      BY <1>3, <2>1, <2>2, <2>3, <3>1, Zenon
    <3>3. h[j][q] = h[j][p] + T[j][q] * r[q]
      <4>1. PICK g, t : g = h[j] /\ t = T[j]
        OBVIOUS
      <4>2. SumsOf(t, r, g)
        BY <1>2, <3>1, <4>1, Zenon
      <4>3. g[q] = g[p] + t[q] * r[q]
        BY <2>1, <2>2, <4>2, Zenon DEF SumsOf, Ranks
      <4> QED
        BY <4>1, <4>3, Zenon
    <3>4. T[j][q] = m[j]
      BY <2>3, <3>1, Zenon
    <3>5. u[j] \in Int /\ m[j] \in Int
      BY <3>1, Zenon DEF Row
    <3>6. v[j] = u[j] + m[j] * c
      BY <2>4, <3>2, <3>3, <3>4, Zenon
    <3>7. v[j] = u[j] + c * m[j] /\ v[j] \in Int
      BY <3>5, <3>6, SMT
    <3> QED
      BY <3>7, CongruentReflexive, Zenon
  <2>6. Congruent(InnerProduct(s, v), InnerProduct(s, u) + c * InnerProduct(s, m))
    BY <2>5, InnerProductLinear, Zenon
  <2>7. PICK a \in Int, b \in Int, e \in Int, g \in Int :
          /\ a = InnerProduct(s, v) /\ b = InnerProduct(s, u) /\ e = InnerProduct(s, m)
          /\ g = f[p]
    <3>1. f[p] \in Int
      BY <1>1, <2>1, Zenon DEF SumsOf
    <3> QED
      BY <3>1, InnerProductElement, FieldElementsInt, Zenon
  <2>8. x[q] = e
    BY <2>3, <2>7, InnerProductSymmetric, Zenon
  <2>9. f[q] = g + e * c
    BY <1>1, <2>1, <2>2, <2>4, <2>7, <2>8, ZenonT(30) DEF SumsOf, Ranks
  <2>10. Congruent(g, b)
    BY <1>5, <2>1, <2>3, <2>7, SMT
  <2>11. Congruent(e, e)
    BY CongruentReflexive, Zenon
  <2>12. Congruent(g + c * e, b + c * e)
    BY <2>10, <2>11, CongruentCombine, Zenon
  <2>13. e * c = c * e /\ g + c * e \in Int /\ b + c * e \in Int
    BY SMT
  <2>14. Congruent(f[q], b + c * e)
    BY <2>9, <2>12, <2>13, Zenon
  <2>15. Congruent(b + c * e, a)
    BY <2>6, <2>7, <2>13, CongruentSymmetric, Zenon
  <2>16. Congruent(f[q], a)
    <3>1. f[q] \in Int
      BY <2>9, <2>13, Zenon
    <3> QED
      BY <2>13, <2>14, <2>15, <3>1, CongruentTransitive, Zenon
  <2> QED
    BY <2>2, <2>3, <2>7, <2>16, Zenon
<1> HIDE DEF S
<1>6. K \in S
  BY <1>0, <1>4, <1>5, SetInduction, Zenon
<1>7. K \in 0..K
  BY <1>0, SMT
<1>8. Congruent(f[K], InnerProduct(s, partial(K)))
  BY <1>0, <1>6, SMT DEF S
<1>9. InnerProduct(s, y) = InnerProduct(s, partial(K))
  <2>1. ASSUME NEW j \in 1..K
        PROVE  Congruent(y[j], partial(K)[j])
    <3>1. j \in Ranks
      BY Zenon DEF Ranks
    <3>2. h[j][K] \in Int
      BY <1>2, <1>7, <3>1, Zenon DEF SumsOf
    <3> QED
      BY <1>2, <1>3, <1>7, <3>1, <3>2, RemainderCongruent, Zenon
  <2> QED
    BY <1>3, <1>7, <2>1, InnerProductResidues, Zenon
<1>10. PICK a \in FieldElements, b \in FieldElements, g \in Int :
         a = InnerProduct(x, r) /\ b = InnerProduct(s, y) /\ g = f[K]
  <2>1. f[K] \in Int
    BY <1>1, <1>7, Zenon DEF SumsOf
  <2> QED
    BY <2>1, InnerProductElement, Zenon
<1>11. Congruent(a, g) /\ Congruent(g, b) /\ a \in Int /\ b \in Int
  BY <1>1, <1>8, <1>9, <1>10, RemainderCongruent, FieldElementsInt, Zenon
<1> QED
  BY <1>10, <1>11, CongruentTransitive, ElementUnique, Zenon

(* Products of small numbers. *)
LEMMA SmallProducts ==
    ASSUME NEW a \in -3..3, NEW b \in -5..5
    PROVE  a * b \in Int /\ -15 <= a * b /\ a * b <= 15
<1>1. a \in {-3, -2, -1, 0, 1, 2, 3}
  BY SMT
<1>2. b \in Int /\ -5 <= b /\ b <= 5
  BY SMT
<1> QED
  BY <1>1, <1>2, SMT

(* The inner product of small numbers is small, modulo the field modulus. *)
LEMMA InnerProductBound ==
    ASSUME ParametersOk, K <= 4, NEW u \in Row, NEW v \in Row,
           \A j \in Ranks : u[j] \in -3..3 /\ v[j] \in -5..5
    PROVE  \E x \in Int : Congruent(InnerProduct(u, v), x) /\ -60 <= x /\ x <= 60
<1>0. K \in Nat
  BY SMT DEF ParametersOk
<1>1. PICK f : SumsOf(u, v, f) /\ InnerProduct(u, v) = f[K] % FIELD_MODULUS
  BY InnerProductSums, Zenon
<1> DEFINE S == {n \in Nat : n <= K => f[n] \in Int /\ -(15 * n) <= f[n] /\ f[n] <= 15 * n}
<1>2. 0 \in S
  <2>1. f[0] = 0
    BY <1>1, Zenon DEF SumsOf
  <2> QED
    BY <2>1, SMT
<1>3. ASSUME NEW n \in Nat, n \in S
      PROVE  n + 1 \in S
  <2> SUFFICES ASSUME n + 1 <= K
               PROVE  /\ f[n + 1] \in Int /\ -(15 * (n + 1)) <= f[n + 1]
                      /\ f[n + 1] <= 15 * (n + 1)
    BY SMT
  <2>1. n + 1 \in 1..K /\ n + 1 \in Ranks /\ (n + 1) - 1 = n
    BY <1>0, SMT DEF Ranks
  <2>2. PICK g \in Int : g = f[n] /\ -(15 * n) <= g /\ g <= 15 * n
    BY <1>0, <1>3, SMT
  <2>3. PICK p \in Int : p = u[n + 1] * v[n + 1] /\ -15 <= p /\ p <= 15
    <3>1. PICK a \in -3..3, b \in -5..5 : a = u[n + 1] /\ b = v[n + 1]
      BY <2>1, Zenon
    <3> QED
      BY <3>1, SmallProducts
  <2>4. f[n + 1] = g + p
    BY <1>1, <2>1, <2>2, <2>3, Zenon DEF SumsOf
  <2> QED
    BY <2>2, <2>3, <2>4, SMT
<1> HIDE DEF S
<1>4. K \in S
  BY <1>0, <1>2, <1>3, SetInduction, Zenon
<1>5. f[K] \in Int /\ -60 <= f[K] /\ f[K] <= 60
  BY <1>0, <1>4, SMT DEF S
<1> QED
  BY <1>1, <1>5, RemainderCongruent

(* Differences of field elements are in the range of reduction. *)
LEMMA DifferenceRange ==
    ASSUME NEW v \in FieldElements, NEW p \in FieldElements
    PROVE  v - p \in Int /\ -28296 <= v - p /\ v - p <= 28296
<1>1. v \in Int /\ 0 <= v /\ v < FIELD_MODULUS /\ p \in Int /\ 0 <= p /\ p < FIELD_MODULUS
  BY FieldElementsRange, Zenon
<1> QED
  BY <1>1, SMT DEF FIELD_MODULUS

(* What is added is an integer. *)
LEMMA AddendsInt == Addends \subseteq Int
  BY SMT DEF Addends

(* What compression and decompression leave of a sum. *)
LEMMA RoundTrip ==
    ASSUME NEW bits \in CoefficientBits, NEW x \in FieldElements, NEW e \in Addends, NEW back,
           back = decompress_ciphertext_coefficient(bits, compress_ciphertext_coefficient(bits,
                      to_unsigned_representative(barrett_reduce_element(x + e))))
    PROVE  /\ back \in FieldElements
           /\ \E c \in Int : /\ -HalfStep(bits) <= c /\ c <= HalfStep(bits)
                             /\ Congruent(back, (x + e) + c)
<1>1. PICK a \in Int : a = x + e
  <2>1. x \in Int /\ e \in Int
    BY FieldElementsInt, AddendsInt, Zenon
  <2>2. x + e \in Int
    BY <2>1, SMT
  <2> QED
    BY <2>2, Zenon
<1>2. PICK b \in Int : b = barrett_reduce_element(a) /\ Small(b) /\ Congruent(b, a)
  BY <1>1, SumReduces, Zenon DEF Small
<1>3. PICK fe \in FieldElements : fe = to_unsigned_representative(b) /\ Congruent(fe, b)
  BY <1>2, UnsignedRepresentative, Zenon
<1>4. fe \in Int /\ 0 <= fe /\ fe < FIELD_MODULUS
  BY FieldElementsRange, Zenon
<1>5. back = decompress_ciphertext_coefficient(bits, compress_ciphertext_coefficient(bits, fe))
  BY <1>1, <1>2, <1>3, Zenon
<1>6. /\ back \in Int /\ 0 <= back /\ back < FIELD_MODULUS
      /\ \E k \in {0, 1} : /\ -HalfStep(bits) <= back - fe + k * FIELD_MODULUS
                           /\ back - fe + k * FIELD_MODULUS <= HalfStep(bits)
  BY <1>4, <1>5, CompressionError
<1>7. PICK k \in {0, 1} : /\ -HalfStep(bits) <= back - fe + k * FIELD_MODULUS
                          /\ back - fe + k * FIELD_MODULUS <= HalfStep(bits)
  BY <1>6, Zenon
<1>8. PICK c \in Int : c = back - fe + k * FIELD_MODULUS
  BY <1>4, <1>6, SMT DEF FIELD_MODULUS
<1>9. PICK j \in Int : j = -k
  BY SMT
<1>10. back = (fe + c) + j * FIELD_MODULUS
  BY <1>4, <1>6, <1>8, <1>9, SMT DEF FIELD_MODULUS
<1>11. Congruent(back, fe + c) /\ fe + c \in Int /\ a + c \in Int
  BY <1>4, <1>10, SMT DEF Congruent
<1>12. Congruent(fe, a)
  BY <1>2, <1>3, <1>4, CongruentTransitive, Zenon
<1>13. Congruent(c, c)
  BY CongruentReflexive, Zenon
<1>14. Congruent(fe + c, a + c)
  BY <1>4, <1>12, <1>13, CongruentSums, Zenon
<1>15. Congruent(back, a + c)
  BY <1>6, <1>11, <1>14, CongruentTransitive, Zenon
<1>16. back \in FieldElements
  BY <1>6, FieldElementsRange, Zenon
<1> QED
  BY <1>1, <1>7, <1>8, <1>15, <1>16, Zenon

(* A message bit is read from the difference of v and the product of the   *)
(* secret vector with u.                                                   *)
LEMMA BitRead ==
    ASSUME NEW bit \in {0, 1}, NEW v \in FieldElements, NEW p \in FieldElements,
           NEW z \in Int, -832 <= z, z <= 831, NEW k \in Int,
           v - p = decompress_1(bit) + z + k * FIELD_MODULUS
    PROVE  compress_message_coefficient(to_unsigned_representative(barrett_reduce_element(v - p)))
             = bit
<1>1. PICK a \in Int : a = v - p /\ -28296 <= a /\ a <= 28296
  BY DifferenceRange
<1>2. PICK l \in Int : barrett_reduce_element(a) = a - l * FIELD_MODULUS
  BY <1>1, BarrettReduces, SMT
<1>3. -FIELD_MODULUS < barrett_reduce_element(a) /\ barrett_reduce_element(a) < FIELD_MODULUS
  BY <1>1, BarrettReduces, SMT
<1>4. PICK b \in Int : b = barrett_reduce_element(a) /\ Small(b) /\ b = a - l * FIELD_MODULUS
  BY <1>2, <1>3, SMT DEF Small, FIELD_MODULUS
<1>5. PICK fe \in FieldElements : fe = to_unsigned_representative(b) /\ Congruent(fe, b)
  BY <1>4, UnsignedRepresentative, ZenonT(30)
<1>6. PICK j \in Int : fe = b + j * FIELD_MODULUS
  BY <1>5, ZenonT(30) DEF Congruent
<1>7. fe \in Int /\ 0 <= fe /\ fe < FIELD_MODULUS
  BY FieldElementsRange, ZenonT(30)
<1>8. PICK h \in Int : h = k - l + j
  BY SMT
<1>9. decompress_1(bit) \in Int
  BY SMT DEF decompress_1
<1>10. fe = decompress_1(bit) + z + h * FIELD_MODULUS
  <2>1. PICK w \in Int : w = decompress_1(bit)
    BY <1>9
  <2>2. a = w + z + k * FIELD_MODULUS
    BY <1>1, <2>1
  <2>3. fe = w + z + h * FIELD_MODULUS
    BY <1>4, <1>6, <1>7, <1>8, <2>2, SMT DEF FIELD_MODULUS
  <2> QED
    BY <2>1, <2>3, ZenonT(30)
<1>11. compress_message_coefficient(fe) = bit
  BY <1>7, <1>10, MessageBitSurvives
<1> QED
  BY <1>1, <1>4, <1>5, <1>11

(* The noise of one coefficient: x and y are the products of the matrix    *)
(* and its transpose with s and r, t and u what they become with noise.    *)
Channel(x, y, s, r, e, D, t, u) ==
    /\ x \in Row /\ y \in Row /\ s \in Row /\ r \in Row
    /\ e \in Row /\ D \in Row /\ t \in Row /\ u \in Row
    /\ InnerProduct(x, r) = InnerProduct(s, y)
    /\ \A i \in Ranks : /\ s[i] \in -3..3 /\ r[i] \in -3..3
                        /\ e[i] \in -5..5 /\ D[i] \in -5..5
                        /\ Congruent(t[i], x[i] + e[i])
                        /\ Congruent(u[i], y[i] + D[i])

(* The products of the two sides differ by the noise. *)
LEMMA ChannelNoise ==
    ASSUME ParametersOk, K <= 4,
           NEW x, NEW y, NEW s, NEW r, NEW e, NEW D, NEW t, NEW u,
           Channel(x, y, s, r, e, D, t, u)
    PROVE  \E z \in Int, k \in Int :
              /\ -120 <= z /\ z <= 120
              /\ InnerProduct(t, r) - InnerProduct(s, u) = z + k * FIELD_MODULUS
<1>0. /\ x \in Row /\ y \in Row /\ s \in Row /\ r \in Row
      /\ e \in Row /\ D \in Row /\ t \in Row /\ u \in Row
      /\ InnerProduct(x, r) = InnerProduct(s, y)
  BY Zenon DEF Channel
<1>1. ASSUME NEW i \in Ranks
      PROVE  /\ s[i] \in -3..3 /\ r[i] \in -3..3 /\ e[i] \in -5..5 /\ D[i] \in -5..5
             /\ Congruent(t[i], x[i] + e[i]) /\ Congruent(u[i], y[i] + D[i])
  BY Zenon DEF Channel
<1>2. ASSUME NEW i \in 1..K
      PROVE  Congruent(t[i], x[i] + 1 * e[i]) /\ Congruent(u[i], y[i] + 1 * D[i])
  <2>1. i \in Ranks
    BY Zenon DEF Ranks
  <2>2. e[i] \in Int /\ D[i] \in Int
    BY <1>0, <2>1, Zenon DEF Row
  <2>3. 1 * e[i] = e[i] /\ 1 * D[i] = D[i]
    BY <2>2, SMT
  <2> QED
    BY <1>1, <2>1, <2>3, Zenon
<1>3. 1 \in Int
  OBVIOUS
<1>4. Congruent(InnerProduct(r, t), InnerProduct(r, x) + 1 * InnerProduct(r, e))
  BY <1>0, <1>2, <1>3, InnerProductLinear, Zenon
<1>5. Congruent(InnerProduct(s, u), InnerProduct(s, y) + 1 * InnerProduct(s, D))
  BY <1>0, <1>2, <1>3, InnerProductLinear, Zenon
<1>6. PICK a \in Int : Congruent(InnerProduct(r, e), a) /\ -60 <= a /\ a <= 60
  BY <1>0, <1>1, InnerProductBound
<1>7. PICK b \in Int : Congruent(InnerProduct(s, D), b) /\ -60 <= b /\ b <= 60
  BY <1>0, <1>1, InnerProductBound
<1>8. PICK q \in Int, p \in Int, g \in Int, v \in Int, w \in Int :
        /\ q = InnerProduct(t, r) /\ q = InnerProduct(r, t) /\ p = InnerProduct(s, u)
        /\ g = InnerProduct(s, y) /\ g = InnerProduct(r, x)
        /\ v = InnerProduct(r, e) /\ w = InnerProduct(s, D)
  <2>1. InnerProduct(t, r) = InnerProduct(r, t) /\ InnerProduct(r, x) = InnerProduct(x, r)
    BY <1>0, InnerProductSymmetric, Zenon
  <2>2. /\ InnerProduct(t, r) \in Int /\ InnerProduct(s, u) \in Int /\ InnerProduct(s, y) \in Int
        /\ InnerProduct(r, e) \in Int /\ InnerProduct(s, D) \in Int
    BY <1>0, InnerProductElement, FieldElementsInt, Zenon
  <2> QED
    BY <1>0, <2>1, <2>2, Zenon
<1>9. PICK k1 \in Int, k2 \in Int, k3 \in Int, k4 \in Int :
        /\ q = (g + 1 * v) + k1 * FIELD_MODULUS /\ p = (g + 1 * w) + k2 * FIELD_MODULUS
        /\ v = a + k3 * FIELD_MODULUS /\ w = b + k4 * FIELD_MODULUS
  <2>1. Congruent(q, g + 1 * v) /\ Congruent(p, g + 1 * w)
    BY <1>4, <1>5, <1>8, Zenon
  <2>2. Congruent(v, a) /\ Congruent(w, b)
    BY <1>6, <1>7, <1>8, Zenon
  <2>3. PICK k1 \in Int : q = (g + 1 * v) + k1 * FIELD_MODULUS
    BY <2>1, Zenon DEF Congruent
  <2>4. PICK k2 \in Int : p = (g + 1 * w) + k2 * FIELD_MODULUS
    BY <2>1, Zenon DEF Congruent
  <2>5. PICK k3 \in Int : v = a + k3 * FIELD_MODULUS
    BY <2>2, Zenon DEF Congruent
  <2>6. PICK k4 \in Int : w = b + k4 * FIELD_MODULUS
    BY <2>2, Zenon DEF Congruent
  <2> QED
    BY <2>3, <2>4, <2>5, <2>6
<1>10. PICK z \in Int, k \in Int : z = a - b /\ k = k1 - k2 + k3 - k4
  BY SMT
<1>11. q - p = z + k * FIELD_MODULUS
  BY <1>9, <1>10, SMT DEF FIELD_MODULUS
<1>12. -120 <= z /\ z <= 120
  BY <1>6, <1>7, <1>10, SMT
<1> QED
  BY <1>8, <1>11, <1>12

(* The ranges of noise. *)
LEMMA NoiseRanges ==
    /\ \A a \in -3..3 : a \in -5..5 /\ a \in Int /\ a \in Addends
    /\ \A a \in -3..3, c \in Int : -2 <= c /\ c <= 2 => a + c \in -5..5
    /\ \A a \in -3..3, bit \in {0, 1} : decompress_1(bit) + a \in Addends
<1>1. \A a \in -3..3 : a \in -5..5 /\ a \in Int /\ a \in Addends
  <2> TAKE a \in -3..3
  <2>1. a \in Int /\ -2000 <= a /\ a <= 2000 /\ a \in -5..5
    BY SMT
  <2> QED
    BY <2>1 DEF Addends
<1>2. \A a \in -3..3, c \in Int : -2 <= c /\ c <= 2 => a + c \in -5..5
  BY SMT
<1>3. \A a \in -3..3, bit \in {0, 1} : decompress_1(bit) + a \in Addends
  <2>1. decompress_1(0) = 0 /\ decompress_1(1) = 1665
    BY SMT DEF decompress_1
  <2>2. \A a \in -3..3 : 0 + a \in Addends /\ 1665 + a \in Addends
    <3> TAKE a \in -3..3
    <3>1. a \in Int /\ -3 <= a /\ a <= 3
      BY SMT
    <3>2. PICK b \in Int : b = 1665 + a /\ -2000 <= b /\ b <= 2000
      BY <3>1, SMT
    <3>3. b \in Addends
      BY <3>2 DEF Addends
    <3>4. 0 + a = a /\ a \in Addends
      BY <1>1, <3>1
    <3> QED
      BY <3>2, <3>3, <3>4
  <2> QED
    BY <2>1, <2>2
<1> QED
  BY <1>1, <1>2, <1>3

(* Half a step of the compression factors in use. *)
LEMMA HalfSteps ==
    ASSUME ParametersOk
    PROVE  HalfStep(DU) \in {1, 2} /\ HalfStep(DV) \in {52, 104}
<1>1. DU \in {10, 11} /\ DV \in {4, 5}
  BY DEF ParametersOk
<1> QED
  BY <1>1 DEF HalfStep

(* The vector u that decryption works with. *)
Decompressed(ct) ==
    [i \in Ranks |-> [n \in Coefficients |-> decompress_ciphertext_coefficient(DU, ct[1][i][n])]]

(* The coefficients of what decryption computes. *)
LEMMA DecryptEntry ==
    ASSUME NEW s, NEW ct, NEW n \in Coefficients, NEW v,
           v = decompress_ciphertext_coefficient(DV, ct[2][n])
    PROVE  Decrypt(s, ct)[n] = compress_message_coefficient(to_unsigned_representative(
               barrett_reduce_element(
                   v - InnerProduct(Column(s, n), Column(Decompressed(ct), n)))))
<1>0. PICK u : u = Decompressed(ct)
  OBVIOUS
<1>1. PICK f, p : /\ f = [j \in Coefficients |-> decompress_ciphertext_coefficient(DV, ct[2][j])]
                  /\ p = Dot(s, u)
  BY Zenon
<1>2. f[n] = v
  BY <1>1, Zenon
<1>3. p[n] = InnerProduct(Column(s, n), Column(u, n))
  BY <1>1, DotEntry, Zenon
<1>4. PICK w : w = SubtractReduce(f, p)
  OBVIOUS
<1>5. w[n] = barrett_reduce_element(f[n] - p[n])
  BY <1>4, Zenon DEF SubtractReduce
<1>6. Decrypt(s, ct) = [j \in Coefficients |->
         compress_message_coefficient(to_unsigned_representative(w[j]))]
  BY <1>0, <1>1, <1>4, Zenon DEF Decrypt, Decompressed
<1> QED
  BY <1>0, <1>2, <1>3, <1>5, <1>6, Zenon

(* Noise of one encapsulation. *)
LEMMA NoiseOf ==
    ASSUME ParametersOk, NEW seed, NoiseSeed(seed), NEW first \in {0, K}, NEW n \in Coefficients
    PROVE  LET v == SampleVectorCbd(seed, first)
           IN  /\ v \in Vectors /\ Column(v, n) \in Row
               /\ \A i \in Ranks : v[i][n] \in -3..3 /\ Column(v, n)[i] = v[i][n]
<1>1. PICK v : v = SampleVectorCbd(seed, first)
  OBVIOUS
<1>2. v \in Vectors /\ \A i \in Ranks : v[i][n] \in -3..3
  BY <1>1, NoiseVector, Zenon DEF SmallVector
<1>3. Column(v, n) \in Row
  BY <1>2, ColumnType, Zenon
<1>4. \A i \in Ranks : Column(v, n)[i] = v[i][n]
  BY Zenon DEF Column
<1> QED
  BY <1>1, <1>2, <1>3, <1>4, Zenon

(* The rows of the matrix at one coefficient, and those of its transpose. *)
Rows(A, n) == [i \in Ranks |-> Column(A[i], n)]

(* They are transposes of each other. *)
LEMMA RowsTransposed ==
    ASSUME ParametersOk, NEW d \in Seeds, NEW n \in Coefficients
    PROVE  LET M == Rows(sample_matrix_A(d, TRUE), n)
               T == Rows(sample_matrix_A(d, FALSE), n)
           IN  /\ M \in [Ranks -> Row] /\ T \in [Ranks -> Row]
               /\ \A i, j \in Ranks : T[j][i] = M[i][j]
<1>1. PICK A, B : A = sample_matrix_A(d, TRUE) /\ B = sample_matrix_A(d, FALSE)
  BY Zenon
<1>2. \A i \in Ranks : A[i] \in Vectors /\ B[i] \in Vectors
  BY <1>1, MatrixRow, Zenon
<1>3. Rows(A, n) \in [Ranks -> Row] /\ Rows(B, n) \in [Ranks -> Row]
  BY <1>2, ColumnType, Zenon DEF Rows
<1>4. ASSUME NEW i \in Ranks, NEW j \in Ranks
      PROVE  Rows(B, n)[j][i] = Rows(A, n)[i][j]
  <2>1. Rows(B, n)[j][i] = B[j][i][n] /\ Rows(A, n)[i][j] = A[i][j][n]
    BY Zenon DEF Rows, Column
  <2>2. A[i][j][n] = SampleUniform(d, j, i, n) /\ B[j][i][n] = SampleUniform(d, j, i, n)
    BY <1>1 DEF sample_matrix_A
  <2> QED
    BY <2>1, <2>2, Zenon
<1> QED
  BY <1>1, <1>3, <1>4, Zenon

(* The products of the matrix with s and of its transpose with r. *)
LEMMA MatrixProducts ==
    ASSUME ParametersOk, NEW d \in Seeds, NEW n \in Coefficients,
           NEW s \in Vectors, NEW r \in Vectors
    PROVE  \E x \in Row, y \in Row :
              /\ \A i \in Ranks : x[i] = Dot(sample_matrix_A(d, TRUE)[i], s)[n]
              /\ \A i \in Ranks : y[i] = Dot(sample_matrix_A(d, FALSE)[i], r)[n]
              /\ InnerProduct(x, Column(r, n)) = InnerProduct(Column(s, n), y)
<1>1. PICK A, B : A = sample_matrix_A(d, TRUE) /\ B = sample_matrix_A(d, FALSE)
  BY Zenon
<1>2. PICK M \in [Ranks -> Row], T \in [Ranks -> Row] :
        /\ M = Rows(A, n) /\ T = Rows(B, n)
        /\ \A i, j \in Ranks : T[j][i] = M[i][j]
  BY <1>1, RowsTransposed, Zenon
<1>3. PICK S \in Row, R \in Row : S = Column(s, n) /\ R = Column(r, n)
  BY ColumnType, Zenon
<1>4. PICK x, y : /\ x = [i \in Ranks |-> InnerProduct(M[i], S)]
                  /\ y = [i \in Ranks |-> InnerProduct(T[i], R)]
  BY Zenon
<1>5. x \in Row /\ y \in Row
  BY <1>4, InnerProductElement, FieldElementsInt, Zenon DEF Row
<1>6. /\ \A i \in Ranks : x[i] = InnerProduct(M[i], S)
      /\ \A i \in Ranks : y[i] = InnerProduct(T[i], R)
  BY <1>4, Zenon
<1>7. InnerProduct(x, R) = InnerProduct(S, y)
  <2>1. Products(M, T, S, R, x, y)
    BY <1>2, <1>5, <1>6, Zenon DEF Products
  <2> QED
    BY <2>1, SumsExchange
<1>8. ASSUME NEW i \in Ranks
      PROVE  x[i] = Dot(A[i], s)[n] /\ y[i] = Dot(B[i], r)[n]
  <2>1. M[i] = Column(A[i], n) /\ T[i] = Column(B[i], n)
    BY <1>2, Zenon DEF Rows
  <2>2. /\ Dot(A[i], s)[n] = InnerProduct(Column(A[i], n), Column(s, n))
        /\ Dot(B[i], r)[n] = InnerProduct(Column(B[i], n), Column(r, n))
    BY DotEntry, Zenon
  <2> QED
    BY <1>3, <1>6, <2>1, <2>2, Zenon
<1> QED
  BY <1>1, <1>3, <1>5, <1>7, <1>8, Zenon

(* What a coefficient of u is after compression and decompression. *)
LEMMA FirstHalfNoise ==
    ASSUME ParametersOk, NEW A, NEW r, NEW e1, NEW i \in Ranks, NEW n \in Coefficients,
           Dot(A[i], r)[n] \in FieldElements, e1[i][n] \in -3..3
    PROVE  LET u == decompress_ciphertext_coefficient(DU, FirstHalf(A, r, e1)[i][n])
           IN  /\ u \in FieldElements
               /\ \E c \in -5..5 : Congruent(u, Dot(A[i], r)[n] + c)
<1>1. PICK x \in FieldElements, e \in -3..3 : x = Dot(A[i], r)[n] /\ e = e1[i][n]
  BY Zenon
<1>2. PICK a, b : a = Dot(A[i], r) /\ b = e1[i]
  OBVIOUS
<1>3. AddReduce(a, b)[n] = barrett_reduce_element(x + e)
  BY <1>1, <1>2, Zenon DEF AddReduce
<1>4. FirstHalf(A, r, e1)[i][n] = compress_ciphertext_coefficient(DU,
         to_unsigned_representative(AddReduce(a, b)[n]))
  BY <1>2, Zenon DEF FirstHalf
<1>5. PICK u : u = decompress_ciphertext_coefficient(DU, compress_ciphertext_coefficient(DU,
         to_unsigned_representative(barrett_reduce_element(x + e))))
  OBVIOUS
<1>6. u = decompress_ciphertext_coefficient(DU, FirstHalf(A, r, e1)[i][n])
  BY <1>3, <1>4, <1>5, Zenon
<1>7. e \in Addends /\ e \in Int /\ x \in Int
  BY NoiseRanges, FieldElementsInt, Zenon
<1>8. /\ u \in FieldElements
      /\ \E c \in Int : /\ -HalfStep(DU) <= c /\ c <= HalfStep(DU)
                        /\ Congruent(u, (x + e) + c)
  BY <1>5, <1>7, Factors, RoundTrip, Zenon
<1>9. PICK c \in Int : /\ -HalfStep(DU) <= c /\ c <= HalfStep(DU)
                       /\ Congruent(u, (x + e) + c)
  BY <1>8, Zenon
<1>10. -2 <= c /\ c <= 2
  BY <1>9, HalfSteps, SMT
<1>11. PICK g \in -5..5 : g = e + c
  BY <1>10, NoiseRanges, Zenon
<1>12. (x + e) + c = x + g
  BY <1>7, <1>11, SMT
<1> QED
  BY <1>1, <1>6, <1>8, <1>9, <1>12, Zenon

(* What a coefficient of v is. *)
LEMMA SecondHalfNoise ==
    ASSUME ParametersOk, NEW t, NEW r, NEW e2, NEW m, NEW n \in Coefficients,
           Dot(t, r)[n] \in FieldElements, e2[n] \in -3..3, m[n] \in {0, 1}
    PROVE  LET v == decompress_ciphertext_coefficient(DV, encrypt_c2(t, r, e2, m)[n])
           IN  /\ v \in FieldElements
               /\ \E c \in Int : /\ -107 <= c /\ c <= 107
                                 /\ Congruent(v, (Dot(t, r)[n] + decompress_1(m[n])) + c)
<1>1. PICK x \in FieldElements, e \in -3..3, bit \in {0, 1} :
        x = Dot(t, r)[n] /\ e = e2[n] /\ bit = m[n]
  BY Zenon
<1>2. PICK a, b : /\ a = Dot(t, r)
                  /\ b = [j \in Coefficients |-> decompress_1(m[j]) + e2[j]]
  BY Zenon
<1>3. PICK w \in Int : w = decompress_1(bit)
  BY SMT DEF decompress_1
<1>4. b[n] = w + e
  BY <1>1, <1>2, <1>3, Zenon
<1>5. AddReduce(a, b)[n] = barrett_reduce_element(x + (w + e))
  BY <1>1, <1>2, <1>4, Zenon DEF AddReduce
<1>6. encrypt_c2(t, r, e2, m)[n] = compress_ciphertext_coefficient(DV,
         to_unsigned_representative(AddReduce(a, b)[n]))
  BY <1>2, Zenon DEF encrypt_c2
<1>7. PICK v : v = decompress_ciphertext_coefficient(DV, compress_ciphertext_coefficient(DV,
         to_unsigned_representative(barrett_reduce_element(x + (w + e)))))
  OBVIOUS
<1>8. v = decompress_ciphertext_coefficient(DV, encrypt_c2(t, r, e2, m)[n])
  BY <1>5, <1>6, <1>7, Zenon
<1>9. w + e \in Addends /\ e \in Int /\ x \in Int
  BY <1>3, NoiseRanges, FieldElementsInt, Zenon
<1>10. /\ v \in FieldElements
       /\ \E c \in Int : /\ -HalfStep(DV) <= c /\ c <= HalfStep(DV)
                         /\ Congruent(v, (x + (w + e)) + c)
  BY <1>7, <1>9, Factors, RoundTrip, Zenon
<1>11. PICK c \in Int : /\ -HalfStep(DV) <= c /\ c <= HalfStep(DV)
                        /\ Congruent(v, (x + (w + e)) + c)
  BY <1>10, Zenon
<1>12. -104 <= c /\ c <= 104
  BY <1>11, HalfSteps, SMT
<1>13. PICK g \in Int : g = e + c /\ -107 <= g /\ g <= 107
  BY <1>12, SMT
<1>14. (x + (w + e)) + c = (x + w) + g
  BY <1>9, <1>13, SMT
<1>15. Congruent(v, (x + w) + g)
  BY <1>11, <1>14, Zenon
<1> QED
  BY <1>1, <1>3, <1>8, <1>10, <1>13, <1>15, Zenon

(* Every bit of a message is decrypted. *)
LEMMA BitDecrypts ==
    ASSUME ParametersOk, K <= 4, NEW d \in Seeds, NEW m \in Bits, NEW n \in Coefficients
    PROVE  Decrypt(SecretOf(d), Encrypt(PublicOf(d), MatrixOf(d), m, Randomness(d, m)))[n] = m[n]
<1>1. PICK s, e, t, A, seed : /\ s = SecretOf(d) /\ e = ErrorOf(d) /\ t = PublicOf(d)
                              /\ A = MatrixOf(d) /\ seed = Randomness(d, m)
  OBVIOUS
<1>2. PICK r, e1, e2 : /\ r = SampleVectorCbd(seed, 0) /\ e1 = SampleVectorCbd(seed, K)
                       /\ e2 = [j \in Coefficients |-> SampleCbd(seed, 2 * K, j)]
  BY Zenon
<1>3. NoiseSeed(d) /\ NoiseSeed(seed)
  BY <1>1, KeySeed, Zenon DEF Randomness, Bits
<1>4. 0 \in {0, K} /\ K \in {0, K}
  OBVIOUS
<1>5. /\ s \in Vectors /\ r \in Vectors /\ e \in Vectors /\ e1 \in Vectors
      /\ Column(s, n) \in Row /\ Column(r, n) \in Row /\ Column(e, n) \in Row
      /\ \A i \in Ranks : /\ s[i][n] \in -3..3 /\ Column(s, n)[i] = s[i][n]
                          /\ r[i][n] \in -3..3 /\ Column(r, n)[i] = r[i][n]
                          /\ e[i][n] \in -3..3 /\ Column(e, n)[i] = e[i][n]
                          /\ e1[i][n] \in -3..3
  <2>1. /\ s \in Vectors /\ Column(s, n) \in Row
        /\ \A i \in Ranks : s[i][n] \in -3..3 /\ Column(s, n)[i] = s[i][n]
    BY <1>1, <1>3, <1>4, NoiseOf, Zenon DEF SecretOf
  <2>2. /\ e \in Vectors /\ Column(e, n) \in Row
        /\ \A i \in Ranks : e[i][n] \in -3..3 /\ Column(e, n)[i] = e[i][n]
    BY <1>1, <1>3, <1>4, NoiseOf, Zenon DEF ErrorOf
  <2>3. /\ r \in Vectors /\ Column(r, n) \in Row
        /\ \A i \in Ranks : r[i][n] \in -3..3 /\ Column(r, n)[i] = r[i][n]
    BY <1>2, <1>3, <1>4, NoiseOf, Zenon
  <2>4. e1 \in Vectors /\ \A i \in Ranks : e1[i][n] \in -3..3
    BY <1>2, <1>3, <1>4, NoiseOf, Zenon
  <2> QED
    BY <2>1, <2>2, <2>3, <2>4, Zenon
<1>6. e2[n] \in -3..3
  <2>1. 2 * K \in 0..(2 * K)
    BY SMT DEF ParametersOk
  <2> QED
    BY <1>2, <1>3, <2>1, Zenon DEF NoiseSeed
<1>7. PICK x \in Row, y \in Row :
        /\ \A i \in Ranks : x[i] = Dot(sample_matrix_A(d, TRUE)[i], s)[n]
        /\ \A i \in Ranks : y[i] = Dot(A[i], r)[n]
        /\ InnerProduct(x, Column(r, n)) = InnerProduct(Column(s, n), y)
  <2>1. PICK x \in Row, y \in Row :
          /\ \A i \in Ranks : x[i] = Dot(sample_matrix_A(d, TRUE)[i], s)[n]
          /\ \A i \in Ranks : y[i] = Dot(sample_matrix_A(d, FALSE)[i], r)[n]
          /\ InnerProduct(x, Column(r, n)) = InnerProduct(Column(s, n), y)
    <3>1. s \in Vectors /\ r \in Vectors
      BY <1>5, Zenon
    <3> QED
      BY <3>1, MatrixProducts, ZenonT(30)
  <2>2. A = sample_matrix_A(d, FALSE)
    BY <1>1, Zenon DEF MatrixOf
  <2> QED
    BY <2>1, <2>2, Zenon
<1>8. /\ t \in Vectors /\ Column(t, n) \in Row
      /\ \A i \in Ranks : Column(t, n)[i] = t[i][n] /\ Congruent(t[i][n], x[i] + e[i][n])
  <2>1. t \in Vectors
    BY <1>1, KeyVectors, Zenon DEF SmallVector
  <2>2. \A i \in Ranks : Congruent(t[i][n], x[i] + e[i][n])
    BY <1>1, <1>7, KeyVectors, Zenon
  <2>3. \A i \in Ranks : Column(t, n)[i] = t[i][n]
    BY Zenon DEF Column
  <2> QED
    BY <2>1, <2>2, <2>3, ColumnType, Zenon
<1>9. PICK ct : ct = Encrypt(t, A, m, seed)
  OBVIOUS
<1>10. ct[1] = FirstHalf(A, r, e1) /\ ct[2] = encrypt_c2(t, r, e2, m)
  <2>1. PICK f : f = encrypt_c1(seed, A)
    OBVIOUS
  <2>2. f.r = r /\ f.e2 = e2 /\ f.c1 = FirstHalf(A, r, e1)
    BY <1>2, <2>1, FirstHalfParts
  <2>3. PICK c1, c2 : c1 = FirstHalf(A, r, e1) /\ c2 = encrypt_c2(t, r, e2, m)
    OBVIOUS
  <2>4. ct = <<c1, c2>>
    BY <1>9, <2>1, <2>2, <2>3, Zenon DEF Encrypt
  <2>5. ct[1] = c1 /\ ct[2] = c2
    BY <2>4
  <2> QED
    BY <2>3, <2>5, Zenon
<1>11. PICK u, v : /\ u = Decompressed(ct)
                   /\ v = decompress_ciphertext_coefficient(DV, ct[2][n])
  OBVIOUS
<1>12. ASSUME NEW i \in Ranks
       PROVE  /\ Column(u, n)[i] \in Int
              /\ \E c \in -5..5 : Congruent(Column(u, n)[i], y[i] + c)
  <2>1. Column(u, n)[i] = decompress_ciphertext_coefficient(DU, FirstHalf(A, r, e1)[i][n])
    BY <1>10, <1>11, Zenon DEF Column, Decompressed
  <2>2. Dot(A[i], r)[n] \in FieldElements
    BY <1>1, <1>5, MatrixRow, DotElement, Zenon DEF MatrixOf
  <2>3. PICK a : a = decompress_ciphertext_coefficient(DU, FirstHalf(A, r, e1)[i][n])
    OBVIOUS
  <2>4. /\ a \in FieldElements
        /\ \E c \in -5..5 : Congruent(a, Dot(A[i], r)[n] + c)
    BY <1>5, <2>2, <2>3, FirstHalfNoise, Zenon
  <2> QED
    BY <1>7, <2>1, <2>3, <2>4, FieldElementsInt, Zenon
<1>13. PICK D : D = [i \in Ranks |-> CHOOSE c \in -5..5 : Congruent(Column(u, n)[i], y[i] + c)]
  BY Zenon
<1>14. \A i \in Ranks : D[i] \in -5..5 /\ Congruent(Column(u, n)[i], y[i] + D[i])
  BY <1>12, <1>13, Zenon
<1>15. D \in Row /\ Column(u, n) \in Row
  <2>1. \A c \in -5..5 : c \in Int
    BY SMT
  <2>2. D \in Row
    BY <1>13, <1>14, <2>1, Zenon DEF Row
  <2>3. Column(u, n) = [i \in Ranks |-> Column(u, n)[i]]
    BY Zenon DEF Column
  <2>4. Column(u, n) \in Row
    BY <1>12, <2>3, Zenon DEF Row
  <2> QED
    BY <2>2, <2>4
<1>16. PICK S, R, E, T, U : /\ S = Column(s, n) /\ R = Column(r, n) /\ E = Column(e, n)
                            /\ T = Column(t, n) /\ U = Column(u, n)
  OBVIOUS
<1>17. Channel(x, y, S, R, E, D, T, U)
  BY <1>5, <1>7, <1>8, <1>14, <1>15, <1>16, NoiseRanges, Zenon DEF Channel
<1>18. PICK z \in Int, k \in Int :
         /\ -120 <= z /\ z <= 120
         /\ InnerProduct(T, R) - InnerProduct(S, U) = z + k * FIELD_MODULUS
  BY <1>17, ChannelNoise
<1>19. PICK p \in FieldElements, q \in FieldElements : q = InnerProduct(T, R) /\ p = InnerProduct(S, U)
  BY <1>5, <1>8, <1>15, <1>16, InnerProductElement, Zenon
<1>20. Dot(t, r)[n] = q
  BY <1>16, <1>19, DotEntry, Zenon
<1>21. PICK bit \in {0, 1} : bit = m[n]
  BY Zenon DEF Bits
<1>22. /\ v \in FieldElements
       /\ \E c \in Int : /\ -107 <= c /\ c <= 107
                         /\ Congruent(v, (q + decompress_1(bit)) + c)
  <2>1. /\ Dot(t, r)[n] \in FieldElements /\ m[n] \in {0, 1}
    BY <1>20, <1>21, Zenon
  <2>2. v = decompress_ciphertext_coefficient(DV, encrypt_c2(t, r, e2, m)[n])
    BY <1>10, <1>11, Zenon
  <2> QED
    BY <1>6, <1>20, <1>21, <2>1, <2>2, SecondHalfNoise, ZenonT(30)
<1>23. PICK c \in Int : -107 <= c /\ c <= 107 /\ Congruent(v, (q + decompress_1(bit)) + c)
  BY <1>22, Zenon
<1>24. PICK l \in Int : v = ((q + decompress_1(bit)) + c) + l * FIELD_MODULUS
  BY <1>23, Zenon DEF Congruent
<1>25. PICK w \in Int : w = decompress_1(bit)
  BY SMT DEF decompress_1
<1>26. PICK g \in Int, h \in Int : g = z + c /\ h = k + l
  BY SMT
<1>27. v - p = w + g + h * FIELD_MODULUS
  <2>1. q \in Int /\ p \in Int /\ q - p = z + k * FIELD_MODULUS
    BY <1>18, <1>19, FieldElementsInt, Zenon
  <2>2. v = ((q + w) + c) + l * FIELD_MODULUS
    BY <1>24, <1>25, Zenon
  <2> QED
    BY <1>26, <2>1, <2>2, SMT DEF FIELD_MODULUS
<1>28. -832 <= g /\ g <= 831
  BY <1>18, <1>23, <1>26, SMT
<1>29. compress_message_coefficient(to_unsigned_representative(barrett_reduce_element(v - p))) = bit
  BY <1>22, <1>25, <1>27, <1>28, BitRead
<1>30. Decrypt(s, ct)[n] = compress_message_coefficient(to_unsigned_representative(
          barrett_reduce_element(v - p)))
  BY <1>11, <1>16, <1>19, DecryptEntry, Zenon
<1> QED
  BY <1>1, <1>9, <1>21, <1>29, <1>30, Zenon

(* So a message is. *)
LEMMA MessageDecrypts ==
    ASSUME ParametersOk, K <= 4, NEW d \in Seeds, NEW m \in Bits
    PROVE  Decrypt(SecretOf(d), Encrypt(PublicOf(d), MatrixOf(d), m, Randomness(d, m))) = m
<1>1. PICK w : w = Decrypt(SecretOf(d), Encrypt(PublicOf(d), MatrixOf(d), m, Randomness(d, m)))
  OBVIOUS
<1>2. \A n \in Coefficients : w[n] = m[n]
  BY <1>1, BitDecrypts, Zenon
<1>3. w = [n \in Coefficients |-> w[n]]
  BY <1>1, Zenon DEF Decrypt
<1>4. m = [n \in Coefficients |-> m[n]]
  BY Zenon DEF Bits
<1> QED
  BY <1>1, <1>2, <1>3, <1>4, Zenon

(* Every decapsulation of the whole ciphertext of an encapsulation whose   *)
(* key halves pass validate_pk_parts gives the secret that the             *)
(* encapsulation returned, for the ranks of the code and both pairs of     *)
(* compression factors: the noise of the vectors and of the compression    *)
(* never moves a coefficient past the threshold of                         *)
(* compress_message_coefficient.                                           *)
THEOREM SecretsAgreeAlways == Spec => []SecretsAgree
<1> USE KemAssumption
<1>1. ASSUME KemInv
      PROVE  SecretsAgree
  <2>1. ASSUME NEW e \in done, NEW k \in keys,
               e.pk1 = PublicKey1(k.unpacked), validate_pk_parts(e.pk1, e.pk2)
        PROVE  Decapsulations(k, e.ct) = {e.ss}
    <3>1. PICK c \in Seeds, z \in RejectionValues : k = KeyOf(c, z)
      BY <1>1, Zenon DEF KemInv
    <3>2. PICK d \in Seeds, m \in Messages : Made(d, m, e)
      BY <1>1, Zenon DEF KemInv
    <3>3. c = d
      <4>1. First(c) = First(d)
        BY <2>1, <3>1, <3>2, FirstOfKey, Zenon DEF Made
      <4>2. First(c).seed = c /\ First(d).seed = d
        BY DEF First
      <4> QED
        BY <4>1, <4>2, Zenon
    <3>4. m \in Bits
      BY MessageBits, Zenon
    <3>5. PICK ct : ct = e.ct
      OBVIOUS
    <3>6. ct = Encrypt(PublicOf(d), MatrixOf(d), m, Randomness(d, m))
      BY <2>1, <3>2, <3>4, <3>5, ValidatedCiphertext, Zenon
    <3>7. Ciphertext(ct)
      <4>1. PublicOf(d) \in Vectors
        BY KeyResidues, Zenon
      <4> QED
        BY <3>4, <3>6, <4>1, EncryptsToCiphertext, Zenon DEF MatrixOf, Randomness
    <3>8. Decrypt(SecretOf(d), ct) = m
      BY <3>4, <3>6, MessageDecrypts, Zenon
    <3>9. Plain(d, z, ct) = SharedSecret(m, Hash(d))
      BY <3>6, <3>8, Zenon DEF Plain, DecapsulateParts, MatrixOf, Randomness
    <3>10. Decapsulations(k, ct) = {Plain(d, z, ct)}
      BY <3>1, <3>3, <3>7, FormsDecapsulateAlike
    <3> QED
      BY <3>2, <3>5, <3>9, <3>10, Zenon DEF Made
  <2> QED
    BY <2>1, Zenon DEF SecretsAgree
<1> QED
  BY <1>1, KemInvariant, PTL
=============================================================================
