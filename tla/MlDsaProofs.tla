----------------------------- MODULE MlDsaProofs ----------------------------
(***************************************************************************)
(* ML-DSA, for every parameter set and every number of calls: inner        *)
(* products are linear, hints have one encoding and survive it, and with   *)
(* that signatures verify, for their call only and in one form, from masks *)
(* that are never reused.                                                  *)
(***************************************************************************)
EXTENDS MlDsaSigningProofs, FiniteSetTheorems

-----------------------------------------------------------------------------
(* Induction.                                                              *)

(* A set of naturals that is not empty has a least element. *)
LEMMA LeastElement ==
    ASSUME NEW T, T \subseteq Nat, T # {}
    PROVE  \E x \in T : \A y \in T : x <= y
<1> DEFINE R == OpToRel(<, Nat)
<1>1. IsWellFoundedOn(R, Nat)
  BY NatLessThanWellFounded, Zenon
<1>2. \A x, y \in Nat : x < y => <<x, y>> \in R
  BY DEF OpToRel
<1> HIDE DEF R
<1>3. PICK x \in T : \A y \in T : ~(<<y, x>> \in R)
  BY <1>1, WFMin, Zenon
<1>4. ASSUME NEW y \in T
      PROVE  x <= y
  <2>1. x \in Nat /\ y \in Nat /\ ~(y < x)
    BY <1>2, <1>3, Zenon
  <2> QED
    BY <2>1
<1> QED
  BY <1>4

(* Induction, for the set of the numbers that have a property. *)
LEMMA SetInduction ==
    ASSUME NEW S, 0 \in S, \A n \in Nat : n \in S => n + 1 \in S
    PROVE  \A n \in Nat : n \in S
<1> SUFFICES ASSUME Nat \ S # {}
             PROVE  FALSE
  OBVIOUS
<1>1. PICK x \in Nat \ S : \A y \in Nat \ S : x <= y
  BY LeastElement, Zenon
<1>2. x - 1 \in Nat
  BY <1>1
<1>3. x - 1 \in S
  BY <1>1, <1>2
<1> QED
  BY <1>1, <1>2, <1>3

-----------------------------------------------------------------------------
(* The sums that InnerProduct computes.                                    *)

(* The partial sums that InnerProduct computes. *)
SumsOf(u, v, f) ==
    /\ f \in [0..Columns -> Int]
    /\ f[0] = 0
    /\ \A j \in 1..Columns : f[j] = f[j - 1] + u[j] * v[j]

(* There are partial sums, up to every index. *)
LEMMA SumsExist ==
    ASSUME NEW u \in Vector, NEW v \in Vector
    PROVE  \E f : SumsOf(u, v, f)
<1>0. Columns \in Nat
  BY ParametersAssumption
<1> DEFINE Upto(n, f) == /\ f \in [0..n -> Int] /\ f[0] = 0
                         /\ \A j \in 1..n : f[j] = f[j - 1] + u[j] * v[j]
           S == {n \in Nat : n <= Columns => \E f : Upto(n, f)}
<1>1. 0 \in S
  <2>1. Upto(0, [i \in 0..0 |-> 0])
    OBVIOUS
  <2> QED
    BY <2>1, Zenon
<1>2. ASSUME NEW n \in Nat, n \in S
      PROVE  n + 1 \in S
  <2> SUFFICES ASSUME n + 1 <= Columns
               PROVE  \E f : Upto(n + 1, f)
    OBVIOUS
  <2>1. PICK f : Upto(n, f)
    BY <1>0, <1>2
  <2>2. PICK t \in Int : t = f[n] + u[n + 1] * v[n + 1]
    BY <1>0, <2>1 DEF Vector
  <2>3. PICK g : g = [i \in 0..(n + 1) |-> IF i = n + 1 THEN t ELSE f[i]]
    BY Zenon
  <2>4. g \in [0..(n + 1) -> Int]
    BY <2>1, <2>3
  <2>5. g[0] = 0
    BY <2>1, <2>3
  <2>6. ASSUME NEW j \in 1..(n + 1)
        PROVE  g[j] = g[j - 1] + u[j] * v[j]
    <3>1. CASE j = n + 1
      <4>1. g[j] = t /\ g[j - 1] = f[n]
        BY <2>3, <3>1
      <4> QED
        BY <2>2, <3>1, <4>1
    <3>2. CASE j # n + 1
      <4>1. j \in 1..n /\ j - 1 \in 0..n
        BY <3>2
      <4>2. g[j] = f[j] /\ g[j - 1] = f[j - 1]
        BY <2>3, <3>2, <4>1
      <4> QED
        BY <2>1, <4>1, <4>2
    <3> QED
      BY <3>1, <3>2
  <2> QED
    BY <2>4, <2>5, <2>6
<1> HIDE DEF S
<1>3. Columns \in S
  BY <1>0, <1>1, <1>2, SetInduction
<1> QED
  BY <1>0, <1>3 DEF S, SumsOf

(* The definition by recursion has the partial sums as its value. *)
LEMMA InnerProductSums ==
    ASSUME NEW u \in Vector, NEW v \in Vector
    PROVE  \E f : SumsOf(u, v, f) /\ InnerProduct(u, v) = f[Columns]
<1>0. Columns \in Nat
  BY ParametersAssumption
<1> DEFINE F(f) == [j \in 0..Columns |-> IF j = 0 THEN 0 ELSE f[j - 1] + u[j] * v[j]]
           sum == CHOOSE f : f = F(f)
<1>1. PICK f : SumsOf(u, v, f)
  BY SumsExist
<1>2. f = F(f)
  BY <1>0, <1>1 DEF SumsOf
<1>3. sum = F(sum)
  <2> HIDE DEF F
  <2> QED
    BY <1>2, Zenon
<1>4. InnerProduct(u, v) = sum[Columns]
  BY DEF InnerProduct
<1>5. PICK g : g = sum
  OBVIOUS
<1>6. g = F(g)
  BY <1>3, <1>5, Zenon
<1> HIDE DEF sum
<1> DEFINE S == {n \in Nat : n <= Columns => g[n] = f[n]}
<1>7. 0 \in S
  BY <1>0, <1>1, <1>6 DEF SumsOf
<1>8. ASSUME NEW n \in Nat, n \in S
      PROVE  n + 1 \in S
  <2> SUFFICES ASSUME n + 1 <= Columns
               PROVE  g[n + 1] = f[n + 1]
    OBVIOUS
  <2>1. g[n] = f[n]
    BY <1>0, <1>8
  <2>2. g[n + 1] = g[n] + u[n + 1] * v[n + 1]
    BY <1>0, <1>6
  <2>3. f[n + 1] = f[n] + u[n + 1] * v[n + 1]
    BY <1>0, <1>1 DEF SumsOf
  <2> QED
    BY <2>1, <2>2, <2>3
<1> HIDE DEF S, F
<1>9. Columns \in S
  BY <1>0, <1>7, <1>8, SetInduction
<1>10. g[Columns] = f[Columns]
  BY <1>0, <1>9 DEF S
<1> QED
  BY <1>1, <1>4, <1>5, <1>10

(* The inner product is an integer. *)
LEMMA InnerProductInt ==
    ASSUME NEW u \in Vector, NEW v \in Vector
    PROVE  InnerProduct(u, v) \in Int
<1>1. PICK f : SumsOf(u, v, f) /\ InnerProduct(u, v) = f[Columns]
  BY InnerProductSums
<1>2. Columns \in 0..Columns
  BY ParametersAssumption
<1> QED
  BY <1>1, <1>2 DEF SumsOf

(* The inner product is linear modulo the field modulus. *)
LEMMA InnerProductLinear ==
    ASSUME NEW a \in Vector, NEW y \in Vector, NEW s \in Vector, NEW z \in Vector,
           NEW c \in Int,
           \A j \in 1..Columns : Congruent(z[j], y[j] + c * s[j])
    PROVE  /\ InnerProduct(a, y) \in Int /\ InnerProduct(a, s) \in Int
           /\ InnerProduct(a, z) \in Int
           /\ Congruent(InnerProduct(a, z), InnerProduct(a, y) + c * InnerProduct(a, s))
<1>0. Columns \in Nat
  BY ParametersAssumption, SMT
<1>1. PICK f : SumsOf(a, y, f) /\ InnerProduct(a, y) = f[Columns]
  BY InnerProductSums, SMT
<1>2. PICK g : SumsOf(a, s, g) /\ InnerProduct(a, s) = g[Columns]
  BY InnerProductSums, SMT
<1>3. PICK h : SumsOf(a, z, h) /\ InnerProduct(a, z) = h[Columns]
  BY InnerProductSums, SMT
<1> DEFINE S == {n \in Nat : n <= Columns => Congruent(h[n], f[n] + c * g[n])}
<1>4. 0 \in S
  <2>1. f[0] = 0 /\ g[0] = 0 /\ h[0] = 0
    BY <1>1, <1>2, <1>3, SMT DEF SumsOf
  <2>2. h[0] = f[0] + c * g[0] + 0 * FIELD_MODULUS
    BY <2>1, SMT DEF FIELD_MODULUS
  <2> QED
    BY <2>2, SMT DEF Congruent
<1>5. ASSUME NEW n \in Nat, n \in S
      PROVE  n + 1 \in S
  <2> SUFFICES ASSUME n + 1 <= Columns
               PROVE  Congruent(h[n + 1], f[n + 1] + c * g[n + 1])
    BY SMT
  <2>1. n \in 0..Columns /\ n + 1 \in 1..Columns /\ n + 1 \in 0..Columns
    BY <1>0, SMT
  <2>2. PICK fn \in Int, gn \in Int, hn \in Int : fn = f[n] /\ gn = g[n] /\ hn = h[n]
    BY <1>1, <1>2, <1>3, <2>1, SMT DEF SumsOf
  <2>3. PICK p \in Int, yn \in Int, sn \in Int, zn \in Int :
            p = a[n + 1] /\ yn = y[n + 1] /\ sn = s[n + 1] /\ zn = z[n + 1]
    BY <2>1, SMT DEF Vector
  <2>4. /\ f[n + 1] = fn + p * yn
        /\ g[n + 1] = gn + p * sn
        /\ h[n + 1] = hn + p * zn
    BY <1>1, <1>2, <1>3, <2>1, <2>2, <2>3, SMT DEF SumsOf
  <2>5. PICK k \in Int : hn = fn + c * gn + k * 8380417
    BY <1>5, <2>1, <2>2, SMT DEF Congruent, FIELD_MODULUS
  <2>6. PICK l \in Int : zn = yn + c * sn + l * 8380417
    BY <2>1, <2>3, SMT DEF Congruent, FIELD_MODULUS
  <2>7. hn + p * zn = (fn + p * yn) + c * (gn + p * sn) + (k + p * l) * 8380417
    BY <2>5, <2>6, SMT
  <2>8. h[n + 1] = f[n + 1] + c * g[n + 1] + (k + p * l) * FIELD_MODULUS
    BY <2>4, <2>7, SMT DEF FIELD_MODULUS
  <2>9. k + p * l \in Int
    BY SMT
  <2> QED
    BY <2>8, <2>9, SMT DEF Congruent
<1> HIDE DEF S
<1>6. Columns \in S
  BY <1>0, <1>4, <1>5, SetInduction, SMT
<1>7. Columns \in 0..Columns
  BY <1>0, SMT
<1> QED
  BY <1>0, <1>1, <1>2, <1>3, <1>6, <1>7, SMT DEF S, SumsOf

-----------------------------------------------------------------------------
(* The places of the ones of a hint.                                       *)

(* The order in which the ones of a hint are encoded. *)
Before(y, x) == y[1] < x[1] \/ (y[1] = x[1] /\ y[2] < x[2])

(* A part of a finite set that misses an element is smaller. *)
LEMMA SmallerPart ==
    ASSUME NEW S, IsFiniteSet(S), NEW T \in SUBSET S
    PROVE  /\ Cardinality(T) \in Nat /\ Cardinality(S) \in Nat
           /\ Cardinality(T) <= Cardinality(S)
           /\ \A x \in S : x \notin T => Cardinality(T) < Cardinality(S)
<1>1. IsFiniteSet(T) /\ Cardinality(T) <= Cardinality(S)
      /\ (Cardinality(S) = Cardinality(T) => S = T)
  BY FS_Subset
<1>2. Cardinality(T) \in Nat /\ Cardinality(S) \in Nat
  BY <1>1, FS_CardinalityType
<1> QED
  BY <1>1, <1>2

(* There are finitely many ones. *)
LEMMA OnesFinite ==
    ASSUME NEW hint
    PROVE  /\ IsFiniteSet(Ones(hint))
           /\ \A x \in Ones(hint) : /\ x[1] \in 1..Rows /\ x[2] \in 1..N
                                    /\ x = <<x[1], x[2]>>
<1>1. Rows \in Nat /\ N \in Nat
  BY ParametersAssumption
<1>2. IsFiniteSet(1..Rows) /\ IsFiniteSet(1..N)
  BY <1>1, FS_Interval
<1>3. IsFiniteSet((1..Rows) \X (1..N))
  BY <1>2, FS_Product, Zenon
<1>4. Ones(hint) \in SUBSET ((1..Rows) \X (1..N))
  BY DEF Ones
<1>5. IsFiniteSet(Ones(hint))
  BY <1>3, <1>4, FS_Subset
<1> QED
  BY <1>4, <1>5

(* How many ones there are up to a row grows with the row. *)
LEMMA OnesUpToGrows ==
    ASSUME NEW hint, NEW i \in Int, NEW j \in Int, i <= j
    PROVE  /\ OnesUpTo(hint, i) \in Nat
           /\ OnesUpTo(hint, i) <= OnesUpTo(hint, j)
<1> DEFINE S == {x \in Ones(hint) : x[1] <= j}
           T == {x \in Ones(hint) : x[1] <= i}
<1>1. Rows \in Nat
  BY ParametersAssumption
<1>2. IsFiniteSet(S)
  BY OnesFinite, FS_Subset
<1>3. T \in SUBSET S
  BY <1>1, OnesFinite
<1> QED
  BY <1>2, <1>3, SmallerPart DEF OnesUpTo

(* All ones are up to the last row, and none up to row 0. *)
LEMMA OnesUpToEnds ==
    ASSUME NEW hint
    PROVE  /\ OnesUpTo(hint, Rows) = Cardinality(Ones(hint))
           /\ OnesUpTo(hint, 0) = 0
<1>1. Rows \in Nat
  BY ParametersAssumption
<1>2. {x \in Ones(hint) : x[1] <= Rows} = Ones(hint)
  BY <1>1, OnesFinite
<1>3. {x \in Ones(hint) : x[1] <= 0} = {}
  BY <1>1, OnesFinite
<1> QED
  BY <1>2, <1>3, FS_EmptySet DEF OnesUpTo

(* The place of a one grows along the order, and lies within its row. *)
LEMMA PlaceGrows ==
    ASSUME NEW hint, NEW x \in Ones(hint), NEW y \in Ones(hint), Before(x, y)
    PROVE  OnesBefore(hint, x) < OnesBefore(hint, y)
<1> DEFINE S == {z \in Ones(hint) : Before(z, y)}
           T == {z \in Ones(hint) : Before(z, x)}
<1>1. Rows \in Nat /\ N \in Nat
  BY ParametersAssumption
<1>2. IsFiniteSet(S)
  BY OnesFinite, FS_Subset
<1>3. T \in SUBSET S
  BY <1>1, OnesFinite DEF Before
<1>4. x \in S /\ x \notin T
  BY <1>1, OnesFinite DEF Before
<1>5. OnesBefore(hint, x) = Cardinality(T) /\ OnesBefore(hint, y) = Cardinality(S)
  BY DEF OnesBefore, Before
<1> HIDE DEF S, T
<1> QED
  BY <1>2, <1>3, <1>4, <1>5, SmallerPart

(* A one has its place between the ends of the row before and of its own. *)
LEMMA PlaceInRow ==
    ASSUME NEW hint, NEW x \in Ones(hint)
    PROVE  /\ OnesBefore(hint, x) \in Nat
           /\ OnesUpTo(hint, x[1] - 1) <= OnesBefore(hint, x)
           /\ OnesBefore(hint, x) < OnesUpTo(hint, x[1])
<1> DEFINE S == {z \in Ones(hint) : z[1] <= x[1]}
           T == {z \in Ones(hint) : Before(z, x)}
           U == {z \in Ones(hint) : z[1] <= x[1] - 1}
<1>1. Rows \in Nat /\ N \in Nat
  BY ParametersAssumption
<1>2. IsFiniteSet(S) /\ IsFiniteSet(T)
  BY OnesFinite, FS_Subset
<1>3. T \in SUBSET S /\ U \in SUBSET T
  BY <1>1, OnesFinite DEF Before
<1>4. x \in S /\ x \notin T
  BY <1>1, OnesFinite DEF Before
<1>5. /\ OnesBefore(hint, x) = Cardinality(T)
      /\ OnesUpTo(hint, x[1]) = Cardinality(S)
      /\ OnesUpTo(hint, x[1] - 1) = Cardinality(U)
  BY DEF OnesBefore, OnesUpTo, Before
<1> HIDE DEF S, T, U
<1>6. Cardinality(T) \in Nat /\ Cardinality(T) < Cardinality(S)
  BY <1>2, <1>3, <1>4, SmallerPart
<1>7. Cardinality(U) <= Cardinality(T)
  BY <1>2, <1>3, SmallerPart
<1> QED
  BY <1>5, <1>6, <1>7

(* The ones take all places. *)
LEMMA PlacesTaken ==
    ASSUME NEW hint, NEW p \in 1..OnesUpTo(hint, Rows)
    PROVE  \E x \in Ones(hint) : OnesBefore(hint, x) = p - 1
<1> DEFINE O == Ones(hint)
           places == 0..(Cardinality(O) - 1)
           place == [x \in O |-> OnesBefore(hint, x)]
<1>1. Rows \in Nat /\ N \in Nat
  BY ParametersAssumption
<1>2. IsFiniteSet(O) /\ Cardinality(O) \in Nat /\ OnesUpTo(hint, Rows) = Cardinality(O)
  BY OnesFinite, OnesUpToEnds, FS_CardinalityType
<1>3. IsFiniteSet(places) /\ Cardinality(places) = Cardinality(O)
  <2>1. PICK n \in Nat : n = Cardinality(O)
    BY <1>2
  <2>2. IsFiniteSet(0..(n - 1)) /\ Cardinality(0..(n - 1)) = n
    BY FS_Interval
  <2> QED
    BY <2>1, <2>2
<1>4. \A x \in O : OnesBefore(hint, x) \in places
  <2> TAKE x \in O
  <2>1. OnesUpTo(hint, x[1]) <= OnesUpTo(hint, Rows) /\ OnesUpTo(hint, x[1]) \in Nat
    BY <1>1, OnesFinite, OnesUpToGrows
  <2>2. OnesBefore(hint, x) \in Nat /\ OnesBefore(hint, x) < OnesUpTo(hint, x[1])
    BY PlaceInRow
  <2> QED
    BY <1>2, <2>1, <2>2
<1>5. \A x, y \in O : OnesBefore(hint, x) = OnesBefore(hint, y) => x = y
  <2> TAKE x \in O, y \in O
  <2>1. x = y \/ Before(x, y) \/ Before(y, x)
    BY <1>1, OnesFinite DEF Before
  <2>2. OnesBefore(hint, x) \in Nat /\ OnesBefore(hint, y) \in Nat
    BY PlaceInRow
  <2> QED
    BY <2>1, <2>2, PlaceGrows
<1>6. place \in Injection(O, places)
  <2> HIDE DEF O, places
  <2> QED
    BY <1>4, <1>5 DEF Injection, IsInjective
<1> HIDE DEF O, places
<1>7. place \in Surjection(O, places)
  <2> HIDE DEF place
  <2> QED
    BY <1>3, <1>6, FS_Injection
<1>8. p - 1 \in places
  BY <1>2 DEF places
<1> QED
  BY <1>7, <1>8, Zenon DEF Surjection, O

-----------------------------------------------------------------------------
(* The encoding.                                                           *)

(* What the encoding of a hint consists of. *)
Encodes(b, hint) ==
    /\ \A i \in 0..Rows : Seen(b, i) = OnesUpTo(hint, i)
    /\ \A p \in 1..OnesUpTo(hint, Rows) :
          \E x \in Ones(hint) : OnesBefore(hint, x) = p - 1 /\ b[p] = x[2] - 1
    /\ \A p \in (OnesUpTo(hint, Rows) + 1)..MaxOnesInHint : b[p] = 0

(* How many ones there are up to a row, within the bound of the encoding.  *)
LEMMA OnesUpToBound ==
    ASSUME NEW hint, OnesUpTo(hint, Rows) <= MaxOnesInHint, NEW i \in 0..Rows
    PROVE  OnesUpTo(hint, i) \in 0..MaxOnesInHint
<1>1. Rows \in Nat /\ MaxOnesInHint \in Nat
  BY ParametersAssumption
<1>2. OnesUpTo(hint, i) \in Nat /\ OnesUpTo(hint, i) <= OnesUpTo(hint, Rows)
  BY <1>1, OnesUpToGrows
<1>3. OnesUpTo(hint, Rows) \in Nat
  BY <1>1, OnesUpToGrows
<1> QED
  BY <1>1, <1>2, <1>3

(* serialize encodes. *)
LEMMA SerializeEncodes ==
    ASSUME NEW hint, OnesUpTo(hint, Rows) <= MaxOnesInHint
    PROVE  /\ Encodes(HintSerialize(hint), hint)
           /\ HintSerialize(hint) \in Seq(Int)
           /\ Len(HintSerialize(hint)) = MaxOnesInHint + Rows
<1> DEFINE at(p) == CHOOSE x \in Ones(hint) : OnesBefore(hint, x) = p - 1
           u == [p \in 1..MaxOnesInHint |->
                    IF p <= OnesUpTo(hint, Rows) THEN at(p)[2] - 1 ELSE 0]
           v == [i \in 1..Rows |-> OnesUpTo(hint, i) % 256]
<1>1. Rows \in Nat /\ MaxOnesInHint \in 0..255 /\ N \in Nat
  BY ParametersAssumption
<1>2. \A p \in 1..OnesUpTo(hint, Rows) :
          at(p) \in Ones(hint) /\ OnesBefore(hint, at(p)) = p - 1
  BY PlacesTaken
<1>3. \A i \in 0..Rows : OnesUpTo(hint, i) \in 0..MaxOnesInHint
  BY OnesUpToBound
<1>4. \A p \in 1..OnesUpTo(hint, Rows) : at(p)[2] - 1 \in Int
  <2> HIDE DEF at
  <2> TAKE p \in 1..OnesUpTo(hint, Rows)
  <2>1. at(p)[2] \in 1..N
    BY <1>2, OnesFinite
  <2> QED
    BY <1>1, <2>1
<1> HIDE DEF at
<1>5. OnesUpTo(hint, Rows) \in 0..MaxOnesInHint
  BY <1>1, <1>3
<1>6. u \in Seq(Int) /\ Len(u) = MaxOnesInHint
  BY <1>1, <1>4, <1>5
<1>7. \A i \in 1..Rows : v[i] = OnesUpTo(hint, i)
  BY <1>1, <1>3
<1>8. v \in Seq(Int) /\ Len(v) = Rows
  BY <1>1, <1>3
<1>9. HintSerialize(hint) = u \o v
  BY DEF HintSerialize, at
<1>10. /\ \A p \in 1..OnesUpTo(hint, Rows) : u[p] = at(p)[2] - 1
       /\ \A p \in (OnesUpTo(hint, Rows) + 1)..MaxOnesInHint : u[p] = 0
  BY <1>1, <1>5
<1> HIDE DEF u, v
<1>11. PICK b : b = HintSerialize(hint)
  OBVIOUS
<1>12. /\ b \in Seq(Int) /\ Len(b) = MaxOnesInHint + Rows
       /\ \A p \in 1..MaxOnesInHint : b[p] = u[p]
       /\ \A i \in 1..Rows : b[MaxOnesInHint + i] = v[i]
  <2>1. PICK a \in Seq(Int) : a = u
    BY <1>6, Zenon
  <2>2. PICK c \in Seq(Int) : c = v
    BY <1>8, Zenon
  <2>3. /\ a \o c \in Seq(Int) /\ Len(a \o c) = Len(a) + Len(c)
        /\ \A i \in 1..Len(a) : (a \o c)[i] = a[i]
        /\ \A i \in 1..Len(c) : (a \o c)[Len(a) + i] = c[i]
    OBVIOUS
  <2> QED
    BY <2>1, <2>2, <2>3, <1>6, <1>8, <1>9, <1>11, Zenon
<1>13. \A i \in 0..Rows : Seen(b, i) = OnesUpTo(hint, i)
  <2> TAKE i \in 0..Rows
  <2>1. CASE i = 0
    BY <2>1, OnesUpToEnds, Zenon DEF Seen
  <2>2. CASE i # 0
    <3>1. i \in 1..Rows
      BY <1>1, <2>2
    <3>2. Seen(b, i) = v[i]
      BY <2>2, <3>1, <1>12, Zenon DEF Seen
    <3> QED
      BY <3>1, <3>2, <1>7, Zenon
  <2> QED
    BY <2>1, <2>2
<1>14. \A p \in 1..OnesUpTo(hint, Rows) :
          \E x \in Ones(hint) : OnesBefore(hint, x) = p - 1 /\ b[p] = x[2] - 1
  <2> TAKE p \in 1..OnesUpTo(hint, Rows)
  <2>1. p \in 1..MaxOnesInHint
    BY <1>1, <1>5
  <2>2. b[p] = at(p)[2] - 1
    BY <2>1, <1>10, <1>12
  <2> QED
    BY <2>2, <1>2
<1>15. \A p \in (OnesUpTo(hint, Rows) + 1)..MaxOnesInHint : b[p] = 0
  <2> TAKE p \in (OnesUpTo(hint, Rows) + 1)..MaxOnesInHint
  <2>1. p \in 1..MaxOnesInHint
    BY <1>1, <1>5
  <2> QED
    BY <2>1, <1>10, <1>12
<1> QED
  BY <1>11, <1>12, <1>13, <1>14, <1>15 DEF Encodes

(* The row in which a place lies. *)
LEMMA RowOfPlace ==
    ASSUME NEW hint, NEW x \in Ones(hint), NEW i \in 1..Rows,
           OnesUpTo(hint, i - 1) <= OnesBefore(hint, x),
           OnesBefore(hint, x) < OnesUpTo(hint, i)
    PROVE  x[1] = i
<1>1. Rows \in Nat /\ x[1] \in 1..Rows
  BY ParametersAssumption, OnesFinite
<1>2. /\ OnesBefore(hint, x) \in Nat
      /\ OnesUpTo(hint, x[1] - 1) <= OnesBefore(hint, x)
      /\ OnesBefore(hint, x) < OnesUpTo(hint, x[1])
  BY PlaceInRow
<1>3. PICK r \in 1..Rows : r = x[1]
  BY <1>1
<1>4. /\ OnesUpTo(hint, r - 1) \in Nat /\ OnesUpTo(hint, r) \in Nat
      /\ OnesUpTo(hint, i - 1) \in Nat /\ OnesUpTo(hint, i) \in Nat
  BY <1>1, OnesUpToGrows
<1>5. ~(r <= i - 1)
  <2> SUFFICES ASSUME r <= i - 1 PROVE FALSE
    OBVIOUS
  <2>1. OnesUpTo(hint, r) <= OnesUpTo(hint, i - 1)
    BY <1>1, OnesUpToGrows
  <2> QED
    BY <2>1, <1>2, <1>3, <1>4
<1>6. ~(i <= r - 1)
  <2> SUFFICES ASSUME i <= r - 1 PROVE FALSE
    OBVIOUS
  <2>1. OnesUpTo(hint, i) <= OnesUpTo(hint, r - 1)
    BY <1>1, OnesUpToGrows
  <2> QED
    BY <2>1, <1>2, <1>3, <1>4
<1> QED
  BY <1>1, <1>3, <1>5, <1>6

(* A place is that of one one. *)
LEMMA PlaceUnique ==
    ASSUME NEW hint, NEW x \in Ones(hint), NEW y \in Ones(hint),
           OnesBefore(hint, x) = OnesBefore(hint, y)
    PROVE  x = y
<1>1. Rows \in Nat /\ N \in Nat
  BY ParametersAssumption
<1>2. x = y \/ Before(x, y) \/ Before(y, x)
  BY <1>1, OnesFinite DEF Before
<1>3. OnesBefore(hint, x) \in Nat /\ OnesBefore(hint, y) \in Nat
  BY PlaceInRow
<1> QED
  BY <1>2, <1>3, PlaceGrows

(* What encodes a hint passes the checks of deserialize. *)
LEMMA EncodingWellFormed ==
    ASSUME NEW hint, NEW b, Encodes(b, hint), OnesUpTo(hint, Rows) <= MaxOnesInHint
    PROVE  ~MalformedHint(b)
<1>1. Rows \in Nat /\ MaxOnesInHint \in Nat /\ N \in Nat
  BY ParametersAssumption
<1>2. ASSUME NEW i \in 1..Rows
      PROVE  /\ Seen(b, i - 1) = OnesUpTo(hint, i - 1) /\ Seen(b, i) = OnesUpTo(hint, i)
             /\ OnesUpTo(hint, i - 1) \in Nat
             /\ OnesUpTo(hint, i - 1) <= OnesUpTo(hint, i)
             /\ OnesUpTo(hint, i) \in 0..MaxOnesInHint
             /\ OnesUpTo(hint, i) <= OnesUpTo(hint, Rows)
             /\ OnesUpTo(hint, Rows) \in Nat
  <2>1. i - 1 \in 0..Rows /\ i \in 0..Rows
    BY <1>1
  <2>2. Seen(b, i - 1) = OnesUpTo(hint, i - 1) /\ Seen(b, i) = OnesUpTo(hint, i)
    BY <2>1 DEF Encodes
  <2>3. OnesUpTo(hint, i) \in 0..MaxOnesInHint
    BY <2>1, OnesUpToBound
  <2> QED
    BY <1>1, <2>1, <2>2, <2>3, OnesUpToGrows
<1>3. ASSUME NEW i \in 1..Rows, NEW p \in (Seen(b, i - 1) + 2)..Seen(b, i)
      PROVE  ~(b[p] <= b[p - 1])
  <2>1. p \in 1..OnesUpTo(hint, Rows) /\ p - 1 \in 1..OnesUpTo(hint, Rows)
    BY <1>1, <1>2
  <2>2. PICK x \in Ones(hint) : OnesBefore(hint, x) = p - 1 /\ b[p] = x[2] - 1
    BY <2>1 DEF Encodes
  <2>3. PICK y \in Ones(hint) : OnesBefore(hint, y) = (p - 1) - 1 /\ b[p - 1] = y[2] - 1
    BY <2>1 DEF Encodes
  <2>4. x[1] = i
    BY <1>2, <2>2, RowOfPlace
  <2>5. y[1] = i
    BY <1>2, <2>3, RowOfPlace
  <2>6. x[2] \in 1..N /\ y[2] \in 1..N /\ x = <<x[1], x[2]>> /\ y = <<y[1], y[2]>>
    BY OnesFinite
  <2>7. x # y /\ ~Before(x, y)
    <3>1. OnesBefore(hint, x) # OnesBefore(hint, y)
          /\ ~(OnesBefore(hint, x) < OnesBefore(hint, y))
      BY <1>2, <2>2, <2>3
    <3> QED
      BY <3>1, PlaceGrows
  <2>8. ~(x[2] <= y[2])
    BY <1>1, <2>4, <2>5, <2>6, <2>7 DEF Before
  <2> QED
    BY <1>1, <2>2, <2>3, <2>6, <2>8
<1>4. ASSUME NEW i \in 1..Rows
      PROVE  ~(Seen(b, i) < Seen(b, i - 1)) /\ ~(Seen(b, i) > MaxOnesInHint)
  BY <1>1, <1>2
<1>5. ASSUME NEW p \in (Seen(b, Rows) + 1)..MaxOnesInHint
      PROVE  b[p] = 0
  BY <1>1 DEF Encodes
<1> QED
  BY <1>3, <1>4, <1>5, Zenon DEF MalformedHint

(* deserialize recovers the hint that was encoded. *)
LEMMA EncodingDecodes ==
    ASSUME NEW hint \in Hints, NEW b, Encodes(b, hint)
    PROVE  HintDeserialize(b) = hint
<1>1. Rows \in Nat /\ N \in Nat
  BY ParametersAssumption
<1>2. ASSUME NEW i \in 1..Rows
      PROVE  /\ Seen(b, i - 1) = OnesUpTo(hint, i - 1) /\ Seen(b, i) = OnesUpTo(hint, i)
             /\ OnesUpTo(hint, i - 1) \in Nat /\ OnesUpTo(hint, i) \in Nat
             /\ OnesUpTo(hint, i) <= OnesUpTo(hint, Rows)
             /\ OnesUpTo(hint, Rows) \in Nat
  <2>1. i - 1 \in 0..Rows /\ i \in 0..Rows
    BY <1>1
  <2>2. Seen(b, i - 1) = OnesUpTo(hint, i - 1) /\ Seen(b, i) = OnesUpTo(hint, i)
    BY <2>1 DEF Encodes
  <2> QED
    BY <1>1, <2>1, <2>2, OnesUpToGrows
<1>3. ASSUME NEW i \in 1..Rows, NEW n \in 1..N
      PROVE  (\E p \in (Seen(b, i - 1) + 1)..Seen(b, i) : b[p] = n - 1)
                <=> hint[i][n] = 1
  <2>1. ASSUME NEW p \in (Seen(b, i - 1) + 1)..Seen(b, i), b[p] = n - 1
        PROVE  hint[i][n] = 1
    <3>1. p \in 1..OnesUpTo(hint, Rows)
      BY <1>2
    <3>2. PICK x \in Ones(hint) : OnesBefore(hint, x) = p - 1 /\ b[p] = x[2] - 1
      BY <3>1 DEF Encodes
    <3>3. x[1] = i
      BY <1>2, <3>2, RowOfPlace
    <3>4. x[2] = n
      BY <1>1, <2>1, <3>2, OnesFinite
    <3> QED
      BY <3>3, <3>4 DEF Ones
  <2>2. ASSUME hint[i][n] = 1
        PROVE  \E p \in (Seen(b, i - 1) + 1)..Seen(b, i) : b[p] = n - 1
    <3>1. PICK x : x = <<i, n>>
      BY Zenon
    <3>2. x \in Ones(hint) /\ x[1] = i /\ x[2] = n
      BY <2>2, <3>1 DEF Ones
    <3>3. /\ OnesBefore(hint, x) \in Nat
          /\ OnesUpTo(hint, i - 1) <= OnesBefore(hint, x)
          /\ OnesBefore(hint, x) < OnesUpTo(hint, i)
      BY <3>2, PlaceInRow
    <3>4. PICK p \in Nat : p = OnesBefore(hint, x) + 1
      BY <3>3
    <3>5. p \in 1..OnesUpTo(hint, Rows) /\ p \in (Seen(b, i - 1) + 1)..Seen(b, i)
      BY <1>2, <3>3, <3>4
    <3>6. PICK y \in Ones(hint) : OnesBefore(hint, y) = p - 1 /\ b[p] = y[2] - 1
      BY <3>5 DEF Encodes
    <3>7. OnesBefore(hint, y) = OnesBefore(hint, x)
      BY <3>3, <3>4, <3>6
    <3>8. y = x
      BY <3>2, <3>7, PlaceUnique
    <3> QED
      BY <3>2, <3>5, <3>6, <3>8
  <2> QED
    BY <2>1, <2>2
<1>4. \A i \in 1..Rows, n \in 1..N :
          (IF \E p \in (Seen(b, i - 1) + 1)..Seen(b, i) : b[p] = n - 1 THEN 1 ELSE 0)
             = hint[i][n]
  <2> TAKE i \in 1..Rows, n \in 1..N
  <2>1. hint[i][n] = 1 \/ hint[i][n] = 0
    BY Zenon DEF Hints
  <2>2. 0 # 1
    OBVIOUS
  <2> QED
    BY <1>3, <2>1, <2>2, Zenon
<1>5. hint = [i \in 1..Rows |-> [n \in 1..N |-> hint[i][n]]]
  BY Zenon DEF Hints
<1> QED
  BY <1>4, <1>5, Zenon DEF HintDeserialize

-----------------------------------------------------------------------------
(* What deserialize accepts.                                               *)

(* The checks of deserialize, for a row. *)
LEMMA WellFormedRow ==
    ASSUME NEW b, WellFormed(b), NEW i \in 1..Rows
    PROVE  /\ Seen(b, i - 1) \in Nat /\ Seen(b, i) \in Nat
           /\ Seen(b, i - 1) <= Seen(b, i) /\ Seen(b, i) <= MaxOnesInHint
           /\ \A p \in (Seen(b, i - 1) + 2)..Seen(b, i) : ~(b[p] <= b[p - 1])
<1>1. Rows \in Nat /\ MaxOnesInHint \in Nat
  BY ParametersAssumption
<1>2. /\ ~(Seen(b, i) < Seen(b, i - 1)) /\ ~(Seen(b, i) > MaxOnesInHint)
      /\ \A p \in (Seen(b, i - 1) + 2)..Seen(b, i) : ~(b[p] <= b[p - 1])
  BY Zenon DEF WellFormed, MalformedHint
<1>3. \A j \in 1..Rows : b[MaxOnesInHint + j] \in Nat
  BY DEF WellFormed, HintBytes
<1>4. Seen(b, i) \in Nat
  BY <1>1, <1>3 DEF Seen
<1>5. Seen(b, i - 1) \in Nat
  BY <1>1, <1>3 DEF Seen
<1> QED
  BY <1>1, <1>2, <1>4, <1>5

(* The counts grow. *)
LEMMA SeenGrows ==
    ASSUME NEW b, WellFormed(b), NEW i \in 0..Rows, NEW j \in 0..Rows, i <= j
    PROVE  Seen(b, i) <= Seen(b, j) /\ Seen(b, i) \in 0..MaxOnesInHint
<1>1. Rows \in Nat /\ MaxOnesInHint \in Nat
  BY ParametersAssumption
<1>2. \A k \in 0..Rows : Seen(b, k) \in 0..MaxOnesInHint
  <2> TAKE k \in 0..Rows
  <2>1. CASE k = 0
    BY <1>1, <2>1 DEF Seen
  <2>2. CASE k # 0
    <3>1. k \in 1..Rows
      BY <1>1, <2>2
    <3> QED
      BY <1>1, <3>1, WellFormedRow
  <2> QED
    BY <2>1, <2>2
<1> DEFINE S == {d \in Nat : i + d <= Rows => Seen(b, i) <= Seen(b, i + d)}
<1>3. 0 \in S
  BY <1>1, <1>2
<1>4. \A d \in Nat : d \in S => d + 1 \in S
  <2> SUFFICES ASSUME NEW d \in Nat, d \in S, i + (d + 1) <= Rows
               PROVE  Seen(b, i) <= Seen(b, i + (d + 1))
    OBVIOUS
  <2>1. i + d <= Rows /\ i + d \in 0..Rows /\ i + (d + 1) \in 1..Rows
        /\ (i + (d + 1)) - 1 = i + d
    BY <1>1
  <2>2. Seen(b, i) <= Seen(b, i + d)
    BY <2>1
  <2>3. /\ Seen(b, i + d) <= Seen(b, i + (d + 1)) /\ Seen(b, i + d) \in Nat
        /\ Seen(b, i + (d + 1)) \in Nat
    <3>1. PICK k \in 1..Rows : k = i + (d + 1) /\ k - 1 = i + d
      BY <2>1
    <3>2. Seen(b, k - 1) <= Seen(b, k) /\ Seen(b, k - 1) \in Nat /\ Seen(b, k) \in Nat
      BY WellFormedRow
    <3> QED
      BY <3>1, <3>2
  <2> QED
    BY <1>1, <1>2, <2>2, <2>3
<1>5. \A d \in Nat : d \in S
  <2> HIDE DEF S
  <2> QED
    BY <1>3, <1>4, SetInduction
<1>6. j - i \in Nat /\ i + (j - i) = j
  BY <1>1
<1>7. Seen(b, i) <= Seen(b, j)
  BY <1>1, <1>5, <1>6
<1> QED
  BY <1>2, <1>7

(* The indices of a row increase. *)
LEMMA IndicesIncrease ==
    ASSUME NEW b, WellFormed(b), NEW i \in 1..Rows,
           NEW p \in (Seen(b, i - 1) + 1)..Seen(b, i),
           NEW q \in (Seen(b, i - 1) + 1)..Seen(b, i), p < q
    PROVE  b[p] < b[q]
<1>1. Rows \in Nat /\ MaxOnesInHint \in Nat /\ N \in Nat
  BY ParametersAssumption
<1>2. /\ Seen(b, i - 1) \in Nat /\ Seen(b, i) \in Nat /\ Seen(b, i) <= MaxOnesInHint
      /\ \A k \in (Seen(b, i - 1) + 2)..Seen(b, i) : ~(b[k] <= b[k - 1])
  BY WellFormedRow
<1>3. PICK from \in Nat : from = Seen(b, i - 1)
  BY <1>2
<1>4. PICK to \in Nat : to = Seen(b, i)
  BY <1>2
<1>5. p \in (from + 1)..to /\ q \in (from + 1)..to /\ to <= MaxOnesInHint
      /\ \A k \in (from + 2)..to : ~(b[k] <= b[k - 1])
  BY <1>2, <1>3, <1>4
<1>6. \A k \in 1..MaxOnesInHint : b[k] \in Int
  BY <1>1 DEF WellFormed, HintBytes
<1>7. \A k \in (from + 2)..to : b[k - 1] < b[k]
  <2> TAKE k \in (from + 2)..to
  <2>1. b[k] \in Int /\ b[k - 1] \in Int
    BY <1>1, <1>5, <1>6
  <2>2. ~(b[k] <= b[k - 1])
    BY <1>5
  <2> QED
    BY <2>1, <2>2
<1> DEFINE S == {d \in Nat : p + 1 + d <= to => b[p] < b[p + 1 + d]}
<1>8. 0 \in S
  <2> SUFFICES ASSUME p + 1 + 0 <= to
               PROVE  b[p] < b[p + 1 + 0]
    OBVIOUS
  <2>1. p + 1 + 0 \in (from + 2)..to /\ (p + 1 + 0) - 1 = p
    BY <1>5
  <2> QED
    BY <1>7, <2>1
<1>9. \A d \in Nat : d \in S => d + 1 \in S
  <2> SUFFICES ASSUME NEW d \in Nat, d \in S, p + 1 + (d + 1) <= to
               PROVE  b[p] < b[p + 1 + (d + 1)]
    OBVIOUS
  <2>1. PICK k \in Int : k = p + 1 + d
    BY <1>5
  <2>2. /\ k <= to /\ k + 1 = p + 1 + (d + 1) /\ k + 1 \in (from + 2)..to
        /\ k \in 1..MaxOnesInHint /\ k + 1 \in 1..MaxOnesInHint
        /\ p \in 1..MaxOnesInHint
    BY <1>1, <1>5, <2>1
  <2>3. b[p] < b[k]
    BY <2>1, <2>2
  <2>4. b[k] < b[k + 1]
    <3>1. (k + 1) - 1 = k
      OBVIOUS
    <3> QED
      BY <1>7, <2>2, <3>1
  <2>5. b[p] < b[k + 1]
    <3>1. b[p] \in Int /\ b[k] \in Int /\ b[k + 1] \in Int
      BY <1>6, <2>2, Zenon
    <3> QED
      BY <3>1, <2>3, <2>4
  <2> QED
    BY <2>2, <2>5
<1>10. \A d \in Nat : d \in S
  <2> HIDE DEF S
  <2> QED
    BY <1>8, <1>9, SetInduction
<1>11. PICK d \in Nat : d = q - (p + 1)
  BY <1>5
<1>12. p + 1 + d = q /\ q <= to
  BY <1>5, <1>11
<1> QED
  BY <1>10, <1>12

(* Every index belongs to a row. *)
LEMMA RowExists ==
    ASSUME NEW b, WellFormed(b), NEW p \in 1..Seen(b, Rows)
    PROVE  \E i \in 1..Rows : p \in (Seen(b, i - 1) + 1)..Seen(b, i)
<1>1. Rows \in Nat /\ MaxOnesInHint \in Nat
  BY ParametersAssumption
<1>2. \A k \in 0..Rows : Seen(b, k) \in Nat
  BY <1>1, SeenGrows
<1> DEFINE T == {k \in 0..Rows : p <= Seen(b, k)}
<1>3. Rows \in T
  BY <1>1
<1>4. PICK i \in T : \A k \in T : i <= k
  <2>1. T \subseteq Nat /\ T # {}
    BY <1>1, <1>3
  <2> HIDE DEF T
  <2> QED
    BY <2>1, LeastElement, Zenon
<1>5. i # 0
  BY <1>4 DEF Seen
<1>6. i \in 1..Rows /\ i - 1 \in 0..Rows /\ i - 1 \notin T
  BY <1>1, <1>4, <1>5
<1> QED
  BY <1>2, <1>6

(* The ones that the indices stand for, in their order. *)
Lists(b, e) ==
    /\ e \in [1..Seen(b, Rows) -> (1..Rows) \X (1..N)]
    /\ \A q \in 1..Seen(b, Rows) :
          b[q] = e[q][2] - 1 /\ q \in (Seen(b, e[q][1] - 1) + 1)..Seen(b, e[q][1])

(* An index of a row is one of the indices, and its row is the only one.   *)
LEMMA RowUnique ==
    ASSUME NEW b, WellFormed(b), NEW i \in 1..Rows,
           NEW p \in (Seen(b, i - 1) + 1)..Seen(b, i)
    PROVE  /\ p \in 1..Seen(b, Rows) /\ Seen(b, Rows) \in 0..MaxOnesInHint
           /\ \A k \in 0..Rows : p <= Seen(b, k) <=> i <= k
<1>1. Rows \in Nat /\ MaxOnesInHint \in Nat
  BY ParametersAssumption
<1>2. /\ Seen(b, i - 1) \in Nat /\ Seen(b, i) \in Nat
      /\ Seen(b, i) <= Seen(b, Rows) /\ Seen(b, Rows) \in 0..MaxOnesInHint
  BY <1>1, SeenGrows
<1>3. p \in 1..Seen(b, Rows)
  BY <1>1, <1>2
<1>4. ASSUME NEW k \in 0..Rows, i <= k
      PROVE  p <= Seen(b, k)
  <2>1. Seen(b, i) <= Seen(b, k) /\ Seen(b, k) \in 0..MaxOnesInHint
    BY <1>1, <1>4, SeenGrows
  <2> QED
    BY <1>1, <1>2, <2>1
<1>5. ASSUME NEW k \in 0..Rows, ~(i <= k)
      PROVE  ~(p <= Seen(b, k))
  <2>1. k <= i - 1 /\ i - 1 \in 0..Rows
    BY <1>1, <1>5
  <2>2. Seen(b, k) <= Seen(b, i - 1) /\ Seen(b, k) \in 0..MaxOnesInHint
    BY <2>1, SeenGrows
  <2> QED
    BY <1>1, <1>2, <2>2
<1> QED
  BY <1>2, <1>3, <1>4, <1>5

(* There is such a list. *)
LEMMA ListingExists ==
    ASSUME NEW b, WellFormed(b)
    PROVE  \E e : Lists(b, e)
<1> DEFINE row(p) == CHOOSE i \in 1..Rows : p \in (Seen(b, i - 1) + 1)..Seen(b, i)
           e == [q \in 1..Seen(b, Rows) |-> <<row(q), b[q] + 1>>]
<1>1. Rows \in Nat /\ MaxOnesInHint \in Nat /\ N \in Nat
  BY ParametersAssumption
<1>2. \A q \in 1..Seen(b, Rows) :
          row(q) \in 1..Rows /\ q \in (Seen(b, row(q) - 1) + 1)..Seen(b, row(q))
  BY RowExists
<1> HIDE DEF row
<1>3. Seen(b, Rows) \in 0..MaxOnesInHint
  BY <1>1, SeenGrows
<1>4. \A q \in 1..Seen(b, Rows) : b[q] + 1 \in 1..N /\ b[q] = (b[q] + 1) - 1
  <2> TAKE q \in 1..Seen(b, Rows)
  <2>1. q \in 1..MaxOnesInHint
    BY <1>1, <1>3
  <2>2. b[q] \in 0..(N - 1)
    BY <2>1, Zenon DEF WellFormed, HintBytes
  <2> QED
    BY <1>1, <2>2
<1>5. e \in [1..Seen(b, Rows) -> (1..Rows) \X (1..N)]
  BY <1>2, <1>4
<1>6. \A q \in 1..Seen(b, Rows) : e[q][1] = row(q) /\ e[q][2] = b[q] + 1
  OBVIOUS
<1> HIDE DEF e
<1>7. Lists(b, e)
  BY <1>2, <1>4, <1>5, <1>6 DEF Lists
<1> QED
  BY <1>7

(* The parts of an entry. *)
LEMMA ListedParts ==
    ASSUME NEW b, WellFormed(b), NEW e, Lists(b, e), NEW q \in 1..Seen(b, Rows)
    PROVE  /\ e[q] = <<e[q][1], e[q][2]>> /\ e[q][1] \in 1..Rows /\ e[q][2] \in 1..N
           /\ b[q] = e[q][2] - 1
           /\ q \in (Seen(b, e[q][1] - 1) + 1)..Seen(b, e[q][1])
           /\ \A k \in 0..Rows : q <= Seen(b, k) <=> e[q][1] <= k
<1>1. e[q] \in (1..Rows) \X (1..N)
  BY DEF Lists
<1>2. /\ b[q] = e[q][2] - 1
      /\ q \in (Seen(b, e[q][1] - 1) + 1)..Seen(b, e[q][1])
  BY DEF Lists
<1>3. e[q] = <<e[q][1], e[q][2]>> /\ e[q][1] \in 1..Rows /\ e[q][2] \in 1..N
  BY <1>1
<1>4. \A k \in 0..Rows : q <= Seen(b, k) <=> e[q][1] <= k
  BY <1>2, <1>3, RowUnique
<1> QED
  BY <1>2, <1>3, <1>4

(* The list is in order. *)
LEMMA ListingOrdered ==
    ASSUME NEW b, WellFormed(b), NEW e, Lists(b, e),
           NEW p \in 1..Seen(b, Rows), NEW q \in 1..Seen(b, Rows), p < q
    PROVE  Before(e[p], e[q])
<1>1. Rows \in Nat /\ MaxOnesInHint \in Nat /\ N \in Nat
      /\ Seen(b, Rows) \in 0..MaxOnesInHint
  BY ParametersAssumption, SeenGrows
<1>2. PICK i \in 1..Rows : i = e[p][1]
  BY ListedParts
<1>3. PICK j \in 1..Rows : j = e[q][1]
  BY ListedParts
<1>4. p \in (Seen(b, i - 1) + 1)..Seen(b, i) /\ b[p] = e[p][2] - 1 /\ e[p][2] \in 1..N
      /\ \A k \in 0..Rows : p <= Seen(b, k) <=> i <= k
  BY <1>2, ListedParts
<1>5. q \in (Seen(b, j - 1) + 1)..Seen(b, j) /\ b[q] = e[q][2] - 1 /\ e[q][2] \in 1..N
  BY <1>3, ListedParts
<1>6. i <= j
  <2>1. j \in 0..Rows /\ Seen(b, j) \in 0..MaxOnesInHint
    BY <1>1, SeenGrows
  <2>2. p <= Seen(b, j)
    BY <1>1, <1>5, <2>1
  <2> QED
    BY <1>4, <2>1, <2>2
<1>7. CASE i = j
  <2>1. b[p] < b[q]
    BY <1>4, <1>5, <1>7, IndicesIncrease
  <2>2. e[p][2] < e[q][2]
    BY <1>1, <1>4, <1>5, <2>1
  <2> QED
    BY <1>2, <1>3, <1>7, <2>2 DEF Before
<1>8. CASE i # j
  <2>1. i < j
    BY <1>1, <1>6, <1>8
  <2> QED
    BY <1>2, <1>3, <2>1 DEF Before
<1> QED
  BY <1>7, <1>8

(* The list holds the ones of the decoded hint. *)
LEMMA ListingOnes ==
    ASSUME NEW b, WellFormed(b), NEW e, Lists(b, e), NEW h, h = HintDeserialize(b)
    PROVE  /\ \A q \in 1..Seen(b, Rows) : e[q] \in Ones(h)
           /\ \A x \in Ones(h) : \E q \in 1..Seen(b, Rows) : x = e[q]
<1>1. Rows \in Nat /\ N \in Nat
  BY ParametersAssumption
<1>2. \A i \in 1..Rows, n \in 1..N :
         h[i][n] = 1 <=> \E p \in (Seen(b, i - 1) + 1)..Seen(b, i) : b[p] = n - 1
  BY DEF HintDeserialize
<1>3. ASSUME NEW q \in 1..Seen(b, Rows)
      PROVE  e[q] \in Ones(h)
  <2>1. PICK i \in 1..Rows : i = e[q][1]
    BY ListedParts
  <2>2. PICK n \in 1..N : n = e[q][2]
    BY ListedParts
  <2>3. q \in (Seen(b, i - 1) + 1)..Seen(b, i) /\ b[q] = n - 1 /\ e[q] = <<i, n>>
    BY <2>1, <2>2, ListedParts
  <2>4. h[i][n] = 1
    BY <1>2, <2>3
  <2> QED
    BY <2>3, <2>4 DEF Ones
<1>4. ASSUME NEW x \in Ones(h)
      PROVE  \E q \in 1..Seen(b, Rows) : x = e[q]
  <2>1. PICK i \in 1..Rows, n \in 1..N : x = <<i, n>> /\ h[i][n] = 1
    BY DEF Ones
  <2>2. PICK p \in (Seen(b, i - 1) + 1)..Seen(b, i) : b[p] = n - 1
    BY <1>2, <2>1
  <2>3. /\ p \in 1..Seen(b, Rows)
        /\ \A k \in 0..Rows : p <= Seen(b, k) <=> i <= k
    BY RowUnique
  <2>4. /\ e[p] = <<e[p][1], e[p][2]>> /\ e[p][1] \in 1..Rows /\ e[p][2] \in 1..N
        /\ b[p] = e[p][2] - 1
        /\ \A k \in 0..Rows : p <= Seen(b, k) <=> e[p][1] <= k
    BY <2>3, ListedParts
  <2>5. e[p][2] = n
    BY <1>1, <2>2, <2>4
  <2>6. e[p][1] = i
    BY <1>1, <2>3, <2>4
  <2> QED
    BY <2>1, <2>3, <2>4, <2>5, <2>6
<1> QED
  BY <1>3, <1>4

(* Its first entries are as many as they are. *)
LEMMA CountListed ==
    ASSUME NEW b, WellFormed(b), NEW e, Lists(b, e), NEW m \in 0..Seen(b, Rows)
    PROVE  Cardinality({e[q] : q \in 1..m}) = m
<1> DEFINE S == {e[q] : q \in 1..m}
           f == [q \in 1..m |-> e[q]]
<1>1. Rows \in Nat /\ N \in Nat /\ MaxOnesInHint \in Nat
      /\ Seen(b, Rows) \in 0..MaxOnesInHint
  BY ParametersAssumption, SeenGrows
<1>2. \A p, q \in 1..m : p # q => e[p] # e[q]
  <2>1. ASSUME NEW p \in 1..m, NEW q \in 1..m, p < q
        PROVE  e[p] # e[q]
    <3>1. p \in 1..Seen(b, Rows) /\ q \in 1..Seen(b, Rows)
      BY <1>1
    <3>2. Before(e[p], e[q])
      BY <2>1, <3>1, ListingOrdered
    <3>3. e[p][1] \in Int /\ e[p][2] \in Int
      BY <1>1, <3>1, ListedParts
    <3> QED
      BY <3>2, <3>3 DEF Before
  <2> QED
    BY <1>1, <2>1
<1>3. f \in Bijection(1..m, S)
  <2>1. f \in [1..m -> S] /\ \A p, q \in 1..m : f[p] = f[q] => p = q
    BY <1>2
  <2>2. \A t \in S : \E q \in 1..m : f[q] = t
    OBVIOUS
  <2> HIDE DEF f, S
  <2> QED
    BY <2>1, <2>2 DEF Bijection, Injection, Surjection, IsInjective
<1> HIDE DEF f, S
<1>4. ExistsBijection(1..m, S)
  BY <1>3 DEF ExistsBijection
<1>5. m \in Nat
  BY <1>1
<1>6. Cardinality(S) = m
  BY <1>4, <1>5, FS_CountingElements
<1> QED
  BY <1>6 DEF S

(* The counts and the places of the decoded hint are those of the bytes.   *)
LEMMA DecodedCounts ==
    ASSUME NEW b, WellFormed(b), NEW e, Lists(b, e), NEW h, h = HintDeserialize(b)
    PROVE  /\ \A i \in 0..Rows : OnesUpTo(h, i) = Seen(b, i)
           /\ \A p \in 1..Seen(b, Rows) : OnesBefore(h, e[p]) = p - 1
<1>1. Rows \in Nat /\ N \in Nat /\ MaxOnesInHint \in Nat
      /\ Seen(b, Rows) \in 0..MaxOnesInHint
  BY ParametersAssumption, SeenGrows
<1>2. /\ \A q \in 1..Seen(b, Rows) : e[q] \in Ones(h)
      /\ \A x \in Ones(h) : \E q \in 1..Seen(b, Rows) : x = e[q]
  BY ListingOnes
<1>3. ASSUME NEW i \in 0..Rows
      PROVE  OnesUpTo(h, i) = Seen(b, i)
  <2>1. Seen(b, i) \in 0..Seen(b, Rows)
    BY <1>1, SeenGrows
  <2>2. \A q \in 1..Seen(b, Rows) : e[q][1] <= i <=> q \in 1..Seen(b, i)
    <3> TAKE q \in 1..Seen(b, Rows)
    <3>1. q <= Seen(b, i) <=> e[q][1] <= i
      BY ListedParts
    <3> QED
      BY <1>1, <2>1, <3>1
  <2>3. \A q \in 1..Seen(b, i) : q \in 1..Seen(b, Rows)
    BY <1>1, <2>1
  <2>4. {x \in Ones(h) : x[1] <= i} = {e[q] : q \in 1..Seen(b, i)}
    BY <1>2, <2>2, <2>3, Zenon
  <2>5. Cardinality({e[q] : q \in 1..Seen(b, i)}) = Seen(b, i)
    BY <2>1, CountListed
  <2> QED
    BY <2>4, <2>5, Zenon DEF OnesUpTo
<1>4. ASSUME NEW p \in 1..Seen(b, Rows)
      PROVE  OnesBefore(h, e[p]) = p - 1
  <2>1. p - 1 \in 0..Seen(b, Rows)
    BY <1>1
  <2>2. \A q \in 1..Seen(b, Rows) : Before(e[q], e[p]) <=> q \in 1..(p - 1)
    <3> TAKE q \in 1..Seen(b, Rows)
    <3>1. q < p => Before(e[q], e[p])
      BY ListingOrdered
    <3>2. p < q => Before(e[p], e[q])
      BY ListingOrdered
    <3>3. e[p][1] \in 1..Rows /\ e[p][2] \in 1..N /\ e[q][1] \in 1..Rows /\ e[q][2] \in 1..N
      BY ListedParts
    <3>4. ~(Before(e[p], e[q]) /\ Before(e[q], e[p])) /\ ~Before(e[p], e[p])
      BY <1>1, <3>3 DEF Before
    <3>5. q < p \/ p < q \/ p = q
      BY <1>1
    <3>6. q \in 1..(p - 1) <=> q < p
      BY <1>1
    <3>7. ~(q < p /\ p < q)
      BY <1>1
    <3> QED
      BY <3>1, <3>2, <3>4, <3>5, <3>6, <3>7, Zenon
  <2>3. \A q \in 1..(p - 1) : q \in 1..Seen(b, Rows)
    BY <1>1
  <2>4. {x \in Ones(h) : Before(x, e[p])} = {e[q] : q \in 1..(p - 1)}
    BY <1>2, <2>2, <2>3, Zenon
  <2>5. Cardinality({e[q] : q \in 1..(p - 1)}) = p - 1
    BY <2>1, CountListed
  <2>6. OnesBefore(h, e[p]) = Cardinality({x \in Ones(h) : Before(x, e[p])})
    BY DEF OnesBefore, Before
  <2> QED
    BY <2>4, <2>5, <2>6, Zenon
<1> QED
  BY <1>3, <1>4

(* What is accepted encodes what is decoded from it. *)
LEMMA AcceptedEncodes ==
    ASSUME NEW b, WellFormed(b), NEW h, h = HintDeserialize(b)
    PROVE  Encodes(b, h) /\ OnesUpTo(h, Rows) <= MaxOnesInHint
<1>1. Rows \in Nat /\ MaxOnesInHint \in Nat
      /\ Seen(b, Rows) \in 0..MaxOnesInHint
  BY ParametersAssumption, SeenGrows
<1>2. PICK e : Lists(b, e)
  BY ListingExists
<1>3. /\ \A i \in 0..Rows : OnesUpTo(h, i) = Seen(b, i)
      /\ \A p \in 1..Seen(b, Rows) : OnesBefore(h, e[p]) = p - 1
  BY <1>2, DecodedCounts
<1>4. OnesUpTo(h, Rows) = Seen(b, Rows)
  BY <1>1, <1>3
<1>5. ASSUME NEW p \in 1..OnesUpTo(h, Rows)
      PROVE  \E x \in Ones(h) : OnesBefore(h, x) = p - 1 /\ b[p] = x[2] - 1
  <2>1. p \in 1..Seen(b, Rows)
    BY <1>4
  <2>2. e[p] \in Ones(h)
    BY <1>2, <2>1, ListingOnes
  <2>3. b[p] = e[p][2] - 1
    BY <1>2, <2>1, ListedParts
  <2> QED
    BY <1>3, <2>1, <2>2, <2>3
<1>6. ASSUME NEW p \in (OnesUpTo(h, Rows) + 1)..MaxOnesInHint
      PROVE  b[p] = 0
  <2>1. p \in (Seen(b, Rows) + 1)..MaxOnesInHint
    BY <1>4
  <2> QED
    BY <2>1, Zenon DEF WellFormed, MalformedHint
<1> QED
  BY <1>1, <1>3, <1>4, <1>5, <1>6 DEF Encodes

(* A hint has one encoding. *)
LEMMA EncodingUnique ==
    ASSUME NEW h, OnesUpTo(h, Rows) <= MaxOnesInHint,
           NEW b \in Seq(Int), Len(b) = MaxOnesInHint + Rows, Encodes(b, h),
           NEW d \in Seq(Int), Len(d) = MaxOnesInHint + Rows, Encodes(d, h)
    PROVE  b = d
<1>1. Rows \in Nat /\ MaxOnesInHint \in Nat
  BY ParametersAssumption
<1>2. OnesUpTo(h, Rows) \in 0..MaxOnesInHint
  BY <1>1, OnesUpToBound
<1>3. ASSUME NEW p \in 1..(MaxOnesInHint + Rows)
      PROVE  b[p] = d[p]
  <2>1. CASE p <= OnesUpTo(h, Rows)
    <3>1. p \in 1..OnesUpTo(h, Rows)
      BY <1>1, <1>2, <2>1
    <3>2. PICK x \in Ones(h) : OnesBefore(h, x) = p - 1 /\ b[p] = x[2] - 1
      BY <3>1, Zenon DEF Encodes
    <3>3. PICK y \in Ones(h) : OnesBefore(h, y) = p - 1 /\ d[p] = y[2] - 1
      BY <3>1, Zenon DEF Encodes
    <3>4. x = y
      BY <3>2, <3>3, PlaceUnique, Zenon
    <3> QED
      BY <3>2, <3>3, <3>4, Zenon
  <2>2. CASE OnesUpTo(h, Rows) < p /\ p <= MaxOnesInHint
    <3>1. p \in (OnesUpTo(h, Rows) + 1)..MaxOnesInHint
      BY <1>1, <1>2, <2>2
    <3> QED
      BY <3>1, Zenon DEF Encodes
  <2>3. CASE MaxOnesInHint < p
    <3>1. PICK i \in 1..Rows : p = MaxOnesInHint + i
      <4>1. p - MaxOnesInHint \in 1..Rows /\ p = MaxOnesInHint + (p - MaxOnesInHint)
        BY <1>1, <2>3
      <4> QED
        BY <4>1, Zenon
    <3>2. i \in 0..Rows /\ i # 0
      BY <1>1
    <3>3. Seen(b, i) = Seen(d, i)
      BY <3>2, Zenon DEF Encodes
    <3> QED
      BY <3>1, <3>2, <3>3, Zenon DEF Seen
  <2> QED
    BY <1>1, <1>2, <2>1, <2>2, <2>3
<1> QED
  BY <1>3, SameSequence

(* Bytes that deserialize accepts are those serialize gives for what it    *)
(* decodes.                                                                *)
LEMMA AcceptedCanonical ==
    ASSUME NEW b, WellFormed(b)
    PROVE  b = HintSerialize(HintDeserialize(b))
<1>1. PICK h : h = HintDeserialize(b)
  OBVIOUS
<1>2. Encodes(b, h) /\ OnesUpTo(h, Rows) <= MaxOnesInHint
  BY <1>1, AcceptedEncodes
<1>3. /\ Encodes(HintSerialize(h), h) /\ HintSerialize(h) \in Seq(Int)
      /\ Len(HintSerialize(h)) = MaxOnesInHint + Rows
  BY <1>2, SerializeEncodes
<1>4. b \in Seq(Int) /\ Len(b) = MaxOnesInHint + Rows
  BY DEF WellFormed, HintBytes
<1>5. b = HintSerialize(h)
  BY <1>2, <1>3, <1>4, EncodingUnique, Zenon
<1> QED
  BY <1>1, <1>5

(* The encoding of hints, for every hint and all bytes. *)
THEOREM HintsEncodeExactly == HintCodec
<1>1. ASSUME NEW hint \in Hints, OnesUpTo(hint, Rows) <= MaxOnesInHint
      PROVE  /\ ~MalformedHint(HintSerialize(hint))
             /\ HintDeserialize(HintSerialize(hint)) = hint
  <2>1. PICK bytes : bytes = HintSerialize(hint)
    OBVIOUS
  <2>2. Encodes(bytes, hint)
    BY <1>1, <2>1, SerializeEncodes, Zenon
  <2>3. ~MalformedHint(bytes) /\ HintDeserialize(bytes) = hint
    BY <1>1, <2>2, EncodingWellFormed, EncodingDecodes, Zenon
  <2> QED
    BY <2>1, <2>3, Zenon
<1>2. ASSUME NEW b, WellFormed(b)
      PROVE  b = HintSerialize(HintDeserialize(b))
  BY <1>2, AcceptedCanonical, Zenon
<1> QED
  BY <1>1, <1>2, Zenon DEF HintCodec

(* Inner products are linear, for every number of columns. *)
LEMMA InnerProductsAreLinear == InnerProductsLinear
  BY InnerProductInt, InnerProductLinear, Zenon DEF InnerProductsLinear

-----------------------------------------------------------------------------
(* The invariant, and what it gives, for every parameter set.              *)

(* Signing keeps its invariant. *)
THEOREM SigningInvariant == Spec => []SigningInv
<1>1. Init => SigningInv
  BY SigningInvInit
<1>2. SigningInv /\ [Next]_vars => SigningInv'
  BY SigningInvStep, HintsEncodeExactly, InnerProductsAreLinear
<1> QED
  BY <1>1, <1>2, PTL DEF Spec

(* Every signature that sign returns verifies for its call. *)
THEOREM SignedVerify == Spec => []SignaturesVerify
<1>1. SigningInv => SignaturesVerify
  BY InvariantVerifies
<1> QED
  BY <1>1, SigningInvariant, PTL

(* A signature verifies for no call but its own: what is absorbed for a    *)
(* call determines its context, its message and how it was hashed.         *)
THEOREM SignedOnlyAsCalled == Spec => []VerifiesOnlyAsSigned
<1>1. SigningInv => VerifiesOnlyAsSigned
  BY InvariantOnlyAsCalled
<1> QED
  BY <1>1, SigningInvariant, PTL

(* Verification accepts a single encoding of a hint. *)
THEOREM HintEncodingCanonical == Spec => []HintsCanonical
<1>1. SigningInv => HintsCanonical
  BY InvariantCanonical, HintsEncodeExactly
<1> QED
  BY <1>1, SigningInvariant, PTL

(* No mask stream is read twice: the seed fixes the call, and the number   *)
(* of a stream its attempt and its column, since it never wraps.           *)
THEOREM StreamsNeverReused == Spec => []MasksNeverReused
<1>1. SigningInv => MasksNeverReused
  BY InvariantFreshMasks
<1> QED
  BY <1>1, SigningInvariant, PTL
=============================================================================
