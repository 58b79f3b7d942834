--------------------------- MODULE PrimitiveProofs ---------------------------
(***************************************************************************)
(* Proofs about what the algorithms of the library share: the detection of *)
(* CPU features, for any number of threads and words, and the HMAC-DRBG,   *)
(* for any reseed interval, sizes and values of its blocks.                *)
(***************************************************************************)
EXTENDS CpuFeatures, HmacDrbg, WellFoundedInduction, TLAPS

-----------------------------------------------------------------------------
(* CPU features. *)

(* A thread is sure of the words it has stored; a release store carries    *)
(* all words; a thread past init is sure of all words.                     *)
StoredSeen == \A t \in Threads : \A n \in 1 .. next[t] - 1 : Words[n] \in view[t]
ReleasedComplete == \A v \in released : AllWords \subseteq v
ReadyComplete == \A t \in Threads : pc[t] = "ready" => AllWords \subseteq view[t]

FeaturesInv == TypeOK /\ StoredSeen /\ ReleasedComplete /\ ReadyComplete
               /\ ReadsFinalValues

(* The number of words is a natural number and each is one of AllWords.    *)
LEMMA WordsFinite ==
    /\ Len(Words) \in Nat
    /\ \A n \in 1..Len(Words) : Words[n] \in AllWords
    /\ \A w \in AllWords : \E n \in 1..Len(Words) : w = Words[n]
BY WordsAssumption DEF AllWords

(* The static atomics start at zero and uninitialised.                     *)
LEMMA FeaturesInit == Init => FeaturesInv
BY WordsFinite DEF Init, FeaturesInv, TypeOK, StoredSeen, ReleasedComplete,
                   ReadyComplete, ReadsFinalValues

(* Every step of init, publish and supported keeps the invariant.          *)
LEMMA FeaturesStep == FeaturesInv /\ [Next]_vars => FeaturesInv'
<1> SUFFICES ASSUME FeaturesInv, [Next]_vars PROVE FeaturesInv'
    OBVIOUS
<1> USE WordsFinite DEF FeaturesInv
<1>1. CASE UNCHANGED vars
    BY <1>1 DEF vars, TypeOK, StoredSeen, ReleasedComplete, ReadyComplete,
                ReadsFinalValues
<1>2. ASSUME NEW t \in Threads, LoadTrue(t) PROVE FeaturesInv'
    <2>1. PICK v \in released : view' = [view EXCEPT ![t] = @ \cup v]
        BY <1>2, Zenon DEF LoadTrue
    <2>2. v \subseteq stored /\ AllWords \subseteq v
        BY DEF TypeOK, ReleasedComplete
    <2> QED
        BY <1>2, <2>1, <2>2 DEF LoadTrue, TypeOK, StoredSeen,
           ReleasedComplete, ReadyComplete, ReadsFinalValues
<1>3. ASSUME NEW t \in Threads, LoadFalse(t) PROVE FeaturesInv'
    BY <1>3, Zenon DEF LoadFalse, TypeOK, StoredSeen, ReleasedComplete,
       ReadyComplete, ReadsFinalValues
<1>4. ASSUME NEW t \in Threads, Store(t) PROVE FeaturesInv'
    <2>1. TypeOK'
        BY <1>4 DEF Store, TypeOK
    <2>2. StoredSeen'
        BY <1>4 DEF Store, TypeOK, StoredSeen
    <2>3. ReleasedComplete' /\ ReadyComplete' /\ ReadsFinalValues'
        BY <1>4 DEF Store, TypeOK, ReleasedComplete, ReadyComplete,
           ReadsFinalValues
    <2> QED  BY <2>1, <2>2, <2>3
<1>5. ASSUME NEW t \in Threads, Publish(t) PROVE FeaturesInv'
    <2>1. AllWords \subseteq view[t]
        BY <1>5 DEF Publish, TypeOK, StoredSeen
    <2> QED
        BY <1>5, <2>1 DEF Publish, TypeOK, StoredSeen, ReleasedComplete,
           ReadyComplete, ReadsFinalValues
<1>6. ASSUME NEW t \in Threads, Return(t) PROVE FeaturesInv'
    BY <1>6 DEF Return, TypeOK, StoredSeen, ReleasedComplete,
       ReadyComplete, ReadsFinalValues
<1>7. ASSUME NEW t \in Threads, NEW w \in AllWords, Load(t, w) PROVE FeaturesInv'
    <2>1. Visible(t, w) = {Machine[w]}
        BY <1>7 DEF Load, Visible, ReadyComplete
    <2>2. /\ got' = [got EXCEPT ![t] = @ \cup {<<w, Machine[w]>>}]
          /\ view' = [view EXCEPT ![t] = @ \cup ({w} \cap stored)]
        BY <1>7, <2>1, Zenon DEF Load
    <2>3. TypeOK'
        BY <1>7, <2>2 DEF Load, TypeOK, Values
    <2>4. ReadsFinalValues'
        BY <2>2 DEF TypeOK, ReadsFinalValues
    <2>5. StoredSeen' /\ ReleasedComplete' /\ ReadyComplete'
        BY <1>7, <2>2 DEF Load, TypeOK, StoredSeen, ReleasedComplete,
           ReadyComplete
    <2> QED  BY <2>3, <2>4, <2>5
<1> QED
    BY <1>1, <1>2, <1>3, <1>4, <1>5, <1>6, <1>7 DEF Next

(* The state of init, publish and supported keeps its types: no view holds *)
(* a word that was not stored.                                             *)
THEOREM TypeCorrect == Spec => []TypeOK
<1>1. FeaturesInv => TypeOK
    BY DEF FeaturesInv
<1> QED
    BY FeaturesInit, FeaturesStep, <1>1, PTL DEF Spec

(* Threads that race through init of x86.rs or linux_arm.rs never read a   *)
(* word other than the one the machine reports.                            *)
THEOREM FeaturesStable == Spec => []ReadsFinalValues
<1>1. FeaturesInv => ReadsFinalValues
    BY DEF FeaturesInv
<1> QED
    BY FeaturesInit, FeaturesStep, <1>1, PTL DEF Spec

-----------------------------------------------------------------------------
(* Sequences and recursion. *)

(* A set of naturals that is not empty has a least element. *)
LEMMA LeastElement ==
    ASSUME NEW T, T \subseteq Nat, T # {}
    PROVE  \E x \in T : \A y \in T : x <= y
<1> DEFINE R == OpToRel(<, Nat)
<1>1. IsWellFoundedOn(R, Nat)
  BY NatLessThanWellFounded, Zenon
<1>2. \A x, y \in Nat : x < y => <<x, y>> \in R
  BY DEF OpToRel
<1> HIDE DEF R
<1>3. PICK x \in T : \A y \in T : ~(<<y, x>> \in R)
  BY <1>1, WFMin, Zenon
<1>4. ASSUME NEW y \in T
      PROVE  x <= y
  <2>1. x \in Nat /\ y \in Nat /\ ~(y < x)
    BY <1>2, <1>3, Zenon
  <2> QED
    BY <2>1
<1> QED
  BY <1>4

(* Induction, for the set of the numbers that have a property. *)
LEMMA SetInduction ==
    ASSUME NEW S, 0 \in S, \A n \in Nat : n \in S => n + 1 \in S
    PROVE  \A n \in Nat : n \in S
<1> SUFFICES ASSUME Nat \ S # {}
             PROVE  FALSE
  OBVIOUS
<1>1. PICK x \in Nat \ S : \A y \in Nat \ S : x <= y
  BY LeastElement, Zenon
<1>2. x - 1 \in Nat
  BY <1>1
<1>3. x - 1 \in S
  BY <1>1, <1>2
<1> QED
  BY <1>1, <1>2, <1>3

-----------------------------------------------------------------------------
(* Sequences, whatever their elements. *)
Chain(c) == \E S : c \in Seq(S)

(* The indices of a sequence. *)
LEMMA ChainLen ==
    ASSUME NEW c, Chain(c)
    PROVE  Len(c) \in Nat /\ DOMAIN c = 1..Len(c)
<1>1. PICK S : c \in Seq(S)
  BY Zenon DEF Chain
<1> QED
  BY <1>1, SMT

(* The elements of a sequence may be taken from any larger set. *)
LEMMA ChainIn ==
    ASSUME NEW c, Chain(c), NEW T, \A i \in 1..Len(c) : c[i] \in T
    PROVE  c \in Seq(T)
<1>1. PICK S : c \in Seq(S)
  BY Zenon DEF Chain
<1> QED
  BY <1>1

(* The empty sequence. *)
LEMMA ChainEmpty == Chain(<<>>) /\ Len(<<>>) = 0
<1>1. <<>> \in Seq({})
  BY SMT
<1> QED
  BY <1>1 DEF Chain

(* A sequence with an element appended. *)
LEMMA ChainAppend ==
    ASSUME NEW c, Chain(c), NEW x
    PROVE  /\ Chain(Append(c, x))
           /\ Len(Append(c, x)) = Len(c) + 1
           /\ \A i \in 1..Len(c) : Append(c, x)[i] = c[i]
           /\ Append(c, x)[Len(c) + 1] = x
<1>1. PICK T : T = {c[i] : i \in 1..Len(c)} \cup {x}
  BY Zenon
<1>2. c \in Seq(T) /\ x \in T
  BY <1>1, ChainIn, Zenon
<1>3. /\ Append(c, x) \in Seq(T)
      /\ Len(Append(c, x)) = Len(c) + 1
      /\ \A i \in 1..Len(c) : Append(c, x)[i] = c[i]
      /\ Append(c, x)[Len(c) + 1] = x
  BY ONLY <1>2
<1> QED
  BY <1>3, Zenon DEF Chain

(* Two sequences, one after the other. *)
LEMMA ChainConcat ==
    ASSUME NEW c, Chain(c), NEW e, Chain(e)
    PROVE  /\ Chain(c \o e)
           /\ Len(c \o e) = Len(c) + Len(e)
           /\ \A i \in 1..(Len(c) + Len(e)) :
                (c \o e)[i] = IF i <= Len(c) THEN c[i] ELSE e[i - Len(c)]
<1>1. PICK T : T = {c[i] : i \in 1..Len(c)} \cup {e[i] : i \in 1..Len(e)}
  BY Zenon
<1>2. c \in Seq(T) /\ e \in Seq(T)
  BY <1>1, ChainIn, Zenon
<1>3. /\ c \o e \in Seq(T)
      /\ Len(c \o e) = Len(c) + Len(e)
      /\ \A i \in 1..(Len(c) + Len(e)) :
           (c \o e)[i] = IF i <= Len(c) THEN c[i] ELSE e[i - Len(c)]
  BY ONLY <1>2, SMT
<1> QED
  BY <1>3, Zenon DEF Chain

-----------------------------------------------------------------------------
(* Multiplication by a natural number keeps the order. *)
LEMMA MultiplyOrder ==
    ASSUME NEW i \in Int, NEW j \in Int, NEW l \in Nat, i <= j
    PROVE  i * l \in Int /\ j * l \in Int /\ i * l <= j * l
<1>1. PICK k \in Nat : k = j - i
  BY SMT
<1>2. k * l \in Nat
  BY SMT
<1>3. j * l = i * l + k * l
  BY <1>1, SMT
<1> QED
  BY <1>2, <1>3, SMT

(* The number of pieces of length l that n bytes need, and how many bytes  *)
(* the pieces before the last one leave.                                   *)
LEMMA Pieces ==
    ASSUME NEW n \in Nat, NEW l \in Nat \ {0}
    PROVE  /\ (n + l - 1) \div l \in Nat
           /\ n <= ((n + l - 1) \div l) * l
           /\ ((n + l - 1) \div l) * l <= n + l - 1
<1>1. PICK m \in Nat : m = n + l - 1
  BY SMT
<1>2. PICK q \in Int : q = m \div l
  BY SMT
<1>3. q * l <= m /\ m < (q + 1) * l
  BY <1>1, <1>2, SMT
<1>4. (q + 1) * l = q * l + l
  BY SMT
<1>5. q >= 0
  <2> SUFFICES ASSUME q + 1 <= 0
               PROVE  FALSE
    BY SMT
  <2>1. (q + 1) * l <= 0 * l
    BY MultiplyOrder
  <2> QED
    BY <1>1, <1>3, <2>1, SMT
<1> QED
  BY <1>1, <1>2, <1>3, <1>4, <1>5, SMT

(* So every piece but the last is full and the last is not empty. *)
LEMMA PieceBounds ==
    ASSUME NEW n \in Nat, NEW l \in Nat \ {0}, NEW i \in 1..((n + l - 1) \div l)
    PROVE  i \in Nat /\ i - 1 \in Nat /\ (i - 1) * l \in Nat /\ (i - 1) * l < n
           /\ i * l = (i - 1) * l + l
<1>1. PICK q \in Nat : q = (n + l - 1) \div l /\ q * l <= n + l - 1
  BY Pieces
<1>2. i \in Nat /\ 1 <= i /\ i <= q
  BY <1>1
<1>3. i * l <= q * l
  BY <1>2, MultiplyOrder
<1>4. i * l = (i - 1) * l + l
  BY <1>2, SMT
<1>5. (i - 1) * l \in Nat
  BY <1>2, SMT
<1> QED
  BY <1>1, <1>2, <1>3, <1>4, <1>5, SMT

-----------------------------------------------------------------------------
(* HMAC-DRBG: one step of a generator. *)

(* A generator, with health state that says whether it is poisoned. *)
IsGenerator(s) ==
    /\ {"kind", "chain", "v", "reseed_counter", "health", "calls"} \subseteq DOMAIN s
    /\ "poisoned" \in DOMAIN s.health

(* The state t of a generator that was in state s, with the same counts. *)
SameCounts(s, t) ==
    t.kind = s.kind /\ t.reseed_counter = s.reseed_counter /\ t.calls = s.calls

(* An update extends the chain and keeps kind, counts and health. *)
LEMMA UpdateFields ==
    ASSUME NEW s, IsGenerator(s), NEW data, NEW v
    PROVE  /\ IsGenerator(update(s, data, v))
           /\ SameCounts(s, update(s, data, v))
           /\ update(s, data, v).chain = Append(s.chain, <<"update", data>>)
           /\ update(s, data, v).health = s.health
  BY SMT DEF IsGenerator, SameCounts, update

(* Seeding extends the chain, starts the counts anew and does not heal. *)
LEMMA SeededFields ==
    ASSUME NEW s, IsGenerator(s), NEW material, NEW v
    PROVE  /\ IsGenerator(Seeded(s, material, v))
           /\ Seeded(s, material, v).kind = s.kind
           /\ Seeded(s, material, v).reseed_counter = 1
           /\ Seeded(s, material, v).calls = 0
           /\ Seeded(s, material, v).chain = Append(s.chain, <<"update", material>>)
           /\ Seeded(s, material, v).health.poisoned = s.health.poisoned
<1>1. PICK t : /\ t = update(s, material, v) /\ IsGenerator(t) /\ t.kind = s.kind
               /\ t.chain = Append(s.chain, <<"update", material>>)
               /\ t.health = s.health
  BY UpdateFields DEF SameCounts
<1>2. PICK g : g = ResetHealth(t.health)
  OBVIOUS
<1>3. g.poisoned = t.health.poisoned /\ "poisoned" \in DOMAIN g
  BY <1>1, <1>2, SMT DEF ResetHealth, IsGenerator
<1>4. Seeded(s, material, v) = [t EXCEPT !.reseed_counter = 1, !.calls = 0, !.health = g]
  BY <1>1, <1>2, Zenon DEF Seeded
<1> QED
  BY <1>1, <1>3, <1>4, SMT DEF IsGenerator

(* A new generator is healthy. *)
LEMMA UnseededFields ==
    ASSUME NEW kind
    PROVE  /\ IsGenerator(Unseeded(kind))
           /\ Unseeded(kind).kind = kind
           /\ Unseeded(kind).chain = <<>>
           /\ ~Unseeded(kind).health.poisoned
  BY SMT DEF IsGenerator, Unseeded, NewHealth

(* Poisoning drops the chain and keeps kind and counts. *)
LEMMA PoisonFields ==
    ASSUME NEW s, IsGenerator(s)
    PROVE  /\ IsGenerator(zeroize_and_poison(s))
           /\ SameCounts(s, zeroize_and_poison(s))
           /\ zeroize_and_poison(s).chain = <<>>
           /\ zeroize_and_poison(s).health.poisoned
<1>1. PICK g : g = [s.health EXCEPT !.prev = ZeroBlock, !.rct_last = 0, !.apt_first = 0,
                                    !.poisoned = TRUE]
  OBVIOUS
<1>2. g.poisoned /\ "poisoned" \in DOMAIN g
  BY <1>1, SMT DEF IsGenerator
<1>3. zeroize_and_poison(s) = [s EXCEPT !.chain = <<>>, !.v = ZeroBlock, !.health = g]
  BY <1>1, SMT DEF zeroize_and_poison
<1> QED
  BY <1>2, <1>3, SMT DEF IsGenerator, SameCounts

(* What a generate call gives. *)
IsResult(r) == {"s", "code", "blocks", "written"} \subseteq DOMAIN r

(* The fields of a result. *)
LEMMA ResultFields ==
    ASSUME NEW s, NEW code, NEW blocks, NEW written
    PROVE  /\ Result(s, code, blocks, written).s = s
           /\ Result(s, code, blocks, written).code = code
           /\ Result(s, code, blocks, written).blocks = blocks
           /\ Result(s, code, blocks, written).written = written
           /\ IsResult(Result(s, code, blocks, written))
  BY DEF Result, IsResult

-----------------------------------------------------------------------------
(* One byte leaves the field in place. *)
LEMMA ByteCheckDomain ==
    ASSUME NEW h, "poisoned" \in DOMAIN h, NEW byte
    PROVE  "poisoned" \in DOMAIN ByteCheck(h, byte)
  BY DEF ByteCheck

(* The health states after each byte of a block, up to the n-th. *)
ByteSteps(h, block, n, f) ==
    /\ DOMAIN f = 0..n
    /\ f[0] = h
    /\ \A i \in 1..n :
          f[i] = IF f[i - 1].poisoned THEN f[i - 1] ELSE ByteCheck(f[i - 1], block[i])

(* There are such states. *)
LEMMA ByteStepsExist ==
    ASSUME NEW h, NEW block
    PROVE  \A n \in Nat : \E f : ByteSteps(h, block, n, f)
<1> DEFINE S == {n \in Nat : \E f : ByteSteps(h, block, n, f)}
<1>1. 0 \in S
  <2>1. ByteSteps(h, block, 0, [i \in 0..0 |-> h])
    BY SMT DEF ByteSteps
  <2> QED
    BY <2>1, Zenon
<1>2. ASSUME NEW n \in Nat, n \in S
      PROVE  n + 1 \in S
  <2>1. PICK f : ByteSteps(h, block, n, f)
    BY <1>2, Zenon
  <2>2. PICK e : e = IF f[n].poisoned THEN f[n] ELSE ByteCheck(f[n], block[n + 1])
    BY Zenon
  <2>3. PICK g : g = [i \in 0..(n + 1) |-> IF i = n + 1 THEN e ELSE f[i]]
    BY Zenon
  <2>4. DOMAIN g = 0..(n + 1) /\ g[0] = h
    BY <2>1, <2>3, SMT DEF ByteSteps
  <2>5. ASSUME NEW i \in 1..(n + 1)
        PROVE  g[i] = IF g[i - 1].poisoned THEN g[i - 1] ELSE ByteCheck(g[i - 1], block[i])
    <3>1. CASE i = n + 1
      <4>1. g[i] = e /\ g[i - 1] = f[n]
        BY <2>3, <3>1, SMT
      <4> QED
        BY <2>2, <3>1, <4>1, Zenon
    <3>2. CASE i # n + 1
      <4>1. i \in 1..n /\ g[i] = f[i] /\ g[i - 1] = f[i - 1]
        BY <2>3, <3>2, SMT
      <4> QED
        BY <2>1, <4>1, Zenon DEF ByteSteps
    <3> QED
      BY <3>1, <3>2, Zenon
  <2>6. ByteSteps(h, block, n + 1, g)
    BY <2>4, <2>5, Zenon DEF ByteSteps
  <2>7. n + 1 \in Nat
    BY SMT
  <2> QED
    BY <2>6, <2>7, Zenon
<1> HIDE DEF S
<1>3. \A n \in Nat : n \in S
  BY <1>1, <1>2, SetInduction
<1> QED
  BY <1>3, Zenon DEF S

(* The byte checks of a block leave the field in place. *)
LEMMA ByteChecksDomain ==
    ASSUME DrbgParametersOk, NEW h, "poisoned" \in DOMAIN h, NEW block
    PROVE  "poisoned" \in DOMAIN run_byte_checks(h, block)
<1>0. OUTLEN \in Nat
  BY DEF DrbgParametersOk
<1> DEFINE F(f) == [i \in 0..OUTLEN |->
                      IF i = 0 THEN h
                      ELSE IF f[i - 1].poisoned THEN f[i - 1]
                      ELSE ByteCheck(f[i - 1], block[i])]
           after == CHOOSE f : f = F(f)
<1>1. PICK g : ByteSteps(h, block, OUTLEN, g) /\ g = [i \in 0..OUTLEN |-> g[i]]
  <2>1. PICK f : ByteSteps(h, block, OUTLEN, f)
    BY <1>0, ByteStepsExist, Zenon
  <2>2. PICK g : g = [i \in 0..OUTLEN |-> f[i]]
    BY Zenon
  <2>3. /\ DOMAIN g = 0..OUTLEN
        /\ \A i \in 0..OUTLEN : g[i] = f[i]
        /\ g = [i \in 0..OUTLEN |-> g[i]]
    BY <2>2
  <2>4. 0 \in 0..OUTLEN /\ \A i \in 1..OUTLEN : i \in 0..OUTLEN /\ i - 1 \in 0..OUTLEN
    BY <1>0, SMT
  <2>5. ByteSteps(h, block, OUTLEN, g)
    BY <2>1, <2>3, <2>4, Zenon DEF ByteSteps
  <2> QED
    BY <2>3, <2>5, Zenon
<1>2. g = F(g)
  <2>1. ASSUME NEW i \in 0..OUTLEN
        PROVE  g[i] = IF i = 0 THEN h
                      ELSE IF g[i - 1].poisoned THEN g[i - 1]
                      ELSE ByteCheck(g[i - 1], block[i])
    <3>1. i = 0 \/ (i \in 1..OUTLEN /\ i # 0)
      BY <1>0, SMT
    <3> QED
      BY <1>1, <3>1, Zenon DEF ByteSteps
  <2>2. [i \in 0..OUTLEN |-> g[i]] = F(g)
    BY <2>1, Zenon
  <2> QED
    BY <1>1, <2>2, Zenon
<1>3. after = F(after)
  <2> HIDE DEF F
  <2> QED
    BY <1>2, Zenon
<1>4. run_byte_checks(h, block) = after[OUTLEN]
  BY DEF run_byte_checks
<1>5. PICK f : f = after
  OBVIOUS
<1>6. f = F(f)
  BY <1>3, <1>5, ZenonT(60)
<1> HIDE DEF after
<1> DEFINE S == {n \in Nat : n <= OUTLEN => "poisoned" \in DOMAIN f[n]}
<1>7. 0 \in S
  <2>1. f[0] = h
    BY <1>0, <1>6
  <2> QED
    BY <2>1
<1>8. ASSUME NEW n \in Nat, n \in S
      PROVE  n + 1 \in S
  <2> SUFFICES ASSUME n + 1 <= OUTLEN
               PROVE  "poisoned" \in DOMAIN f[n + 1]
    OBVIOUS
  <2>1. "poisoned" \in DOMAIN f[n]
    BY <1>0, <1>8
  <2>2. n + 1 \in 0..OUTLEN /\ n + 1 # 0 /\ (n + 1) - 1 = n
    BY <1>0
  <2>3. f[n + 1] = IF f[n].poisoned THEN f[n] ELSE ByteCheck(f[n], block[n + 1])
    BY <1>6, <2>2, Zenon
  <2> QED
    BY <2>1, <2>3, ByteCheckDomain, Zenon
<1> HIDE DEF S, F
<1>9. OUTLEN \in S
  BY <1>0, <1>7, <1>8, SetInduction
<1>10. "poisoned" \in DOMAIN f[OUTLEN]
  BY <1>0, <1>9 DEF S
<1> QED
  BY <1>4, <1>5, <1>10, Zenon

-----------------------------------------------------------------------------
(* HMAC-DRBG: the output loop. *)

(* The bytes written once a block was put out. *)
WrittenAfter(written, n) == IF n - written < OUTLEN THEN n ELSE written + OUTLEN

(* What the output of a block does, if the health tests fail. *)
LEMMA FailedBlock ==
    ASSUME NEW r, IsGenerator(r.s), NEW block, NEW n, OutputBlock(r, block, n).code # "Ok"
    PROVE  OutputBlock(r, block, n) =
             Result(zeroize_and_poison(r.s), "HealthCheckFailed", r.blocks, r.written)
           /\ r.s.kind = "health"
<1>1. CASE r.s.kind = "health" /\ (check_block(r.s, block)
                                   \/ run_byte_checks(r.s.health, block).poisoned)
  BY <1>1, Zenon DEF OutputBlock
<1>2. CASE ~(r.s.kind = "health" /\ (check_block(r.s, block)
                                     \/ run_byte_checks(r.s.health, block).poisoned))
  <2>1. \E s, b, w : OutputBlock(r, block, n) = Result(s, "Ok", b, w)
    BY <1>2, Zenon DEF OutputBlock
  <2> QED
    BY <2>1, ResultFields
<1> QED
  BY <1>1, <1>2, Zenon

(* What it does if they do not: the chain grows by the block. *)
LEMMA NextBlock ==
    ASSUME DrbgParametersOk,
           NEW r, IsGenerator(r.s), NEW block, NEW n, OutputBlock(r, block, n).code = "Ok"
    PROVE  \E t : /\ OutputBlock(r, block, n) =
                       Result(t, "Ok", Append(r.blocks, t.chain), WrittenAfter(r.written, n))
                  /\ IsGenerator(t) /\ SameCounts(r.s, t)
                  /\ t.chain = Append(r.s.chain, "block")
                  /\ r.s.kind # "health" => t.health = r.s.health
<1>1. ~(r.s.kind = "health" /\ (check_block(r.s, block)
                                \/ run_byte_checks(r.s.health, block).poisoned))
  <2> SUFFICES ASSUME r.s.kind = "health" /\ (check_block(r.s, block)
                                     \/ run_byte_checks(r.s.health, block).poisoned)
               PROVE  FALSE
    OBVIOUS
  <2>1. \E s, b, w : OutputBlock(r, block, n) = Result(s, "HealthCheckFailed", b, w)
    BY Zenon DEF OutputBlock
  <2>2. "HealthCheckFailed" # "Ok"
    OBVIOUS
  <2> QED
    BY <2>1, <2>2, ResultFields
<1>2. PICK h, s, c :
        /\ s = r.s /\ c = Append(s.chain, "block")
        /\ h = IF s.kind = "health"
               THEN [run_byte_checks(s.health, block) EXCEPT !.prev = block, !.prev_valid = TRUE]
               ELSE s.health
  BY Zenon
<1>3. "poisoned" \in DOMAIN h
  <2>1. "poisoned" \in DOMAIN s.health
    BY <1>2, Zenon DEF IsGenerator
  <2>2. PICK b : b = run_byte_checks(s.health, block) /\ "poisoned" \in DOMAIN b
    BY <2>1, ByteChecksDomain, Zenon
  <2>3. "poisoned" \in DOMAIN [b EXCEPT !.prev = block, !.prev_valid = TRUE]
    BY <2>2, SMT
  <2> QED
    BY <1>2, <2>1, <2>2, <2>3, Zenon
<1>4. PICK t : t = [s EXCEPT !.chain = c, !.v = block, !.health = h]
  OBVIOUS
<1>5. /\ IsGenerator(t) /\ SameCounts(s, t)
      /\ t.chain = c /\ t.health = h
  BY <1>2, <1>3, <1>4, SMT DEF IsGenerator, SameCounts
<1>6. OutputBlock(r, block, n) = Result(t, "Ok", Append(r.blocks, c), WrittenAfter(r.written, n))
  BY <1>1, <1>2, <1>4, Zenon DEF OutputBlock, WrittenAfter
<1> QED
  BY <1>2, <1>5, <1>6, Zenon

-----------------------------------------------------------------------------
(* The blocks that a generator with chain c puts out one after the other. *)
Grown(c, blocks) ==
    /\ Chain(blocks)
    /\ \A j \in 1..Len(blocks) :
          Chain(blocks[j]) /\ Len(blocks[j]) = Len(c) + j /\ blocks[j][1] = c[1]

(* No blocks were put out at the start. *)
LEMMA GrownEmpty == \A c : Grown(c, <<>>)
<1>1. 1..0 = {}
  BY SMT
<1> QED
  BY <1>1, ChainEmpty, Zenon DEF Grown

(* The next block is the chain with one more step. *)
LEMMA GrownAppend ==
    ASSUME NEW c, Chain(c), Len(c) >= 1,
           NEW blocks, Grown(c, blocks),
           NEW e, Chain(e), Len(e) = Len(c) + Len(blocks) + 1, e[1] = c[1]
    PROVE  Grown(c, Append(blocks, e)) /\ Len(Append(blocks, e)) = Len(blocks) + 1
<1>1. Chain(blocks) /\ Len(blocks) \in Nat /\ Len(c) \in Nat
  BY ChainLen, Zenon DEF Grown
<1>a. /\ Chain(Append(blocks, e)) /\ Len(Append(blocks, e)) = Len(blocks) + 1
      /\ \A i \in 1..Len(blocks) : Append(blocks, e)[i] = blocks[i]
      /\ Append(blocks, e)[Len(blocks) + 1] = e
  BY <1>1, ChainAppend
<1>b. PICK b : b = Append(blocks, e)
  BY Zenon
<1>2. /\ b = Append(blocks, e) /\ Chain(b) /\ Len(b) = Len(blocks) + 1
      /\ \A i \in 1..Len(blocks) : b[i] = blocks[i]
      /\ b[Len(blocks) + 1] = e
  BY <1>a, <1>b, Zenon
<1>3. ASSUME NEW j \in 1..(Len(blocks) + 1)
      PROVE  Chain(b[j]) /\ Len(b[j]) = Len(c) + j /\ b[j][1] = c[1]
  <2>1. CASE j = Len(blocks) + 1
    <3>1. Len(e) = Len(c) + j
      BY <1>1, <2>1
    <3> QED
      BY <1>2, <2>1, <3>1, Zenon
  <2>2. CASE j # Len(blocks) + 1
    <3>1. j \in 1..Len(blocks)
      BY <1>1, <2>2
    <3> QED
      BY <1>2, <3>1, Zenon DEF Grown
  <2> QED
    BY <2>1, <2>2, Zenon
<1> QED
  BY <1>2, <1>3, Zenon DEF Grown

(* The bytes that i pieces of length l hold of n. *)
Covered(i, l, n) == IF i * l <= n THEN i * l ELSE n

(* The output loop, after i blocks, if all went well. *)
LoopGoes(start, n, i, r) ==
    /\ IsResult(r) /\ r.code = "Ok"
    /\ IsGenerator(r.s) /\ SameCounts(start, r.s)
    /\ start.kind # "health" => r.s.health = start.health
    /\ Chain(r.s.chain) /\ Len(r.s.chain) = Len(start.chain) + i
    /\ r.s.chain[1] = start.chain[1]
    /\ Grown(start.chain, r.blocks) /\ Len(r.blocks) = i
    /\ r.written = Covered(i, OUTLEN, n)

(* The output loop, once a health test failed. *)
LoopFailed(start, n, r) ==
    /\ r.code # "Ok" /\ r.code # "panic"
    /\ start.kind = "health" /\ r.s.health.poisoned
    /\ IsGenerator(r.s) /\ SameCounts(start, r.s)
    /\ r.s.chain = <<>>
    /\ Grown(start.chain, r.blocks)
    /\ r.written \in Nat /\ r.written < n

(* The bytes written, from one block to the next. *)
LEMMA CoveredStep ==
    ASSUME DrbgParametersOk, NEW n \in Nat, NEW i \in 1..BlockCount(n)
    PROVE  /\ i \in Nat /\ i - 1 \in Nat
           /\ Covered(i - 1, OUTLEN, n) \in Nat /\ Covered(i - 1, OUTLEN, n) < n
           /\ WrittenAfter(Covered(i - 1, OUTLEN, n), n) = Covered(i, OUTLEN, n)
<1>1. OUTLEN \in Nat \ {0}
  BY DEF DrbgParametersOk
<1>2. PICK p \in Nat : p = (i - 1) * OUTLEN /\ i - 1 \in Nat /\ i \in Nat
                       /\ p < n /\ i * OUTLEN = p + OUTLEN
  BY <1>1, PieceBounds DEF BlockCount
<1>3. Covered(i - 1, OUTLEN, n) = p
  BY <1>2 DEF Covered
<1>4. Covered(i, OUTLEN, n) = IF p + OUTLEN <= n THEN p + OUTLEN ELSE n
  BY <1>2, Zenon DEF Covered
<1>5. WrittenAfter(p, n) = IF p + OUTLEN <= n THEN p + OUTLEN ELSE n
  BY <1>1, <1>2 DEF WrittenAfter
<1> QED
  BY <1>2, <1>3, <1>4, <1>5, Zenon

(* One more turn of the loop. *)
LEMMA LoopTurn ==
    ASSUME DrbgParametersOk, NEW start, Chain(start.chain), Len(start.chain) >= 1,
           NEW n \in Nat, NEW i \in 1..BlockCount(n),
           NEW r, LoopGoes(start, n, i - 1, r), NEW block
    PROVE  \/ LoopGoes(start, n, i, OutputBlock(r, block, n))
           \/ LoopFailed(start, n, OutputBlock(r, block, n))
<1>1. /\ i \in Nat /\ i - 1 \in Nat
      /\ Covered(i - 1, OUTLEN, n) \in Nat /\ Covered(i - 1, OUTLEN, n) < n
      /\ WrittenAfter(Covered(i - 1, OUTLEN, n), n) = Covered(i, OUTLEN, n)
  BY CoveredStep, Zenon
<1>2. /\ IsGenerator(r.s) /\ SameCounts(start, r.s)
      /\ start.kind # "health" => r.s.health = start.health
      /\ Chain(r.s.chain) /\ Len(r.s.chain) = Len(start.chain) + (i - 1)
      /\ r.s.chain[1] = start.chain[1]
      /\ Grown(start.chain, r.blocks) /\ Len(r.blocks) = i - 1
      /\ r.written = Covered(i - 1, OUTLEN, n)
  BY Zenon DEF LoopGoes
<1>3. CASE OutputBlock(r, block, n).code # "Ok"
  <2>1. PICK t : t = zeroize_and_poison(r.s)
    OBVIOUS
  <2>2. /\ OutputBlock(r, block, n) = Result(t, "HealthCheckFailed", r.blocks, r.written)
        /\ r.s.kind = "health"
    BY <1>2, <1>3, <2>1, FailedBlock, Zenon
  <2>3. IsGenerator(t) /\ SameCounts(r.s, t) /\ t.chain = <<>> /\ t.health.poisoned
    BY <1>2, <2>1, PoisonFields, Zenon
  <2>4. SameCounts(start, t) /\ start.kind = "health"
    BY <1>2, <2>2, <2>3, Zenon DEF SameCounts
  <2>5. PICK o : /\ o = OutputBlock(r, block, n)
                 /\ o.s = t /\ o.code = "HealthCheckFailed"
                 /\ o.blocks = r.blocks /\ o.written = r.written
    BY <2>2, ResultFields
  <2>6. o.code # "Ok" /\ o.code # "panic"
    BY <2>5, SMT
  <2>7. LoopFailed(start, n, o)
    BY <1>1, <1>2, <2>3, <2>4, <2>5, <2>6, Zenon DEF LoopFailed
  <2> QED
    BY <2>5, <2>7, Zenon
<1>4. CASE OutputBlock(r, block, n).code = "Ok"
  <2>1. PICK t : /\ OutputBlock(r, block, n) =
                       Result(t, "Ok", Append(r.blocks, t.chain), WrittenAfter(r.written, n))
                 /\ IsGenerator(t) /\ SameCounts(r.s, t)
                 /\ t.chain = Append(r.s.chain, "block")
                 /\ r.s.kind # "health" => t.health = r.s.health
    BY <1>2, <1>4, NextBlock, ZenonT(60)
  <2>2. PICK o : /\ o = OutputBlock(r, block, n)
                 /\ IsResult(o) /\ o.s = t /\ o.code = "Ok"
                 /\ o.blocks = Append(r.blocks, t.chain)
                 /\ o.written = Covered(i, OUTLEN, n)
    <3>1. PICK b, w : b = Append(r.blocks, t.chain) /\ w = WrittenAfter(r.written, n)
      BY Zenon
    <3>2. w = Covered(i, OUTLEN, n)
      BY <1>1, <1>2, <3>1, Zenon
    <3>3. OutputBlock(r, block, n) = Result(t, "Ok", b, w)
      BY <2>1, <3>1, Zenon
    <3>4. PICK o : o = Result(t, "Ok", b, w)
      OBVIOUS
    <3>5. IsResult(o) /\ o.s = t /\ o.code = "Ok" /\ o.blocks = b /\ o.written = w
      BY ONLY <3>4, ResultFields
    <3> QED
      BY <3>1, <3>2, <3>3, <3>4, <3>5, Zenon
  <2>3. SameCounts(start, t) /\ (start.kind # "health" => t.health = start.health)
    BY <1>2, <2>1, Zenon DEF SameCounts
  <2>4. Len(start.chain) \in Nat /\ Len(r.s.chain) >= 1
    BY <1>1, <1>2, ChainLen
  <2>5. /\ Chain(t.chain)
        /\ Len(t.chain) = Len(r.s.chain) + 1
        /\ \A k \in 1..Len(r.s.chain) : t.chain[k] = r.s.chain[k]
    <3>1. PICK c : c = r.s.chain /\ Chain(c)
      BY <1>2, Zenon
    <3>2. PICK e : e = Append(c, "block")
      BY Zenon
    <3>3. Chain(e) /\ Len(e) = Len(c) + 1 /\ \A k \in 1..Len(c) : e[k] = c[k]
      <4>1. /\ Chain(Append(c, "block")) /\ Len(Append(c, "block")) = Len(c) + 1
            /\ \A k \in 1..Len(c) : Append(c, "block")[k] = c[k]
        BY <3>1, ChainAppend
      <4> QED
        BY <3>2, <4>1, Zenon
    <3>4. t.chain = e
      BY <2>1, <3>1, <3>2, Zenon
    <3> QED
      BY <3>1, <3>3, <3>4, Zenon
  <2>6. 1 \in 1..Len(r.s.chain)
    BY <1>1, <1>2, <2>4
  <2>7. t.chain[1] = start.chain[1]
    BY <1>2, <2>5, <2>6, Zenon
  <2>8. Len(t.chain) = Len(start.chain) + i
    BY <1>1, <1>2, <2>4, <2>5
  <2>9. Len(t.chain) = Len(start.chain) + Len(r.blocks) + 1
    BY <1>1, <1>2, <2>4, <2>5
  <2>10. Grown(start.chain, o.blocks) /\ Len(o.blocks) = Len(r.blocks) + 1
    <3>1. PICK c, b, e : c = start.chain /\ b = r.blocks /\ e = t.chain
      OBVIOUS
    <3>2. /\ Chain(c) /\ Len(c) >= 1 /\ Grown(c, b) /\ Chain(e)
          /\ Len(e) = Len(c) + Len(b) + 1 /\ e[1] = c[1]
      BY <1>2, <2>5, <2>7, <2>9, <3>1, Zenon
    <3>3. Grown(c, Append(b, e)) /\ Len(Append(b, e)) = Len(b) + 1
      BY <3>2, GrownAppend, Zenon
    <3> QED
      BY <2>2, <3>1, <3>3, Zenon
  <2>11. Len(o.blocks) = i
    BY <1>1, <1>2, <2>10
  <2>12. LoopGoes(start, n, i, o)
    BY <2>1, <2>2, <2>3, <2>5, <2>7, <2>8, <2>10, <2>11, Zenon DEF LoopGoes
  <2> QED
    BY <2>2, <2>12, Zenon
<1> QED
  BY <1>3, <1>4, Zenon

-----------------------------------------------------------------------------
(* One step of the loop. *)
Turned(r, vs, k, n) == IF r.code # "Ok" THEN r ELSE OutputBlock(r, vs.b[k], n)

(* The results after each of the first m blocks. *)
LoopSteps(start, n, vs, from, m, f) ==
    /\ DOMAIN f = 0..m
    /\ f[0] = Result(start, "Ok", <<>>, 0)
    /\ \A i \in 1..m : f[i] = Turned(f[i - 1], vs, from + i, n)

(* There are such results. *)
LEMMA LoopStepsExist ==
    ASSUME NEW start, NEW n, NEW vs, NEW from
    PROVE  \A m \in Nat : \E f : LoopSteps(start, n, vs, from, m, f)
<1> DEFINE S == {m \in Nat : \E f : LoopSteps(start, n, vs, from, m, f)}
<1>1. 0 \in S
  <2>1. PICK e : e = Result(start, "Ok", <<>>, 0)
    OBVIOUS
  <2>2. PICK f : f = [i \in 0..0 |-> e]
    BY Zenon
  <2>3. DOMAIN f = 0..0 /\ f[0] = e /\ 1..0 = {}
    BY <2>2
  <2>4. LoopSteps(start, n, vs, from, 0, f)
    BY <2>1, <2>3, Zenon DEF LoopSteps
  <2> QED
    BY <2>4, Zenon
<1>2. ASSUME NEW m \in Nat, m \in S
      PROVE  m + 1 \in S
  <2>1. PICK f : LoopSteps(start, n, vs, from, m, f)
    BY <1>2, Zenon
  <2>2. PICK e : e = Turned(f[m], vs, from + (m + 1), n)
    OBVIOUS
  <2>3. PICK g : g = [i \in 0..(m + 1) |-> IF i = m + 1 THEN e ELSE f[i]]
    BY Zenon
  <2>4. DOMAIN g = 0..(m + 1) /\ g[0] = f[0]
    BY <2>3
  <2>5. ASSUME NEW i \in 1..(m + 1)
        PROVE  g[i] = Turned(g[i - 1], vs, from + i, n)
    <3>1. CASE i = m + 1
      <4>1. g[i] = e /\ g[i - 1] = f[m]
        BY <2>3, <3>1
      <4> QED
        BY <2>2, <3>1, <4>1, Zenon
    <3>2. CASE i # m + 1
      <4>1. i \in 1..m /\ g[i] = f[i] /\ g[i - 1] = f[i - 1]
        BY <2>3, <3>2
      <4> QED
        BY <2>1, <4>1, Zenon DEF LoopSteps
    <3> QED
      BY <3>1, <3>2, Zenon
  <2>6. LoopSteps(start, n, vs, from, m + 1, g)
    BY <2>1, <2>4, <2>5, Zenon DEF LoopSteps
  <2>7. m + 1 \in Nat
    OBVIOUS
  <2> QED
    BY <2>6, <2>7, Zenon
<1> HIDE DEF S
<1>3. \A m \in Nat : m \in S
  BY <1>1, <1>2, SetInduction
<1> QED
  BY <1>3, Zenon DEF S

(* The output loop ends with the last of them. *)
LEMMA LoopSteps_Loop ==
    ASSUME NEW start, NEW n, NEW vs, NEW from, BlockCount(n) \in Nat
    PROVE  \E f : /\ LoopSteps(start, n, vs, from, BlockCount(n), f)
                  /\ OutputLoop(start, n, vs, from) = f[BlockCount(n)]
<1> DEFINE m == BlockCount(n)
           F(f) == [i \in 0..m |->
                      IF i = 0 THEN Result(start, "Ok", <<>>, 0)
                      ELSE IF f[i - 1].code # "Ok" THEN f[i - 1]
                      ELSE OutputBlock(f[i - 1], vs.b[from + i], n)]
           after == CHOOSE f : f = F(f)
<1>0. m \in Nat
  OBVIOUS
<1>1. OutputLoop(start, n, vs, from) = after[m]
  BY DEF OutputLoop
<1> HIDE DEF m
<1>2. PICK g : LoopSteps(start, n, vs, from, m, g) /\ g = [i \in 0..m |-> g[i]]
  <2>1. PICK f : LoopSteps(start, n, vs, from, m, f)
    BY <1>0, LoopStepsExist, Zenon
  <2>2. PICK g : g = [i \in 0..m |-> f[i]]
    BY Zenon
  <2>3. /\ DOMAIN g = 0..m
        /\ \A i \in 0..m : g[i] = f[i]
        /\ g = [i \in 0..m |-> g[i]]
    BY <2>2
  <2>4. 0 \in 0..m /\ \A i \in 1..m : i \in 0..m /\ i - 1 \in 0..m
    BY <1>0
  <2>5. LoopSteps(start, n, vs, from, m, g)
    BY <2>1, <2>3, <2>4, Zenon DEF LoopSteps
  <2> QED
    BY <2>3, <2>5, Zenon
<1>3. g = F(g)
  <2>1. ASSUME NEW i \in 0..m
        PROVE  g[i] = IF i = 0 THEN Result(start, "Ok", <<>>, 0)
                      ELSE IF g[i - 1].code # "Ok" THEN g[i - 1]
                      ELSE OutputBlock(g[i - 1], vs.b[from + i], n)
    <3>1. i = 0 \/ (i \in 1..m /\ i # 0)
      BY <1>0
    <3> QED
      BY <1>2, <3>1, Zenon DEF LoopSteps, Turned
  <2>2. [i \in 0..m |-> g[i]] = F(g)
    BY <2>1, Zenon
  <2> QED
    BY <1>2, <2>2, Zenon
<1>4. after = F(after)
  <2> HIDE DEF F
  <2> QED
    BY <1>3, Zenon
<1>5. PICK f : f = after
  OBVIOUS
<1> HIDE DEF after
<1>6. f = F(f)
  <2> HIDE DEF F
  <2> QED
    BY <1>4, <1>5, Zenon
<1>7. DOMAIN f = 0..m
  BY <1>6
<1>8. ASSUME NEW i \in 0..m
      PROVE  f[i] = IF i = 0 THEN Result(start, "Ok", <<>>, 0)
                    ELSE IF f[i - 1].code # "Ok" THEN f[i - 1]
                    ELSE OutputBlock(f[i - 1], vs.b[from + i], n)
  BY <1>6, Zenon
<1>9. 0 \in 0..m /\ \A i \in 1..m : i \in 0..m /\ i # 0
  BY <1>0
<1>10. LoopSteps(start, n, vs, from, m, f)
  BY <1>7, <1>8, <1>9, Zenon DEF LoopSteps, Turned
<1> QED
  BY <1>1, <1>5, <1>10, Zenon DEF m

(* What the output loop gives. *)
LEMMA LoopResult ==
    ASSUME DrbgParametersOk, NEW start, IsGenerator(start),
           Chain(start.chain), Len(start.chain) >= 1,
           NEW n \in Nat, NEW vs, NEW from
    PROVE  /\ BlockCount(n) \in Nat
           /\ \/ /\ LoopGoes(start, n, BlockCount(n), OutputLoop(start, n, vs, from))
                 /\ OutputLoop(start, n, vs, from).written = n
              \/ LoopFailed(start, n, OutputLoop(start, n, vs, from))
<1>1. PICK m \in Nat : m = BlockCount(n) /\ n <= m * OUTLEN /\ OUTLEN \in Nat
  BY Pieces, Zenon DEF BlockCount, DrbgParametersOk
<1>2. PICK f : /\ LoopSteps(start, n, vs, from, m, f)
               /\ OutputLoop(start, n, vs, from) = f[m]
  BY <1>1, LoopSteps_Loop, Zenon
<1> DEFINE S == {i \in Nat : i <= m => \/ LoopGoes(start, n, i, f[i])
                                       \/ LoopFailed(start, n, f[i])}
<1>3. 0 \in S
  <2>1. PICK e : e = Result(start, "Ok", <<>>, 0)
    OBVIOUS
  <2>2. IsResult(e) /\ e.s = start /\ e.code = "Ok" /\ e.blocks = <<>> /\ e.written = 0
    BY <2>1, ResultFields
  <2>3. Len(start.chain) = Len(start.chain) + 0 /\ 0 = Covered(0, OUTLEN, n)
    <3>1. Len(start.chain) \in Nat
      BY ChainLen
    <3> QED
      BY <1>1, <3>1 DEF Covered
  <2>4. Grown(start.chain, <<>>) /\ Len(<<>>) = 0
    BY GrownEmpty, ChainEmpty, Zenon
  <2>5. LoopGoes(start, n, 0, e)
    BY <2>2, <2>3, <2>4, Zenon DEF LoopGoes, SameCounts
  <2>6. f[0] = e
    BY <1>2, <2>1, Zenon DEF LoopSteps
  <2>7. 0 \in Nat
    OBVIOUS
  <2> QED
    BY <2>5, <2>6, <2>7, Zenon
<1>4. ASSUME NEW i \in Nat, i \in S
      PROVE  i + 1 \in S
  <2> SUFFICES ASSUME i + 1 <= m
               PROVE  LoopGoes(start, n, i + 1, f[i + 1]) \/ LoopFailed(start, n, f[i + 1])
    OBVIOUS
  <2>1. i + 1 \in 1..m /\ (i + 1) - 1 = i /\ i <= m
    BY <1>1
  <2>2. LoopGoes(start, n, i, f[i]) \/ LoopFailed(start, n, f[i])
    BY <1>4, <2>1, Zenon
  <2>3. f[i + 1] = Turned(f[i], vs, from + (i + 1), n)
    BY <1>2, <2>1, Zenon DEF LoopSteps
  <2>4. CASE LoopFailed(start, n, f[i])
    BY <2>3, <2>4, Zenon DEF LoopFailed, Turned
  <2>5. CASE LoopGoes(start, n, i, f[i])
    <3>1. f[i + 1] = OutputBlock(f[i], vs.b[from + (i + 1)], n)
      BY <2>3, <2>5, Zenon DEF LoopGoes, Turned
    <3>2. PICK k \in 1..BlockCount(n) : k = i + 1 /\ k - 1 = i
      BY <1>1, <2>1
    <3>3. LoopGoes(start, n, k - 1, f[i])
      BY <2>5, <3>2, Zenon
    <3> QED
      BY <3>1, <3>2, <3>3, LoopTurn, Zenon
  <2> QED
    BY <2>2, <2>4, <2>5, Zenon
<1> HIDE DEF S
<1>5. m \in S
  BY <1>1, <1>3, <1>4, SetInduction, Zenon
<1>6. m <= m
  BY <1>1
<1>7. LoopGoes(start, n, m, f[m]) \/ LoopFailed(start, n, f[m])
  BY <1>5, <1>6, Zenon DEF S
<1>8. Covered(m, OUTLEN, n) = n
  <2>1. m * OUTLEN \in Nat
    BY <1>1, SMT
  <2> QED
    BY <1>1, <2>1 DEF Covered
<1> QED
  BY <1>1, <1>2, <1>7, <1>8, Zenon DEF LoopGoes

-----------------------------------------------------------------------------
(* HMAC-DRBG: a generate call that runs its loop. *)

(* A generator between calls: its counter is one ahead of its calls, only  *)
(* one with health tests can be poisoned, and only a poisoned one has lost *)
(* its chain.                                                              *)
Live(s) ==
    /\ IsGenerator(s) /\ Chain(s.chain)
    /\ s.kind # "health" => ~s.health.poisoned
    /\ Len(s.chain) = 0 => s.kind = "health" /\ s.health.poisoned
    /\ s.calls \in Nat /\ s.calls <= RESEED_INTERVAL
    /\ s.reseed_counter = s.calls + 1

(* The state t of a generator that was in state s: same seed, same chain   *)
(* or a longer one.                                                        *)
Later(s, t) ==
    /\ t.kind = s.kind
    /\ Len(s.chain) >= 1 /\ Len(t.chain) >= Len(s.chain)
    /\ t.chain[1] = s.chain[1]

(* What a call on a generator in state s does: its blocks come after the   *)
(* chain of s and in order, and the chain that is kept comes after them.   *)
Progress(s, r) ==
    /\ Live(r.s) /\ r.s.kind = s.kind
    /\ Chain(r.blocks)
    /\ Len(s.chain) = 0 => Len(r.blocks) = 0 /\ Len(r.s.chain) = 0
    /\ \A i \in 1..Len(r.blocks) :
          /\ Chain(r.blocks[i]) /\ Len(s.chain) < Len(r.blocks[i])
          /\ r.blocks[i][1] = s.chain[1]
          /\ Len(r.s.chain) = 0 \/ Len(r.blocks[i]) < Len(r.s.chain)
    /\ \A i, j \in 1..Len(r.blocks) : i < j => Len(r.blocks[i]) < Len(r.blocks[j])
    /\ Len(r.s.chain) = 0 \/ Later(s, r.s)

(* How a call for n bytes is answered. *)
Answered(n, r) ==
    /\ r.written \in Nat
    /\ r.code = "Ok" => r.written = n
    /\ r.code # "Ok" /\ n > 0 => r.written < n
    /\ r.code # "panic"

(* A refused call changes nothing. *)
LEMMA StayProgress ==
    ASSUME NEW s, Live(s), NEW code, NEW n \in Nat
    PROVE  /\ Progress(s, Result(s, code, <<>>, 0))
           /\ code # "Ok" /\ code # "panic" => Answered(n, Result(s, code, <<>>, 0))
<1>1. PICK r : /\ r = Result(s, code, <<>>, 0)
               /\ r.s = s /\ r.code = code /\ r.blocks = <<>> /\ r.written = 0
  BY ResultFields
<1>2. Chain(<<>>) /\ Len(<<>>) = 0
  BY ChainEmpty, Zenon
<1>3. Chain(s.chain) /\ Len(s.chain) \in Nat
  BY ChainLen, Zenon DEF Live
<1>4. Len(s.chain) = 0 \/ Later(s, s)
  BY <1>3 DEF Later
<1>5. 1..0 = {}
  OBVIOUS
<1>6. Progress(s, r)
  BY <1>1, <1>2, <1>4, <1>5, Zenon DEF Progress
<1>7. code # "Ok" /\ code # "panic" => Answered(n, r)
  BY <1>1 DEF Answered
<1> QED
  BY <1>1, <1>6, <1>7, Zenon

(* The same blocks seen from an earlier state. *)
LEMMA EarlierProgress ==
    ASSUME NEW s, Chain(s.chain), NEW t, Chain(t.chain), Later(s, t),
           NEW r, Progress(t, r)
    PROVE  Progress(s, r)
<1>1. /\ Len(s.chain) \in Nat /\ Len(t.chain) \in Nat
      /\ Chain(r.s.chain) /\ Len(r.s.chain) \in Nat
      /\ Chain(r.blocks)
  BY ChainLen, Zenon DEF Progress, Live
<1>2. /\ t.kind = s.kind /\ t.chain[1] = s.chain[1]
      /\ Len(s.chain) >= 1 /\ Len(t.chain) >= Len(s.chain)
  BY Zenon DEF Later
<1>3. ASSUME NEW i \in 1..Len(r.blocks)
      PROVE  /\ Chain(r.blocks[i]) /\ Len(s.chain) < Len(r.blocks[i])
             /\ r.blocks[i][1] = s.chain[1]
             /\ Len(r.s.chain) = 0 \/ Len(r.blocks[i]) < Len(r.s.chain)
  <2>1. /\ Chain(r.blocks[i]) /\ Len(t.chain) < Len(r.blocks[i])
        /\ r.blocks[i][1] = t.chain[1]
        /\ Len(r.s.chain) = 0 \/ Len(r.blocks[i]) < Len(r.s.chain)
    BY Zenon DEF Progress
  <2>2. Len(r.blocks[i]) \in Nat
    BY <2>1, ChainLen, Zenon
  <2>3. Len(s.chain) < Len(r.blocks[i])
    BY <1>1, <1>2, <2>1, <2>2
  <2> QED
    BY <1>2, <2>1, <2>3, Zenon
<1>4. Len(r.s.chain) = 0 \/ Later(s, r.s)
  <2>1. CASE Later(t, r.s)
    <3>1. Len(r.s.chain) >= Len(s.chain)
      BY <1>1, <1>2, <2>1 DEF Later
    <3> QED
      BY <1>2, <2>1, <3>1, Zenon DEF Later
  <2> QED
    BY <2>1, Zenon DEF Progress
<1>5. Len(s.chain) # 0
  BY <1>1, <1>2
<1> QED
  BY <1>1, <1>2, <1>3, <1>4, <1>5, Zenon DEF Progress

(* Blocks that grew from a later state are in order. *)
LEMMA GrownProgress ==
    ASSUME NEW s, Chain(s.chain), NEW t, Chain(t.chain), Later(s, t),
           NEW r, Grown(t.chain, r.blocks), Live(r.s), r.s.kind = s.kind,
           \/ Len(r.s.chain) = 0
           \/ /\ Len(r.s.chain) = Len(t.chain) + Len(r.blocks) + 1
              /\ r.s.chain[1] = t.chain[1]
    PROVE  Progress(s, r)
<1>1. /\ Len(s.chain) \in Nat /\ Len(t.chain) \in Nat
      /\ Chain(r.blocks) /\ Len(r.blocks) \in Nat
  BY ChainLen, Zenon DEF Grown
<1>2. /\ t.chain[1] = s.chain[1]
      /\ Len(s.chain) >= 1 /\ Len(t.chain) >= Len(s.chain)
  BY Zenon DEF Later
<1>3. \A i \in 1..Len(r.blocks) :
         Chain(r.blocks[i]) /\ Len(r.blocks[i]) = Len(t.chain) + i /\ r.blocks[i][1] = t.chain[1]
  BY Zenon DEF Grown
<1>a. PICK x \in Nat, y \in Nat, b \in Nat, z \in Nat :
         /\ x = Len(s.chain) /\ y = Len(t.chain) /\ b = Len(r.blocks)
         /\ z = Len(r.s.chain) /\ (z = 0 \/ z = y + b + 1)
  BY <1>1, ChainLen, Zenon DEF Live
<1>4. ASSUME NEW i \in 1..Len(r.blocks)
      PROVE  /\ Chain(r.blocks[i]) /\ Len(s.chain) < Len(r.blocks[i])
             /\ r.blocks[i][1] = s.chain[1]
             /\ Len(r.s.chain) = 0 \/ Len(r.blocks[i]) < Len(r.s.chain)
  <2>1. Len(r.blocks[i]) = y + i /\ i \in 1..b
    BY <1>3, <1>a, Zenon
  <2>2. Len(s.chain) < Len(r.blocks[i])
    BY <1>1, <1>2, <1>a, <2>1
  <2>3. z = 0 \/ Len(r.blocks[i]) < z
    <3>1. PICK w \in Nat : w = Len(r.blocks[i]) /\ w = y + i
      BY <2>1
    <3>2. z = 0 \/ w < z
      <4>1. /\ y \in Nat /\ b \in Nat /\ z \in Nat /\ w \in Nat /\ i \in 1..b
            /\ w = y + i /\ (z = 0 \/ z = y + b + 1)
        BY <1>a, <2>1, <3>1, Zenon
      <4> QED
        BY ONLY <4>1
    <3> QED
      BY <3>1, <3>2, Zenon
  <2> QED
    BY <1>2, <1>3, <1>a, <2>2, <2>3, Zenon
<1>5. ASSUME NEW i \in 1..Len(r.blocks), NEW j \in 1..Len(r.blocks), i < j
      PROVE  Len(r.blocks[i]) < Len(r.blocks[j])
  <2>1. Len(r.blocks[i]) = Len(t.chain) + i /\ Len(r.blocks[j]) = Len(t.chain) + j
    BY <1>3, Zenon
  <2> QED
    BY <1>1, <1>5, <2>1
<1>6. Len(r.s.chain) = 0 \/ Later(s, r.s)
  <2>1. CASE Len(r.s.chain) = Len(t.chain) + Len(r.blocks) + 1 /\ r.s.chain[1] = t.chain[1]
    <3>1. z = y + b + 1 /\ y >= x
      BY <1>2, <1>a, <2>1, Zenon
    <3>2. z >= x
      BY <3>1
    <3>3. Len(r.s.chain) >= Len(s.chain)
      BY <1>a, <3>2, Zenon
    <3> QED
      BY <1>2, <2>1, <3>3, Zenon DEF Later
  <2> QED
    BY <2>1, Zenon
<1>7. Len(s.chain) # 0
  BY <1>1, <1>2
<1> QED
  BY <1>1, <1>4, <1>5, <1>6, <1>7, Zenon DEF Progress

-----------------------------------------------------------------------------
(* An append to a chain that is not empty. *)
LEMMA ChainExtends ==
    ASSUME NEW c, Chain(c), Len(c) >= 1, NEW x
    PROVE  /\ Chain(Append(c, x)) /\ Len(c) \in Nat
           /\ Len(Append(c, x)) = Len(c) + 1
           /\ Append(c, x)[1] = c[1]
<1>1. Len(c) \in Nat
  BY ChainLen, Zenon
<1>2. 1 \in 1..Len(c)
  BY <1>1
<1>3. PICK e : e = Append(c, x)
  BY Zenon
<1>4. Chain(e) /\ Len(e) = Len(c) + 1 /\ \A i \in 1..Len(c) : e[i] = c[i]
  BY <1>3, ChainAppend, ZenonT(60)
<1> QED
  BY <1>1, <1>2, <1>3, <1>4, Zenon

(* The additional input, or its absence. *)
LEMMA AdditionallyFields ==
    ASSUME NEW s, Live(s), Len(s.chain) >= 1, NEW additional, NEW vs
    PROVE  /\ IsGenerator(Additionally(s, additional, vs))
           /\ SameCounts(s, Additionally(s, additional, vs))
           /\ Additionally(s, additional, vs).health = s.health
           /\ Chain(Additionally(s, additional, vs).chain)
           /\ Later(s, Additionally(s, additional, vs))
<1>1. IsGenerator(s) /\ Chain(s.chain) /\ Len(s.chain) \in Nat
  BY ChainLen, Zenon DEF Live
<1>2. CASE additional = Empty
  <2>1. Additionally(s, additional, vs) = s
    BY <1>2, Zenon DEF Additionally
  <2>2. Later(s, s)
    BY <1>1 DEF Later
  <2> QED
    BY <1>1, <2>1, <2>2, Zenon DEF SameCounts
<1>3. CASE additional # Empty
  <2>1. PICK t : t = update(s, additional, vs.u)
    OBVIOUS
  <2>2. /\ IsGenerator(t) /\ SameCounts(s, t)
        /\ t.chain = Append(s.chain, <<"update", additional>>)
        /\ t.health = s.health
    BY <1>1, <2>1, UpdateFields, Zenon
  <2>3. Chain(t.chain) /\ Len(t.chain) = Len(s.chain) + 1 /\ t.chain[1] = s.chain[1]
    <3>1. PICK c, e : /\ c = s.chain /\ e = Append(c, <<"update", additional>>)
                      /\ Chain(e) /\ Len(e) = Len(c) + 1 /\ e[1] = c[1]
      BY <1>1, ChainExtends, Zenon
    <3> QED
      BY <2>2, <3>1, Zenon
  <2>4. Len(t.chain) >= Len(s.chain)
    BY <1>1, <2>3
  <2>5. Later(s, t)
    BY <2>2, <2>3, <2>4, Zenon DEF Later, SameCounts
  <2>6. Additionally(s, additional, vs) = t
    BY <1>3, <2>1, Zenon DEF Additionally
  <2> QED
    BY <2>2, <2>3, <2>5, <2>6, Zenon
<1> QED
  BY <1>2, <1>3, Zenon

(* A call that goes through, or fails at a block. *)
LEMMA ProduceProgress ==
    ASSUME DrbgParametersOk, NEW s, Live(s), Len(s.chain) >= 1, ~Exhausted(s),
           NEW n \in Nat, NEW additional, NEW vs, NEW from
    PROVE  /\ Progress(s, Produce(s, n, additional, vs, from))
           /\ Answered(n, Produce(s, n, additional, vs, from))
           /\ s.kind # "health" => Produce(s, n, additional, vs, from).code = "Ok"
<1>1. PICK t : /\ t = Additionally(s, additional, vs)
               /\ IsGenerator(t) /\ SameCounts(s, t) /\ t.health = s.health
               /\ Chain(t.chain) /\ Later(s, t)
  BY AdditionallyFields, Zenon
<1>2. PICK l : l = OutputLoop(t, n, vs, from)
  OBVIOUS
<1>3. Chain(s.chain) /\ Len(s.chain) \in Nat /\ Len(t.chain) \in Nat
  BY <1>1, ChainLen, Zenon DEF Live
<1>4. Len(t.chain) >= 1
  BY <1>1, <1>3 DEF Later
<1>5. \/ LoopGoes(t, n, BlockCount(n), l) /\ l.written = n /\ BlockCount(n) \in Nat
      \/ LoopFailed(t, n, l)
  BY <1>1, <1>2, <1>4, LoopResult, Zenon
<1>6. /\ s.calls \in Nat /\ s.calls <= RESEED_INTERVAL
      /\ s.reseed_counter = s.calls + 1
      /\ s.kind # "health" => ~s.health.poisoned
  BY Zenon DEF Live
<1>7. CASE LoopFailed(t, n, l)
  <2>1. Produce(s, n, additional, vs, from) = l
    BY <1>1, <1>2, <1>7, Zenon DEF Produce, LoopFailed
  <2>2. /\ IsGenerator(l.s) /\ SameCounts(t, l.s) /\ l.s.chain = <<>>
        /\ t.kind = "health" /\ l.s.health.poisoned
        /\ Grown(t.chain, l.blocks)
        /\ l.written \in Nat /\ l.written < n /\ l.code # "Ok" /\ l.code # "panic"
    BY <1>7, Zenon DEF LoopFailed
  <2>3. l.s.kind = "health" /\ s.kind = "health" /\ l.s.calls = s.calls
        /\ l.s.reseed_counter = s.reseed_counter
    BY <1>1, <2>2, Zenon DEF SameCounts
  <2>4. Chain(l.s.chain) /\ Len(l.s.chain) = 0
    BY <2>2, ChainEmpty, Zenon
  <2>5. Live(l.s)
    BY <1>6, <2>2, <2>3, <2>4, Zenon DEF Live
  <2>6. l.s.kind = s.kind
    BY <2>3, Zenon
  <2>7. Progress(s, l)
    BY <1>1, <1>3, <2>2, <2>4, <2>5, <2>6, GrownProgress, Zenon
  <2>8. Answered(n, l)
    BY <2>2, Zenon DEF Answered
  <2> QED
    BY <2>1, <2>3, <2>7, <2>8, Zenon
<1>8. CASE LoopGoes(t, n, BlockCount(n), l) /\ l.written = n /\ BlockCount(n) \in Nat
  <2>1. /\ IsResult(l) /\ l.code = "Ok" /\ IsGenerator(l.s) /\ SameCounts(t, l.s)
        /\ t.kind # "health" => l.s.health = t.health
        /\ Chain(l.s.chain) /\ Len(l.s.chain) = Len(t.chain) + BlockCount(n)
        /\ l.s.chain[1] = t.chain[1]
        /\ Grown(t.chain, l.blocks) /\ Len(l.blocks) = BlockCount(n)
    BY <1>8, Zenon DEF LoopGoes
  <2>2. PICK u : u = update(l.s, additional, vs.u)
    OBVIOUS
  <2>3. /\ IsGenerator(u) /\ SameCounts(l.s, u)
        /\ u.chain = Append(l.s.chain, <<"update", additional>>)
        /\ u.health = l.s.health
    <3>1. PICK m : m = l.s /\ IsGenerator(m)
      BY <2>1, Zenon
    <3>2. u = update(m, additional, vs.u)
      BY <2>2, <3>1, Zenon
    <3>3. /\ IsGenerator(u) /\ SameCounts(m, u)
          /\ u.chain = Append(m.chain, <<"update", additional>>)
          /\ u.health = m.health
      <4>1. PICK w : w = vs.u
        OBVIOUS
      <4>2. /\ IsGenerator(update(m, additional, w)) /\ SameCounts(m, update(m, additional, w))
            /\ update(m, additional, w).chain = Append(m.chain, <<"update", additional>>)
            /\ update(m, additional, w).health = m.health
        BY <3>1, UpdateFields
      <4> QED
        BY <3>2, <4>1, <4>2, Zenon
    <3> QED
      BY <3>1, <3>3, Zenon
  <2>4. Len(l.s.chain) >= 1
    BY <1>3, <1>4, <1>8, <2>1
  <2>5. /\ Chain(u.chain) /\ Len(l.s.chain) \in Nat
        /\ Len(u.chain) = Len(l.s.chain) + 1
        /\ u.chain[1] = l.s.chain[1]
    <3>1. PICK c, e : /\ c = l.s.chain /\ e = Append(c, <<"update", additional>>)
                      /\ Chain(e) /\ Len(c) \in Nat /\ Len(e) = Len(c) + 1 /\ e[1] = c[1]
      BY <2>1, <2>4, ChainExtends, ZenonT(60)
    <3>2. u.chain = e
      BY <2>3, <3>1, Zenon
    <3> QED
      BY <3>1, <3>2, Zenon
  <2>6. PICK e : e = Counted(u)
    OBVIOUS
  <2>7. /\ IsGenerator(e) /\ e.kind = u.kind /\ e.chain = u.chain /\ e.health = u.health
        /\ e.reseed_counter = u.reseed_counter + 1 /\ e.calls = u.calls + 1
    BY <2>3, <2>6, SMT DEF IsGenerator, Counted
  <2>8. PICK r : r = [l EXCEPT !.s = e]
    BY Zenon
  <2>9. r.s = e /\ r.code = "Ok" /\ r.blocks = l.blocks /\ r.written = n
    BY <1>8, <2>1, <2>8, SMT DEF IsResult
  <2>10. Produce(s, n, additional, vs, from) = r
    <3>1. OutputLoop(Additionally(s, additional, vs), n, vs, from) = l /\ l.code = "Ok"
      BY <1>1, <1>2, <2>1, Zenon
    <3>2. Produce(s, n, additional, vs, from) =
            [l EXCEPT !.s = Counted(update(l.s, additional, vs.u))]
      BY <3>1, Zenon DEF Produce
    <3> QED
      BY <2>2, <2>6, <2>8, <3>2, Zenon
  <2>11. /\ u.kind = s.kind /\ u.calls = s.calls /\ u.reseed_counter = s.reseed_counter
         /\ s.kind # "health" => u.health = s.health
    BY <1>1, <2>1, <2>3, Zenon DEF SameCounts
  <2>12. /\ e.calls \in Nat /\ e.calls <= RESEED_INTERVAL
         /\ e.reseed_counter = e.calls + 1
    BY <1>6, <2>7, <2>11 DEF Exhausted, DrbgParametersOk
  <2>13. Len(e.chain) # 0 /\ Len(e.chain) = Len(t.chain) + Len(l.blocks) + 1
    BY <1>3, <1>8, <2>1, <2>5, <2>7
  <2>14. Live(e) /\ e.kind = s.kind
    BY <1>6, <2>5, <2>7, <2>11, <2>12, <2>13, Zenon DEF Live
  <2>15. e.chain[1] = t.chain[1]
    BY <2>1, <2>5, <2>7, Zenon
  <2>16. Progress(s, r)
    BY <1>1, <1>3, <2>1, <2>9, <2>13, <2>14, <2>15, GrownProgress, Zenon
  <2>17. Answered(n, r)
    BY <2>9 DEF Answered
  <2> QED
    BY <2>9, <2>10, <2>16, <2>17, Zenon
<1> QED
  BY <1>5, <1>7, <1>8, Zenon

-----------------------------------------------------------------------------
(* HMAC-DRBG: generate and its callers. *)

(* A generate call is refused, and changes nothing, or goes to its loop.   *)
LEMMA GenerateCases ==
    ASSUME DrbgParametersOk, NEW s, Live(s), NEW n \in Nat, NEW additional, NEW vs, NEW from
    PROVE  \/ /\ generate(s, n, additional, vs, from) = Produce(s, n, additional, vs, from)
              /\ ~s.health.poisoned /\ ~Exhausted(s)
           \/ \E code : /\ generate(s, n, additional, vs, from) = Result(s, code, <<>>, 0)
                        /\ code # "Ok" /\ code # "panic"
                        /\ \/ s.health.poisoned \/ Exhausted(s)
                           \/ ~(n <= MAX_GENERATE_BYTES) \/ additional = TooLong
<1>1. CASE s.kind = "health" /\ s.health.poisoned
  <2>1. generate(s, n, additional, vs, from) = Result(s, "HealthCheckFailed", <<>>, 0)
    BY <1>1 DEF generate
  <2>2. "HealthCheckFailed" # "Ok" /\ "HealthCheckFailed" # "panic"
    OBVIOUS
  <2> QED
    BY <1>1, <2>1, <2>2, Zenon
<1>2. CASE ~s.health.poisoned /\ Exhausted(s)
  <2>1. generate(s, n, additional, vs, from) = Result(s, "ReseedRequired", <<>>, 0)
    BY <1>2 DEF generate
  <2>2. "ReseedRequired" # "Ok" /\ "ReseedRequired" # "panic"
    OBVIOUS
  <2> QED
    BY <1>2, <2>1, <2>2, Zenon
<1>3. CASE ~s.health.poisoned /\ ~Exhausted(s) /\ s.kind \in Rust /\ n > MAX_GENERATE_BYTES
           /\ ~(n <= MAX_GENERATE_BYTES)
  <2>1. generate(s, n, additional, vs, from) = Result(s, "OutputTooLarge", <<>>, 0)
    BY <1>3 DEF generate
  <2>2. "OutputTooLarge" # "Ok" /\ "OutputTooLarge" # "panic"
    OBVIOUS
  <2> QED
    BY <1>3, <2>1, <2>2, Zenon
<1>4. CASE ~s.health.poisoned /\ ~Exhausted(s) /\ (s.kind \in Rust => n <= MAX_GENERATE_BYTES)
           /\ ~(s.kind \in Rust /\ n > MAX_GENERATE_BYTES)
  <2>1. CASE additional = TooLong
    <3>1. generate(s, n, additional, vs, from) = Result(s, "InputTooLarge", <<>>, 0)
      BY <1>4, <2>1 DEF generate
    <3>2. "InputTooLarge" # "Ok" /\ "InputTooLarge" # "panic"
      OBVIOUS
    <3> QED
      BY <2>1, <3>1, <3>2, Zenon
  <2>2. CASE additional # TooLong
    <3>1. generate(s, n, additional, vs, from) = Produce(s, n, additional, vs, from)
      BY <1>4, <2>2 DEF generate
    <3> QED
      BY <1>4, <3>1, Zenon
  <2> QED
    BY <2>1, <2>2, Zenon
<1>5. n > MAX_GENERATE_BYTES <=> ~(n <= MAX_GENERATE_BYTES)
  BY DEF DrbgParametersOk
<1>6. s.kind # "health" => ~s.health.poisoned
  BY Zenon DEF Live
<1> QED
  BY <1>1, <1>2, <1>3, <1>4, <1>5, <1>6, Zenon

(* What a generate call does. *)
LEMMA GenerateProgress ==
    ASSUME DrbgParametersOk, NEW s, Live(s), NEW n \in Nat,
           NEW additional, NEW vs, NEW from
    PROVE  /\ Progress(s, generate(s, n, additional, vs, from))
           /\ Answered(n, generate(s, n, additional, vs, from))
<1>1. s.kind # "health" => ~s.health.poisoned
  BY Zenon DEF Live
<1>2. CASE /\ generate(s, n, additional, vs, from) = Produce(s, n, additional, vs, from)
           /\ ~s.health.poisoned /\ ~Exhausted(s)
  <2>1. Len(s.chain) # 0 /\ Chain(s.chain)
    BY <1>2, Zenon DEF Live
  <2>2. Len(s.chain) >= 1
    BY <2>1, ChainLen
  <2> QED
    BY <1>2, <2>2, ProduceProgress, Zenon
<1>3. CASE \E code : /\ generate(s, n, additional, vs, from) = Result(s, code, <<>>, 0)
                     /\ code # "Ok" /\ code # "panic"
  BY <1>3, StayProgress, Zenon
<1>4. \/ /\ generate(s, n, additional, vs, from) = Produce(s, n, additional, vs, from)
         /\ ~s.health.poisoned /\ ~Exhausted(s)
      \/ \E code : /\ generate(s, n, additional, vs, from) = Result(s, code, <<>>, 0)
                   /\ code # "Ok" /\ code # "panic"
  <2>1. \/ /\ generate(s, n, additional, vs, from) = Produce(s, n, additional, vs, from)
           /\ ~s.health.poisoned /\ ~Exhausted(s)
        \/ \E code : /\ generate(s, n, additional, vs, from) = Result(s, code, <<>>, 0)
                     /\ code # "Ok" /\ code # "panic"
                     /\ \/ s.health.poisoned \/ Exhausted(s)
                        \/ ~(n <= MAX_GENERATE_BYTES) \/ additional = TooLong
    BY GenerateCases, ZenonT(60)
  <2> QED
    BY <2>1, Zenon
<1> QED
  BY <1>2, <1>3, <1>4, Zenon

(* A generator that is seeded again. *)
LEMMA SeededLater ==
    ASSUME DrbgParametersOk, NEW s, Live(s), ~s.health.poisoned, NEW material, NEW v
    PROVE  /\ Live(Seeded(s, material, v)) /\ Later(s, Seeded(s, material, v))
           /\ ~Seeded(s, material, v).health.poisoned
           /\ ~Exhausted(Seeded(s, material, v))
           /\ Chain(s.chain)
           /\ Len(Seeded(s, material, v).chain) = Len(s.chain) + 1
<1>1. IsGenerator(s) /\ Chain(s.chain) /\ Len(s.chain) # 0
  BY Zenon DEF Live
<1>2. Len(s.chain) >= 1 /\ Len(s.chain) \in Nat
  BY <1>1, ChainLen
<1>t. PICK t : t = Seeded(s, material, v)
  OBVIOUS
<1>3. /\ t = Seeded(s, material, v)
      /\ IsGenerator(t) /\ t.kind = s.kind
      /\ t.reseed_counter = 1 /\ t.calls = 0
      /\ t.chain = Append(s.chain, <<"update", material>>)
      /\ t.health.poisoned = s.health.poisoned
  <2>1. /\ IsGenerator(Seeded(s, material, v))
        /\ Seeded(s, material, v).kind = s.kind
        /\ Seeded(s, material, v).reseed_counter = 1
        /\ Seeded(s, material, v).calls = 0
        /\ Seeded(s, material, v).chain = Append(s.chain, <<"update", material>>)
        /\ Seeded(s, material, v).health.poisoned = s.health.poisoned
    BY <1>1, SeededFields
  <2> QED
    BY <1>t, <2>1, Zenon
<1>4. Chain(t.chain) /\ Len(t.chain) = Len(s.chain) + 1 /\ t.chain[1] = s.chain[1]
  <2>1. PICK c, e : c = s.chain /\ e = Append(c, <<"update", material>>)
    BY Zenon
  <2>2. Chain(e) /\ Len(e) = Len(c) + 1 /\ e[1] = c[1]
    BY <1>1, <1>2, <2>1, ChainExtends, Zenon
  <2> QED
    BY <1>3, <2>1, <2>2, Zenon
<1>5. Len(t.chain) >= Len(s.chain) /\ Len(t.chain) # 0
  BY <1>2, <1>4
<1>6. /\ t.calls \in Nat /\ t.calls <= RESEED_INTERVAL
      /\ t.reseed_counter = t.calls + 1 /\ ~(t.reseed_counter > RESEED_INTERVAL)
  BY <1>3 DEF DrbgParametersOk
<1>7. Live(t)
  BY <1>3, <1>4, <1>5, <1>6, Zenon DEF Live
<1>8. Later(s, t)
  BY <1>2, <1>3, <1>4, <1>5, Zenon DEF Later
<1> QED
  BY <1>1, <1>3, <1>4, <1>6, <1>7, <1>8, Zenon DEF Exhausted

(* The auto-reseeding generator never meets a refusal. *)
LEMMA SafeProgress ==
    ASSUME DrbgParametersOk, NEW s, Live(s), s.kind # "health",
           NEW n \in Nat, n <= MAX_GENERATE_BYTES, NEW seed, NEW vs, NEW from
    PROVE  /\ Progress(s, safe_generate_small(s, n, seed, vs, from))
           /\ Answered(n, safe_generate_small(s, n, seed, vs, from))
<1>1. ~s.health.poisoned /\ Chain(s.chain) /\ Len(s.chain) # 0
  BY Zenon DEF Live
<1>2. Len(s.chain) >= 1 /\ Len(s.chain) \in Nat
  BY <1>1, ChainLen
<1>3. PICK t : t = IF needs_reseed(s) THEN Seeded(s, <<seed, Empty>>, ZeroBlock) ELSE s
  OBVIOUS
<1>4. /\ Live(t) /\ Later(s, t) /\ ~t.health.poisoned /\ ~Exhausted(t)
  <2>1. CASE needs_reseed(s)
    BY <1>1, <1>3, <2>1, SeededLater, Zenon
  <2>2. CASE ~needs_reseed(s)
    <3>1. Later(s, s)
      BY <1>2 DEF Later
    <3> QED
      BY <1>1, <1>3, <2>2, <3>1, Zenon DEF needs_reseed, Exhausted
  <2> QED
    BY <2>1, <2>2, Zenon
<1>5. t.kind = s.kind /\ Chain(t.chain) /\ Len(t.chain) >= 1
  <2>1. Chain(t.chain) /\ Len(t.chain) # 0
    BY <1>4, Zenon DEF Live
  <2>2. Len(t.chain) >= 1
    BY <2>1, ChainLen
  <2> QED
    BY <1>4, <2>1, <2>2, Zenon DEF Later
<1>6. PICK r : r = generate(t, n, Empty, vs, from)
  OBVIOUS
<1>7. r = Produce(t, n, Empty, vs, from)
  <2>1. Empty # TooLong
    BY DEF DrbgParametersOk
  <2> QED
    BY <1>4, <1>6, <2>1, GenerateCases, Zenon
<1>8. Progress(t, r) /\ Answered(n, r) /\ r.code = "Ok"
  BY <1>4, <1>5, <1>7, ProduceProgress, Zenon
<1>9. safe_generate_small(s, n, seed, vs, from) = r
  BY <1>3, <1>6, <1>8, Zenon DEF safe_generate_small
<1>10. Progress(s, r)
  BY <1>1, <1>4, <1>5, <1>8, EarlierProgress, Zenon
<1> QED
  BY <1>8, <1>9, <1>10, Zenon

-----------------------------------------------------------------------------
(* A chunk is not empty, not too long and takes up where the last ended.   *)
LEMMA ChunkLenBounds ==
    ASSUME DrbgParametersOk, NEW n \in Nat, NEW i \in 1..ChunkCount(n)
    PROVE  /\ i \in Nat /\ i - 1 \in Nat
           /\ ChunkLen(n, i) \in Nat /\ ChunkLen(n, i) > 0
           /\ ChunkLen(n, i) <= MAX_GENERATE_BYTES
           /\ Covered(i - 1, MAX_GENERATE_BYTES, n) \in Nat
           /\ Covered(i - 1, MAX_GENERATE_BYTES, n) + ChunkLen(n, i) <= n
           /\ Covered(i - 1, MAX_GENERATE_BYTES, n) + ChunkLen(n, i) =
                Covered(i, MAX_GENERATE_BYTES, n)
<1>1. PICK l \in Nat \ {0} : l = MAX_GENERATE_BYTES
  BY DEF DrbgParametersOk
<1>2. PICK p \in Nat : /\ p = (i - 1) * l /\ i - 1 \in Nat /\ i \in Nat
                       /\ p < n /\ i * l = p + l
  BY <1>1, PieceBounds DEF ChunkCount
<1>3. Covered(i - 1, l, n) = p
  BY <1>2 DEF Covered
<1>4. Covered(i, l, n) = IF p + l <= n THEN p + l ELSE n
  BY <1>2, Zenon DEF Covered
<1>5. ChunkLen(n, i) = IF p + l <= n THEN l ELSE n % l
  BY <1>1, <1>2, Zenon DEF ChunkLen
<1>6. ASSUME n < p + l
      PROVE  n % l = n - p
  <2>1. PICK q \in Int, e \in Int : n = q * l + e /\ 0 <= e /\ e < l /\ e = n % l
    <3>1. PICK q \in Int : q = n \div l
      BY SMT
    <3>2. n = q * l + (n % l) /\ 0 <= n % l /\ n % l < l /\ n % l \in Int
      BY <3>1, SMT
    <3> QED
      BY <3>2, Zenon
  <2>2. PICK j \in Int : j = i - 1 /\ p = j * l
    BY <1>2
  <2>3. ~(q + 1 <= j)
    <3> SUFFICES ASSUME q + 1 <= j
                 PROVE  FALSE
      OBVIOUS
    <3>1. (q + 1) * l <= j * l
      BY MultiplyOrder
    <3>2. (q + 1) * l = q * l + l /\ q * l \in Int
      BY SMT
    <3> QED
      BY <1>2, <2>1, <2>2, <3>1, <3>2
  <2>4. ~(j + 1 <= q)
    <3> SUFFICES ASSUME j + 1 <= q
                 PROVE  FALSE
      OBVIOUS
    <3>1. (j + 1) * l <= q * l
      BY MultiplyOrder
    <3>2. (j + 1) * l = j * l + l /\ q * l \in Int
      BY SMT
    <3> QED
      BY <1>2, <1>6, <2>1, <2>2, <3>1, <3>2
  <2>5. q = j
    BY <2>3, <2>4
  <2>6. n = p + e
    BY <2>1, <2>2, <2>5
  <2> QED
    BY <2>1, <2>6
<1>7. PICK c \in Nat : /\ c = ChunkLen(n, i) /\ c > 0 /\ c <= l /\ p + c <= n
                       /\ p + c = IF p + l <= n THEN p + l ELSE n
  <2>1. CASE p + l <= n
    BY <1>5, <2>1
  <2>2. CASE ~(p + l <= n)
    <3>1. ChunkLen(n, i) = n - p /\ n < p + l
      BY <1>5, <1>6, <2>2
    <3> QED
      BY <1>2, <2>2, <3>1
  <2> QED
    BY <2>1, <2>2
<1> QED
  BY <1>1, <1>2, <1>3, <1>4, <1>7

(* A chunk of a fill. *)
LEMMA ChunkProgress ==
    ASSUME DrbgParametersOk, NEW s, Live(s), NEW n \in Nat, NEW i \in 1..ChunkCount(n),
           NEW seed, NEW vs
    PROVE  /\ Progress(s, Chunk(s, n, i, seed, vs))
           /\ Answered(ChunkLen(n, i), Chunk(s, n, i, seed, vs))
<1>1. ChunkLen(n, i) \in Nat /\ ChunkLen(n, i) <= MAX_GENERATE_BYTES
  BY ChunkLenBounds, Zenon
<1>2. PICK m \in Nat : m = ChunkLen(n, i) /\ m <= MAX_GENERATE_BYTES
  BY <1>1, Zenon
<1>3. PICK from : from = (i - 1) * BlockCount(MAX_GENERATE_BYTES)
  OBVIOUS
<1>4. CASE s.kind = "rng"
  <2>1. Chunk(s, n, i, seed, vs) = safe_generate_small(s, m, <<seed, i>>, vs, from)
    BY <1>2, <1>3, <1>4, Zenon DEF Chunk
  <2>2. s.kind # "health"
    BY <1>4
  <2> QED
    BY <1>2, <2>1, <2>2, SafeProgress, Zenon
<1>5. CASE s.kind # "rng"
  <2>1. Chunk(s, n, i, seed, vs) = generate(s, m, Empty, vs, from)
    BY <1>2, <1>3, <1>5, Zenon DEF Chunk
  <2> QED
    BY <1>2, <2>1, GenerateProgress, Zenon
<1> QED
  BY <1>4, <1>5, Zenon

(* Two calls, one after the other. *)
LEMMA FollowedProgress ==
    ASSUME NEW s, Chain(s.chain), NEW r, Progress(s, r), NEW q, Progress(r.s, q)
    PROVE  Progress(s, Followed(r, q))
<1>o. PICK o : o = Followed(r, q)
  OBVIOUS
<1>1. o = Followed(r, q) /\ o.s = q.s /\ o.blocks = r.blocks \o q.blocks
  BY <1>o, Zenon DEF Followed, Result
<1>2. /\ Chain(r.s.chain) /\ Chain(q.s.chain) /\ Chain(r.blocks) /\ Chain(q.blocks)
      /\ Live(q.s) /\ q.s.kind = s.kind
  BY Zenon DEF Progress, Live
<1>3. PICK a \in Nat, b \in Nat : a = Len(r.blocks) /\ b = Len(q.blocks)
  BY <1>2, ChainLen, Zenon
<1>4. PICK x \in Nat, y \in Nat, z \in Nat :
         x = Len(s.chain) /\ y = Len(r.s.chain) /\ z = Len(q.s.chain)
  BY <1>2, ChainLen, Zenon
<1>5. /\ Chain(o.blocks) /\ Len(o.blocks) = a + b
      /\ \A i \in 1..(a + b) : o.blocks[i] = IF i <= a THEN r.blocks[i] ELSE q.blocks[i - a]
  <2>1. PICK c, e, g : c = r.blocks /\ e = q.blocks /\ g = c \o e
    BY Zenon
  <2>2. /\ Chain(g) /\ Len(g) = Len(c) + Len(e)
        /\ \A i \in 1..(Len(c) + Len(e)) : g[i] = IF i <= Len(c) THEN c[i] ELSE e[i - Len(c)]
    BY <1>2, <2>1, ChainConcat, ZenonT(60)
  <2>3. o.blocks = g /\ Len(c) = a /\ Len(e) = b
    BY <1>1, <1>3, <2>1, Zenon
  <2> QED
    BY <2>1, <2>2, <2>3, Zenon
<1>6. \A i \in 1..a : /\ Chain(r.blocks[i]) /\ Len(r.blocks[i]) \in Nat
                      /\ x < Len(r.blocks[i])
                      /\ r.blocks[i][1] = s.chain[1]
                      /\ y = 0 \/ Len(r.blocks[i]) < y
  BY <1>3, <1>4, ChainLen, Zenon DEF Progress
<1>7. \A i \in 1..b : /\ Chain(q.blocks[i]) /\ Len(q.blocks[i]) \in Nat
                      /\ y < Len(q.blocks[i])
                      /\ q.blocks[i][1] = r.s.chain[1]
                      /\ z = 0 \/ Len(q.blocks[i]) < z
  BY <1>3, <1>4, ChainLen, Zenon DEF Progress
<1>8. /\ x = 0 => a = 0 /\ y = 0
      /\ y = 0 => b = 0 /\ z = 0
      /\ y = 0 \/ (y >= x /\ r.s.chain[1] = s.chain[1] /\ x >= 1)
      /\ z = 0 \/ (z >= y /\ q.s.chain[1] = r.s.chain[1] /\ y >= 1)
  BY <1>3, <1>4, Zenon DEF Progress, Later
<1>9. ASSUME NEW i \in 1..(a + b)
      PROVE  /\ Chain(o.blocks[i]) /\ x < Len(o.blocks[i])
             /\ o.blocks[i][1] = s.chain[1]
             /\ z = 0 \/ Len(o.blocks[i]) < z
  <2>1. CASE i <= a
    <3>1. i \in 1..a /\ o.blocks[i] = r.blocks[i]
      BY <1>5, <2>1
    <3>2. z = 0 \/ Len(r.blocks[i]) < z
      BY <1>6, <1>8, <3>1
    <3>3. /\ Chain(r.blocks[i]) /\ x < Len(r.blocks[i])
          /\ r.blocks[i][1] = s.chain[1]
      BY <1>6, <3>1, Zenon
    <3> QED
      BY <3>1, <3>2, <3>3, Zenon
  <2>2. CASE ~(i <= a)
    <3>0. PICK k \in 1..b : k = i - a
      BY <2>2
    <3>1. k = i - a /\ o.blocks[i] = q.blocks[k]
      BY <1>5, <2>2, <3>0
    <3>2. y # 0
      BY <1>8, <3>1
    <3>3. x < Len(q.blocks[k])
      BY <1>7, <1>8, <3>2
    <3>4. /\ Chain(q.blocks[k]) /\ q.blocks[k][1] = r.s.chain[1]
          /\ z = 0 \/ Len(q.blocks[k]) < z
      BY <1>7, Zenon
    <3>5. r.s.chain[1] = s.chain[1]
      BY <1>8, <3>2, Zenon
    <3> QED
      BY <3>1, <3>3, <3>4, <3>5, Zenon
  <2> QED
    BY <2>1, <2>2, Zenon
<1>10. ASSUME NEW i \in 1..(a + b), NEW j \in 1..(a + b), i < j
       PROVE  Len(o.blocks[i]) < Len(o.blocks[j])
  <2>1. CASE j <= a
    <3>1. i \in 1..a /\ j \in 1..a /\ o.blocks[i] = r.blocks[i] /\ o.blocks[j] = r.blocks[j]
      BY <1>5, <1>10, <2>1
    <3> QED
      BY <1>3, <1>10, <3>1, Zenon DEF Progress
  <2>2. CASE ~(i <= a)
    <3>1. PICK k \in 1..b, h \in 1..b : /\ k = i - a /\ o.blocks[i] = q.blocks[k]
                                        /\ h = j - a /\ o.blocks[j] = q.blocks[h]
                                        /\ k < h
      <4>1. /\ i - a \in 1..b /\ j - a \in 1..b /\ i - a < j - a /\ ~(j <= a)
        BY <1>10, <2>2
      <4> QED
        BY <1>5, <2>2, <4>1, Zenon
    <3> QED
      BY <1>3, <3>1, Zenon DEF Progress
  <2>3. CASE i <= a /\ ~(j <= a)
    <3>1. PICK h \in 1..b : /\ h = j - a /\ o.blocks[j] = q.blocks[h]
                            /\ i \in 1..a /\ o.blocks[i] = r.blocks[i]
      BY <1>5, <2>3
    <3>2. y # 0
      BY <1>8, <3>1
    <3> QED
      BY <1>6, <1>7, <3>1, <3>2
  <2> QED
    BY <2>1, <2>2, <2>3, Zenon
<1>11. z = 0 \/ Later(s, q.s)
  <2>1. CASE z # 0
    <3>1. /\ z >= x /\ q.s.chain[1] = s.chain[1] /\ x >= 1
      BY <1>8, <2>1
    <3> QED
      BY <1>2, <1>4, <3>1, Zenon DEF Later
  <2> QED
    BY <2>1, Zenon
<1>12. x = 0 => a + b = 0 /\ z = 0
  BY <1>8
<1>13. Progress(s, o)
  BY <1>1, <1>2, <1>4, <1>5, <1>9, <1>10, <1>11, <1>12, Zenon DEF Progress
<1> QED
  BY <1>1, <1>13, Zenon

-----------------------------------------------------------------------------
(* HMAC-DRBG: fill_bytes, chunk by chunk. *)

(* One more chunk. *)
Filled(r, n, i, seed, vs) ==
    IF r.code # "Ok" THEN r ELSE Followed(r, Chunk(r.s, n, i, seed, vs))

(* The results after each of the first m chunks. *)
FillSteps(s, n, seed, vs, m, f) ==
    /\ DOMAIN f = 0..m
    /\ f[0] = Result(s, "Ok", <<>>, 0)
    /\ \A i \in 1..m : f[i] = Filled(f[i - 1], n, i, seed, vs)

(* There are such results. *)
LEMMA FillStepsExist ==
    ASSUME NEW s, NEW n, NEW seed, NEW vs
    PROVE  \A m \in Nat : \E f : FillSteps(s, n, seed, vs, m, f)
<1> DEFINE S == {m \in Nat : \E f : FillSteps(s, n, seed, vs, m, f)}
<1>1. 0 \in S
  <2>1. PICK e : e = Result(s, "Ok", <<>>, 0)
    OBVIOUS
  <2>2. PICK f : f = [i \in 0..0 |-> e]
    BY Zenon
  <2>3. DOMAIN f = 0..0 /\ f[0] = e /\ 1..0 = {}
    BY <2>2
  <2>4. FillSteps(s, n, seed, vs, 0, f)
    BY <2>1, <2>3, Zenon DEF FillSteps
  <2> QED
    BY <2>4, Zenon
<1>2. ASSUME NEW m \in Nat, m \in S
      PROVE  m + 1 \in S
  <2>1. PICK f : FillSteps(s, n, seed, vs, m, f)
    BY <1>2, Zenon
  <2>2. PICK e : e = Filled(f[m], n, m + 1, seed, vs)
    OBVIOUS
  <2>3. PICK g : g = [i \in 0..(m + 1) |-> IF i = m + 1 THEN e ELSE f[i]]
    BY Zenon
  <2>4. DOMAIN g = 0..(m + 1) /\ g[0] = f[0]
    BY <2>3
  <2>5. ASSUME NEW i \in 1..(m + 1)
        PROVE  g[i] = Filled(g[i - 1], n, i, seed, vs)
    <3>1. CASE i = m + 1
      <4>1. g[i] = e /\ g[i - 1] = f[m]
        BY <2>3, <3>1
      <4> QED
        BY <2>2, <3>1, <4>1, Zenon
    <3>2. CASE i # m + 1
      <4>1. i \in 1..m /\ g[i] = f[i] /\ g[i - 1] = f[i - 1]
        BY <2>3, <3>2
      <4> QED
        BY <2>1, <4>1, Zenon DEF FillSteps
    <3> QED
      BY <3>1, <3>2, Zenon
  <2>6. FillSteps(s, n, seed, vs, m + 1, g)
    BY <2>1, <2>4, <2>5, Zenon DEF FillSteps
  <2>7. m + 1 \in Nat
    OBVIOUS
  <2> QED
    BY <2>6, <2>7, Zenon
<1> HIDE DEF S
<1>3. \A m \in Nat : m \in S
  BY <1>1, <1>2, SetInduction
<1> QED
  BY <1>3, Zenon DEF S

(* A fill ends with the last of them. *)
LEMMA FillSteps_Fill ==
    ASSUME NEW s, NEW n, NEW seed, NEW vs, ChunkCount(n) \in Nat
    PROVE  \E f : /\ FillSteps(s, n, seed, vs, ChunkCount(n), f)
                  /\ fill(s, n, seed, vs) = f[ChunkCount(n)]
<1> DEFINE m == ChunkCount(n)
           F(f) == [i \in 0..m |->
                      IF i = 0 THEN Result(s, "Ok", <<>>, 0)
                      ELSE IF f[i - 1].code # "Ok" THEN f[i - 1]
                      ELSE Followed(f[i - 1], Chunk(f[i - 1].s, n, i, seed, vs))]
           upto == CHOOSE f : f = F(f)
<1>0. m \in Nat
  OBVIOUS
<1>1. fill(s, n, seed, vs) = upto[m]
  BY DEF fill
<1> HIDE DEF m
<1>2. PICK g : FillSteps(s, n, seed, vs, m, g) /\ g = [i \in 0..m |-> g[i]]
  <2>1. PICK f : FillSteps(s, n, seed, vs, m, f)
    BY <1>0, FillStepsExist, Zenon
  <2>2. PICK g : g = [i \in 0..m |-> f[i]]
    BY Zenon
  <2>3. /\ DOMAIN g = 0..m
        /\ \A i \in 0..m : g[i] = f[i]
        /\ g = [i \in 0..m |-> g[i]]
    BY <2>2
  <2>4. 0 \in 0..m /\ \A i \in 1..m : i \in 0..m /\ i - 1 \in 0..m
    BY <1>0
  <2>5. FillSteps(s, n, seed, vs, m, g)
    BY <2>1, <2>3, <2>4, Zenon DEF FillSteps
  <2> QED
    BY <2>3, <2>5, Zenon
<1>3. g = F(g)
  <2>1. ASSUME NEW i \in 0..m
        PROVE  g[i] = IF i = 0 THEN Result(s, "Ok", <<>>, 0)
                      ELSE IF g[i - 1].code # "Ok" THEN g[i - 1]
                      ELSE Followed(g[i - 1], Chunk(g[i - 1].s, n, i, seed, vs))
    <3>1. i = 0 \/ (i \in 1..m /\ i # 0)
      BY <1>0
    <3> QED
      BY <1>2, <3>1, Zenon DEF FillSteps, Filled
  <2>2. [i \in 0..m |-> g[i]] = F(g)
    BY <2>1, Zenon
  <2> QED
    BY <1>2, <2>2, Zenon
<1>4. upto = F(upto)
  <2> HIDE DEF F
  <2> QED
    BY <1>3, Zenon
<1>5. PICK f : f = upto
  OBVIOUS
<1> HIDE DEF upto
<1>6. f = F(f)
  <2> HIDE DEF F
  <2> QED
    BY <1>4, <1>5, Zenon
<1>7. DOMAIN f = 0..m
  BY <1>6
<1>8. ASSUME NEW i \in 0..m
      PROVE  f[i] = IF i = 0 THEN Result(s, "Ok", <<>>, 0)
                    ELSE IF f[i - 1].code # "Ok" THEN f[i - 1]
                    ELSE Followed(f[i - 1], Chunk(f[i - 1].s, n, i, seed, vs))
  BY <1>6, Zenon
<1>9. 0 \in 0..m /\ \A i \in 1..m : i \in 0..m /\ i # 0
  BY <1>0
<1>10. FillSteps(s, n, seed, vs, m, f)
  BY <1>7, <1>8, <1>9, Zenon DEF FillSteps, Filled
<1> QED
  BY <1>1, <1>5, <1>10, Zenon DEF m

(* A fill after i chunks, if all went well. *)
FillGoes(s, n, i, r) ==
    r.code = "Ok" /\ Progress(s, r) /\ r.written = Covered(i, MAX_GENERATE_BYTES, n)

(* A fill of which a chunk failed. *)
FillFailed(s, n, r) ==
    /\ r.code # "Ok" /\ r.code # "panic" /\ Progress(s, r)
    /\ r.written \in Nat /\ r.written < n

(* One more chunk of a fill. *)
LEMMA FillTurn ==
    ASSUME DrbgParametersOk, NEW s, Live(s), NEW n \in Nat, NEW i \in 1..ChunkCount(n),
           NEW r, FillGoes(s, n, i - 1, r), NEW seed, NEW vs
    PROVE  \/ FillGoes(s, n, i, Followed(r, Chunk(r.s, n, i, seed, vs)))
           \/ FillFailed(s, n, Followed(r, Chunk(r.s, n, i, seed, vs)))
<1>1. PICK m \in Nat, w \in Nat :
         /\ m = ChunkLen(n, i) /\ m > 0
         /\ w = Covered(i - 1, MAX_GENERATE_BYTES, n)
         /\ w + m <= n /\ w + m = Covered(i, MAX_GENERATE_BYTES, n)
  BY ChunkLenBounds, Zenon
<1>2. Progress(s, r) /\ r.written = w /\ Live(r.s) /\ Chain(s.chain)
  BY <1>1, Zenon DEF FillGoes, Progress, Live
<1>q. PICK q : q = Chunk(r.s, n, i, seed, vs)
  OBVIOUS
<1>3. q = Chunk(r.s, n, i, seed, vs) /\ Progress(r.s, q) /\ Answered(m, q)
  <2>1. PICK t : t = r.s /\ Live(t)
    BY <1>2, Zenon
  <2>2. Progress(t, Chunk(t, n, i, seed, vs)) /\ Answered(ChunkLen(n, i), Chunk(t, n, i, seed, vs))
    BY <2>1, ChunkProgress, Zenon
  <2> QED
    BY <1>1, <1>q, <2>1, <2>2, Zenon
<1>o. PICK o : o = Followed(r, q)
  OBVIOUS
<1>4. o = Followed(r, q) /\ o.code = q.code /\ o.written = r.written + q.written
  BY <1>o DEF Followed, Result
<1>5. Progress(s, o)
  BY <1>2, <1>3, <1>4, FollowedProgress, Zenon
<1>6. CASE q.code = "Ok"
  <2>1. q.written = m
    BY <1>3, <1>6, Zenon DEF Answered
  <2>2. FillGoes(s, n, i, o)
    BY <1>1, <1>2, <1>4, <1>5, <1>6, <2>1, Zenon DEF FillGoes
  <2> QED
    BY <1>3, <1>4, <2>2, Zenon
<1>7. CASE q.code # "Ok"
  <2>1. q.written \in Nat /\ q.written < m /\ q.code # "panic"
    BY <1>1, <1>3, <1>7, Zenon DEF Answered
  <2>2. o.written \in Nat /\ o.written < n
    BY <1>1, <1>2, <1>4, <2>1
  <2>3. FillFailed(s, n, o)
    BY <1>4, <1>5, <1>7, <2>1, <2>2, Zenon DEF FillFailed
  <2> QED
    BY <1>3, <1>4, <2>3, Zenon
<1> QED
  BY <1>6, <1>7, Zenon

(* What a fill does. *)
LEMMA FillProgress ==
    ASSUME DrbgParametersOk, NEW s, Live(s), NEW n \in Nat, NEW seed, NEW vs
    PROVE  Progress(s, fill(s, n, seed, vs)) /\ Answered(n, fill(s, n, seed, vs))
<1>1. PICK m \in Nat : /\ m = ChunkCount(n) /\ n <= m * MAX_GENERATE_BYTES
                       /\ MAX_GENERATE_BYTES \in Nat
  BY Pieces, Zenon DEF ChunkCount, DrbgParametersOk
<1>2. PICK f : /\ FillSteps(s, n, seed, vs, m, f)
               /\ fill(s, n, seed, vs) = f[m]
  BY <1>1, FillSteps_Fill, Zenon
<1> DEFINE S == {i \in Nat : i <= m => FillGoes(s, n, i, f[i]) \/ FillFailed(s, n, f[i])}
<1>3. 0 \in S
  <2>e. PICK e : e = Result(s, "Ok", <<>>, 0)
    OBVIOUS
  <2>a. e.code = "Ok" /\ e.written = 0
    BY <2>e, ResultFields
  <2>1. /\ e = Result(s, "Ok", <<>>, 0) /\ e.code = "Ok" /\ e.written = 0
        /\ Progress(s, e)
    BY <2>e, <2>a, StayProgress, Zenon
  <2>2. 0 = Covered(0, MAX_GENERATE_BYTES, n)
    BY <1>1 DEF Covered
  <2>3. FillGoes(s, n, 0, e)
    BY <2>1, <2>2, Zenon DEF FillGoes
  <2>4. f[0] = e
    BY <1>2, <2>1, Zenon DEF FillSteps
  <2>5. 0 \in Nat
    OBVIOUS
  <2> QED
    BY <2>3, <2>4, <2>5, Zenon
<1>4. ASSUME NEW i \in Nat, i \in S
      PROVE  i + 1 \in S
  <2> SUFFICES ASSUME i + 1 <= m
               PROVE  FillGoes(s, n, i + 1, f[i + 1]) \/ FillFailed(s, n, f[i + 1])
    OBVIOUS
  <2>1. PICK k \in 1..ChunkCount(n) : k = i + 1 /\ k - 1 = i /\ k \in 1..m /\ i <= m
    BY <1>1
  <2>2. FillGoes(s, n, i, f[i]) \/ FillFailed(s, n, f[i])
    BY <1>4, <2>1, Zenon
  <2>3. f[k] = Filled(f[i], n, k, seed, vs)
    BY <1>2, <2>1, Zenon DEF FillSteps
  <2>4. CASE FillFailed(s, n, f[i])
    BY <2>1, <2>3, <2>4, Zenon DEF FillFailed, Filled
  <2>5. CASE FillGoes(s, n, i, f[i])
    <3>1. f[k] = Followed(f[i], Chunk(f[i].s, n, k, seed, vs))
      BY <2>3, <2>5, Zenon DEF FillGoes, Filled
    <3>2. FillGoes(s, n, k - 1, f[i])
      BY <2>1, <2>5, Zenon
    <3>3. FillGoes(s, n, k, f[k]) \/ FillFailed(s, n, f[k])
      BY <3>1, <3>2, FillTurn, Zenon
    <3> QED
      BY <2>1, <3>3, Zenon
  <2> QED
    BY <2>2, <2>4, <2>5, Zenon
<1> HIDE DEF S
<1>5. m \in S
  BY <1>1, <1>3, <1>4, SetInduction
<1>6. m <= m
  BY <1>1
<1>7. FillGoes(s, n, m, f[m]) \/ FillFailed(s, n, f[m])
  BY <1>5, <1>6, Zenon DEF S
<1>8. Covered(m, MAX_GENERATE_BYTES, n) = n
  <2>1. m * MAX_GENERATE_BYTES \in Nat
    BY <1>1, SMT
  <2> QED
    BY <1>1, <2>1 DEF Covered
<1>9. CASE FillGoes(s, n, m, f[m])
  BY <1>2, <1>8, <1>9 DEF FillGoes, Answered
<1>10. CASE FillFailed(s, n, f[m])
  BY <1>2, <1>10, Zenon DEF FillFailed, Answered
<1> QED
  BY <1>7, <1>9, <1>10, Zenon

-----------------------------------------------------------------------------
(* HMAC-DRBG: the inductive invariant. *)

(* The first step of the chain of the generator of the k-th seed. *)
Birth(k) == <<"update", <<k, "nonce">>>>

(* The blocks handed out: each of some seed drawn so far, those of one     *)
(* seed in the order of their chains.                                      *)
GivenInOrder ==
    /\ entropy \in Nat
    /\ Chain(given)
    /\ \A i \in 1..Len(given) :
          /\ Chain(given[i]) /\ Len(given[i]) >= 1
          /\ \E k \in 1..entropy : given[i][1] = Birth(k)
    /\ \A i, j \in 1..Len(given) :
          i < j /\ given[i][1] = given[j][1] => Len(given[i]) < Len(given[j])

(* The generator comes after all blocks of its own seed. *)
GeneratorAhead ==
    d # NoGenerator =>
       /\ Live(d)
       /\ Len(d.chain) # 0 =>
             /\ \E k \in 1..entropy : d.chain[1] = Birth(k)
             /\ \A i \in 1..Len(given) :
                   given[i][1] = d.chain[1] => Len(given[i]) < Len(d.chain)

(* The inductive invariant. *)
DrbgInv == GivenInOrder /\ GeneratorAhead /\ FilledOrRefused

(* It holds at the start. *)
LEMMA DrbgStarts == DrbgInit => DrbgInv
<1> SUFFICES ASSUME DrbgInit
             PROVE  DrbgInv
  OBVIOUS
<1>1. d = NoGenerator /\ entropy = 0 /\ given = <<>>
  BY Zenon DEF DrbgInit
<1>2. reply.code = "Ok" /\ reply.written = reply.asked
  BY DEF DrbgInit
<1>3. Chain(given) /\ Len(given) = 0
  BY <1>1, ChainEmpty, Zenon
<1>4. 1..0 = {} /\ 0 \in Nat
  OBVIOUS
<1>5. GivenInOrder
  BY <1>1, <1>3, <1>4, Zenon DEF GivenInOrder
<1>6. FilledOrRefused
  BY <1>2 DEF FilledOrRefused
<1> QED
  BY <1>1, <1>5, <1>6, Zenon DEF DrbgInv, GeneratorAhead

(* A call that hands out blocks. *)
LEMMA HandedOut ==
    ASSUME GivenInOrder, GeneratorAhead, d # NoGenerator,
           NEW r, Progress(d, r), d' = r.s, given' = given \o r.blocks,
           entropy' \in {entropy, entropy + 1}
    PROVE  GivenInOrder' /\ GeneratorAhead'
<1>1. /\ entropy \in Nat /\ Chain(given) /\ Live(d) /\ Chain(d.chain)
      /\ Chain(r.blocks) /\ Live(r.s) /\ Chain(r.s.chain)
  BY Zenon DEF GivenInOrder, GeneratorAhead, Live, Progress
<1>2. PICK a \in Nat, b \in Nat, x \in Nat, z \in Nat :
         a = Len(given) /\ b = Len(r.blocks) /\ x = Len(d.chain) /\ z = Len(r.s.chain)
  BY <1>1, ChainLen, Zenon
<1>3. /\ Chain(given') /\ Len(given') = a + b
      /\ \A i \in 1..(a + b) : given'[i] = IF i <= a THEN given[i] ELSE r.blocks[i - a]
  <2>1. PICK c, e, g : c = given /\ e = r.blocks /\ g = c \o e
    OBVIOUS
  <2>2. /\ Chain(g) /\ Len(g) = Len(c) + Len(e)
        /\ \A i \in 1..(Len(c) + Len(e)) : g[i] = IF i <= Len(c) THEN c[i] ELSE e[i - Len(c)]
    BY <1>1, <2>1, ChainConcat, Zenon
  <2>3. given' = g /\ Len(c) = a /\ Len(e) = b
    BY <1>2, <2>1, Zenon
  <2> QED
    BY <2>1, <2>2, <2>3, ZenonT(60)
<1>4. /\ \A i \in 1..a : /\ Chain(given[i]) /\ Len(given[i]) \in Nat /\ Len(given[i]) >= 1
                         /\ \E k \in 1..entropy : given[i][1] = Birth(k)
      /\ \A i, j \in 1..a :
            i < j /\ given[i][1] = given[j][1] => Len(given[i]) < Len(given[j])
      /\ x # 0 => /\ \E k \in 1..entropy : d.chain[1] = Birth(k)
                  /\ \A i \in 1..a : given[i][1] = d.chain[1] => Len(given[i]) < x
  BY <1>2, ChainLen, Zenon DEF GivenInOrder, GeneratorAhead
<1>5. /\ \A i \in 1..b : /\ Chain(r.blocks[i]) /\ Len(r.blocks[i]) \in Nat
                         /\ x < Len(r.blocks[i])
                         /\ r.blocks[i][1] = d.chain[1]
                         /\ z = 0 \/ Len(r.blocks[i]) < z
      /\ \A i, j \in 1..b : i < j => Len(r.blocks[i]) < Len(r.blocks[j])
      /\ x = 0 => b = 0 /\ z = 0
      /\ z = 0 \/ (z >= x /\ r.s.chain[1] = d.chain[1])
  BY <1>2, ChainLen, Zenon DEF Progress, Later
<1>6. entropy' \in Nat /\ \A k \in 1..entropy : k \in 1..entropy'
  BY <1>1
<1>7. ASSUME NEW i \in 1..(a + b)
      PROVE  /\ Chain(given'[i]) /\ Len(given'[i]) >= 1
             /\ \E k \in 1..entropy' : given'[i][1] = Birth(k)
             /\ z # 0 /\ given'[i][1] = r.s.chain[1] => Len(given'[i]) < z
  <2>1. CASE i <= a
    <3>1. i \in 1..a /\ given'[i] = given[i]
      BY <1>3, <2>1
    <3>2. z # 0 /\ given[i][1] = r.s.chain[1] => Len(given[i]) < z
      BY <1>4, <1>5, <3>1
    <3> QED
      BY <1>4, <1>6, <3>1, <3>2, ZenonT(60)
  <2>2. CASE ~(i <= a)
    <3>1. PICK k \in 1..b : k = i - a /\ given'[i] = r.blocks[k] /\ b # 0
      <4>1. i - a \in 1..b /\ b # 0
        BY <2>2
      <4> QED
        BY <1>3, <2>2, <4>1, Zenon
    <3>2. x # 0 /\ Len(r.blocks[k]) >= 1
      BY <1>5, <3>1
    <3> QED
      BY <1>4, <1>5, <1>6, <3>1, <3>2, Zenon
  <2> QED
    BY <2>1, <2>2, Zenon
<1>8. ASSUME NEW i \in 1..(a + b), NEW j \in 1..(a + b), i < j, given'[i][1] = given'[j][1]
      PROVE  Len(given'[i]) < Len(given'[j])
  <2>1. CASE j <= a
    <3>1. i \in 1..a /\ j \in 1..a /\ given'[i] = given[i] /\ given'[j] = given[j]
      BY <1>3, <1>8, <2>1
    <3> QED
      BY <1>4, <1>8, <3>1, Zenon
  <2>2. CASE ~(i <= a)
    <3>1. PICK k \in 1..b, h \in 1..b : /\ k = i - a /\ given'[i] = r.blocks[k]
                                        /\ h = j - a /\ given'[j] = r.blocks[h]
                                        /\ k < h
      <4>1. /\ i - a \in 1..b /\ j - a \in 1..b /\ i - a < j - a /\ ~(j <= a)
        BY <1>8, <2>2
      <4> QED
        BY <1>3, <2>2, <4>1, Zenon
    <3> QED
      BY <1>5, <3>1, Zenon
  <2>3. CASE i <= a /\ ~(j <= a)
    <3>1. PICK h \in 1..b : /\ h = j - a /\ given'[j] = r.blocks[h]
                            /\ i \in 1..a /\ given'[i] = given[i] /\ b # 0
      <4>1. j - a \in 1..b /\ i \in 1..a /\ b # 0
        BY <2>3
      <4> QED
        BY <1>3, <2>3, <4>1, Zenon
    <3>2. given[i][1] = d.chain[1] /\ x # 0
      BY <1>5, <1>8, <3>1
    <3>3. /\ Len(given[i]) \in Nat /\ Len(given[i]) < x
          /\ Len(r.blocks[h]) \in Nat /\ x < Len(r.blocks[h])
      BY <1>4, <1>5, <3>1, <3>2, Zenon
    <3>4. Len(given[i]) < Len(r.blocks[h])
      BY <3>3
    <3> QED
      BY <3>1, <3>4, Zenon
  <2> QED
    BY <2>1, <2>2, <2>3, Zenon
<1>9. GivenInOrder'
  BY <1>3, <1>6, <1>7, <1>8, Zenon DEF GivenInOrder
<1>10. GeneratorAhead'
  <2>1. Len(d'.chain) = z
    BY <1>2, Zenon
  <2>2. z # 0 => \E k \in 1..entropy' : d'.chain[1] = Birth(k)
    BY <1>4, <1>5, <1>6, Zenon
  <2>3. Len(d'.chain) # 0 => /\ \E k \in 1..entropy' : d'.chain[1] = Birth(k)
                             /\ \A i \in 1..Len(given') :
                                   given'[i][1] = d'.chain[1] => Len(given'[i]) < Len(d'.chain)
    BY <1>3, <1>7, <2>1, <2>2, Zenon
  <2> QED
    BY <1>1, <2>3, Zenon DEF GeneratorAhead
<1> QED
  BY <1>9, <1>10, Zenon

(* The reply to a call for n bytes. *)
LEMMA AnsweredReply ==
    ASSUME NEW n \in Nat, NEW r, Answered(n, r), NEW op, Reply(op, r.code, n, r.written)
    PROVE  FilledOrRefused'
<1>1. reply'.code = r.code /\ reply'.asked = n /\ reply'.written = r.written
  BY DEF Reply
<1> QED
  BY <1>1, Zenon DEF Answered, FilledOrRefused

(* The reply to a call that asks for no bytes. *)
LEMMA EmptyReply ==
    ASSUME NEW op, NEW code, code # "panic", Reply(op, code, 0, 0)
    PROVE  FilledOrRefused'
<1>1. reply'.code = code /\ reply'.asked = 0 /\ reply'.written = 0
  BY DEF Reply
<1>2. ~(0 > 0)
  OBVIOUS
<1> QED
  BY <1>1, <1>2, Zenon DEF FilledOrRefused

(* A refusal keeps the invariant. *)
LEMMA RefuseKeeps ==
    ASSUME DrbgInv, NEW op, NEW code, code # "panic", Refuse(op, code)
    PROVE  DrbgInv'
<1>1. d' = d /\ entropy' = entropy /\ given' = given /\ Reply(op, code, 0, 0)
  BY DEF Refuse
<1>2. FilledOrRefused'
  BY <1>1, EmptyReply, Zenon
<1> QED
  BY <1>1, <1>2, Zenon DEF DrbgInv, GivenInOrder, GeneratorAhead

(* The first seeding of a generator. *)
LEMMA InstantiateKeeps ==
    ASSUME DrbgParametersOk, DrbgInv, NEW kind, NEW v, Instantiate(kind, v)
    PROVE  DrbgInv'
<1>1. /\ d' = Seeded(Unseeded(kind), <<entropy + 1, "nonce">>, v)
      /\ entropy' = entropy + 1 /\ given' = given
      /\ Reply("instantiate", "Ok", 0, 0)
  BY ZenonT(60) DEF Instantiate
<1>2. entropy \in Nat /\ entropy' \in Nat /\ entropy' \in 1..entropy'
      /\ \A k \in 1..entropy : k \in 1..entropy' /\ k # entropy'
  BY <1>1 DEF DrbgInv, GivenInOrder
<1>u. PICK u, m : u = Unseeded(kind) /\ m = <<entropy + 1, "nonce">>
  BY Zenon
<1>3. IsGenerator(u) /\ u.kind = kind /\ u.chain = <<>> /\ ~u.health.poisoned
  <2>1. /\ IsGenerator(Unseeded(kind)) /\ Unseeded(kind).kind = kind
        /\ Unseeded(kind).chain = <<>> /\ ~Unseeded(kind).health.poisoned
    BY UnseededFields, Zenon
  <2> QED
    BY <1>u, <2>1, Zenon
<1>t. PICK t : t = Seeded(u, m, v)
  OBVIOUS
<1>4. /\ t = Seeded(u, m, v) /\ IsGenerator(t) /\ t.kind = kind
      /\ t.reseed_counter = 1 /\ t.calls = 0
      /\ t.chain = Append(<<>>, <<"update", m>>)
      /\ ~t.health.poisoned
  <2>1. /\ IsGenerator(Seeded(u, m, v))
        /\ Seeded(u, m, v).kind = u.kind
        /\ Seeded(u, m, v).reseed_counter = 1
        /\ Seeded(u, m, v).calls = 0
        /\ Seeded(u, m, v).chain = Append(u.chain, <<"update", m>>)
        /\ Seeded(u, m, v).health.poisoned = u.health.poisoned
    BY <1>3, SeededFields, ZenonT(60)
  <2> QED
    BY <1>t, <1>3, <2>1, Zenon
<1>5. Chain(t.chain) /\ Len(t.chain) = 1 /\ t.chain[1] = Birth(entropy')
  <2>1. Chain(<<>>) /\ Len(<<>>) = 0
    BY ChainEmpty, Zenon
  <2>2. PICK e : e = <<"update", m>> /\ e = Birth(entropy')
    BY <1>1, <1>u, Zenon DEF Birth
  <2>3. /\ Chain(Append(<<>>, e)) /\ Len(Append(<<>>, e)) = 0 + 1
        /\ Append(<<>>, e)[0 + 1] = e
    BY <2>1, ChainAppend, Zenon
  <2>4. 0 + 1 = 1
    OBVIOUS
  <2> QED
    BY <1>4, <2>2, <2>3, <2>4, Zenon
<1>6. /\ t.calls \in Nat /\ t.calls <= RESEED_INTERVAL
      /\ t.reseed_counter = t.calls + 1 /\ 1 # 0
  BY <1>4 DEF DrbgParametersOk
<1>7. Live(t) /\ d' = t
  BY <1>1, <1>u, <1>3, <1>4, <1>5, <1>6, Zenon DEF Live
<1>8. GivenInOrder'
  BY <1>1, <1>2, Zenon DEF DrbgInv, GivenInOrder
<1>9. \A k \in 1..entropy : Birth(k) # Birth(entropy')
  BY <1>2 DEF Birth
<1>10. \A i \in 1..Len(given') : given'[i][1] # d'.chain[1]
  BY <1>1, <1>5, <1>7, <1>9, Zenon DEF DrbgInv, GivenInOrder
<1>11. GeneratorAhead'
  BY <1>2, <1>5, <1>7, <1>10, Zenon DEF GeneratorAhead
<1>12. FilledOrRefused'
  <2>1. "Ok" # "panic"
    OBVIOUS
  <2> QED
    BY <1>1, <2>1, EmptyReply, Zenon
<1> QED
  BY <1>8, <1>11, <1>12, Zenon DEF DrbgInv

(* Seeding a generator again. *)
LEMMA ReseedKeeps ==
    ASSUME DrbgParametersOk, DrbgInv, NEW additional, NEW v, Reseed(additional, v)
    PROVE  DrbgInv'
<1>1. /\ d # NoGenerator /\ ~d.health.poisoned
      /\ d' = Seeded(d, <<entropy + 1, additional>>, v)
      /\ entropy' = entropy + 1 /\ given' = given
      /\ Reply("reseed", "Ok", 0, 0)
  BY Zenon DEF Reseed
<1>2. Live(d) /\ GivenInOrder /\ GeneratorAhead /\ Chain(given)
  BY <1>1, Zenon DEF DrbgInv, GeneratorAhead, GivenInOrder
<1>m. PICK m : m = <<entropy + 1, additional>>
  BY Zenon
<1>t. PICK t : t = Seeded(d, m, v)
  OBVIOUS
<1>a. Live(t) /\ Later(d, t)
  <2>1. Live(Seeded(d, m, v)) /\ Later(d, Seeded(d, m, v))
    BY <1>1, <1>2, SeededLater, Zenon
  <2> QED
    BY <1>t, <2>1, Zenon
<1>3. t = d' /\ Live(t) /\ Later(d, t) /\ Chain(d.chain) /\ Chain(t.chain)
  BY <1>1, <1>2, <1>m, <1>t, <1>a, Zenon DEF Live
<1>r. PICK r : r = Result(t, "Ok", <<>>, 0)
  OBVIOUS
<1>4. r = Result(t, "Ok", <<>>, 0) /\ r.s = t /\ r.blocks = <<>>
  BY <1>r, ResultFields
<1>5. Progress(d, r)
  <2>1. Progress(t, r)
    BY <1>3, <1>4, StayProgress, Zenon
  <2> QED
    BY <1>3, <2>1, EarlierProgress, Zenon
<1>6. given' = given \o r.blocks
  <2>1. PICK S : given \in Seq(S)
    BY <1>2, Zenon DEF Chain
  <2>2. given \o <<>> = given
    BY <2>1, SMT
  <2> QED
    BY <1>1, <1>4, <2>2, Zenon
<1>7. GivenInOrder' /\ GeneratorAhead'
  BY <1>1, <1>2, <1>3, <1>4, <1>5, <1>6, HandedOut, Zenon
<1>8. FilledOrRefused'
  <2>1. "Ok" # "panic"
    OBVIOUS
  <2> QED
    BY <1>1, <2>1, EmptyReply, Zenon
<1> QED
  BY <1>7, <1>8, Zenon DEF DrbgInv

-----------------------------------------------------------------------------
(* HMAC-DRBG: every call keeps it. *)

(* A generate call on the Rust and HACL* generators. *)
LEMMA GenerateKeeps ==
    ASSUME DrbgParametersOk, DrbgInv, NEW n \in Nat, NEW additional, NEW vs,
           Generate(n, additional, vs)
    PROVE  DrbgInv'
<1>1. PICK r : /\ r = generate(d, n, additional, vs, 0)
               /\ d # NoGenerator /\ d' = r.s /\ given' = given \o r.blocks
               /\ Reply("generate", r.code, n, r.written) /\ entropy' = entropy
  BY Zenon DEF Generate, HandOut
<1>2. Live(d) /\ GivenInOrder /\ GeneratorAhead
  BY <1>1, Zenon DEF DrbgInv, GeneratorAhead
<1>3. Progress(d, r) /\ Answered(n, r)
  BY <1>1, <1>2, GenerateProgress, Zenon
<1>4. GivenInOrder' /\ GeneratorAhead'
  BY <1>1, <1>2, <1>3, HandedOut, Zenon
<1>5. FilledOrRefused'
  BY <1>1, <1>3, AnsweredReply, Zenon
<1> QED
  BY <1>4, <1>5, Zenon DEF DrbgInv

(* EverCrypt's generate, which seeds first. *)
LEMMA GenerateEverCryptKeeps ==
    ASSUME DrbgParametersOk, DrbgInv, NEW n \in Nat, NEW additional, NEW vs,
           GenerateEverCrypt(n, additional, vs)
    PROVE  DrbgInv'
<1>1. d # NoGenerator /\ d.kind = "evercrypt"
  BY Zenon DEF GenerateEverCrypt
<1>2. CASE Refuse("generate", "false") \/ Refuse("generate", "RngError")
  <2>1. "false" # "panic" /\ "RngError" # "panic"
    OBVIOUS
  <2> QED
    BY <1>2, <2>1, RefuseKeeps, Zenon
<1>3. CASE /\ LET s == Seeded(d, <<entropy + 1, additional>>, ZeroBlock)
                  r == generate(s, n, additional, vs, 0)
              IN  /\ d' = r.s
                  /\ HandOut(r, vs)
                  /\ Reply("generate", r.code, n, r.written)
           /\ entropy' = entropy + 1
  <2>1. PICK s : s = Seeded(d, <<entropy + 1, additional>>, ZeroBlock)
    OBVIOUS
  <2>2. PICK r : /\ r = generate(s, n, additional, vs, 0)
                 /\ d' = r.s /\ given' = given \o r.blocks
                 /\ Reply("generate", r.code, n, r.written)
    BY <1>3, <2>1, Zenon DEF HandOut
  <2>3. Live(d) /\ GivenInOrder /\ GeneratorAhead
    BY <1>1, Zenon DEF DrbgInv, GeneratorAhead
  <2>4. ~d.health.poisoned
    <3>1. d.kind # "health"
      BY <1>1
    <3> QED
      BY <2>3, <3>1, Zenon DEF Live
  <2>5. Live(s) /\ Later(d, s) /\ Chain(d.chain) /\ Chain(s.chain)
    BY <2>1, <2>3, <2>4, SeededLater, Zenon DEF Live
  <2>6. Progress(s, r) /\ Answered(n, r)
    BY <2>2, <2>5, GenerateProgress, Zenon
  <2>7. Progress(d, r)
    BY <2>5, <2>6, EarlierProgress, Zenon
  <2>8. GivenInOrder' /\ GeneratorAhead'
    BY <1>1, <1>3, <2>2, <2>3, <2>7, HandedOut, Zenon
  <2>9. FilledOrRefused'
    BY <2>2, <2>6, AnsweredReply, Zenon
  <2> QED
    BY <2>8, <2>9, Zenon DEF DrbgInv
<1> QED
  BY <1>2, <1>3, Zenon DEF GenerateEverCrypt

(* A fill, which calls generate for each of its chunks. *)
LEMMA FillKeeps ==
    ASSUME DrbgParametersOk, DrbgInv, NEW n \in Nat, NEW vs, Fill(n, vs)
    PROVE  DrbgInv'
<1>1. PICK r : /\ r = fill(d, n, entropy + 1, vs)
               /\ d # NoGenerator /\ d' = r.s /\ given' = given \o r.blocks
               /\ Reply("fill", r.code, n, r.written)
               /\ entropy' \in {entropy, entropy + 1}
  BY Zenon DEF Fill, HandOut
<1>2. Live(d) /\ GivenInOrder /\ GeneratorAhead
  BY <1>1, Zenon DEF DrbgInv, GeneratorAhead
<1>3. Progress(d, r) /\ Answered(n, r)
  BY <1>1, <1>2, FillProgress, Zenon
<1>4. GivenInOrder' /\ GeneratorAhead'
  BY <1>1, <1>2, <1>3, HandedOut, Zenon
<1>5. FilledOrRefused'
  BY <1>1, <1>3, AnsweredReply, Zenon
<1> QED
  BY <1>4, <1>5, Zenon DEF DrbgInv

(* The end of a generator. *)
LEMMA FreeKeeps ==
    ASSUME DrbgInv, Free
    PROVE  DrbgInv'
<1>1. /\ d' = NoGenerator /\ entropy' = entropy /\ given' = given
      /\ Reply("free", "Ok", 0, 0)
  BY DEF Free
<1>2. FilledOrRefused'
  <2>1. "Ok" # "panic"
    OBVIOUS
  <2> QED
    BY <1>1, <2>1, EmptyReply, Zenon
<1> QED
  BY <1>1, <1>2, Zenon DEF DrbgInv, GivenInOrder, GeneratorAhead

(* Calls that fail before they do anything. *)
LEMMA FailuresKeep ==
    ASSUME DrbgInv, InstantiateFails \/ ReseedFails
    PROVE  DrbgInv'
<1>1. /\ "RngError" # "panic" /\ "InsufficientEntropy" # "panic"
      /\ "HealthCheckFailed" # "panic" /\ "InputTooLarge" # "panic"
  OBVIOUS
<1> QED
  BY <1>1, RefuseKeeps, Zenon DEF InstantiateFails, ReseedFails

(* Whatever is called in whatever order (HmacDrbg and HealthState of the   *)
(* Rust crate, Hacl_HMAC_DRBG, EverCrypt_DRBG): the blocks handed out grow *)
(* along one chain per instantiation, the generator is ahead of them, its  *)
(* counter is one ahead of its calls, and every call is answered in full   *)
(* or refused.                                                             *)
THEOREM DrbgInvariant == DrbgSpec => []DrbgInv
<1> USE DrbgAssumption
<1>1. DrbgInit => DrbgInv
  BY DrbgStarts, Zenon
<1>2. DrbgInv /\ [DrbgNext]_drbgVars => DrbgInv'
  <2> SUFFICES ASSUME DrbgInv, [DrbgNext]_drbgVars
               PROVE  DrbgInv'
    OBVIOUS
  <2>1. CASE \E kind \in Kinds : \E v \in Updated : Instantiate(kind, v)
    BY <2>1, InstantiateKeeps, Zenon
  <2>2. CASE InstantiateFails \/ ReseedFails
    BY <2>2, FailuresKeep, Zenon
  <2>3. CASE \E additional \in Additional : \E v \in BlockValues(0) : Reseed(additional, v.u)
    BY <2>3, ReseedKeeps, Zenon
  <2>4. CASE \E n \in Sizes, additional \in Additional : \E vs \in BlockValues(n) :
                Generate(n, additional, vs)
    BY <2>4, GenerateKeeps, Zenon DEF DrbgParametersOk
  <2>5. CASE \E n \in Sizes, additional \in Additional : \E vs \in BlockValues(n) :
                GenerateEverCrypt(n, additional, vs)
    BY <2>5, GenerateEverCryptKeeps, Zenon DEF DrbgParametersOk
  <2>6. CASE \E n \in Sizes : \E vs \in BlockValues(n) : Fill(n, vs)
    BY <2>6, FillKeeps, Zenon DEF DrbgParametersOk
  <2>7. CASE Free
    BY <2>7, FreeKeeps, Zenon
  <2>8. CASE UNCHANGED drbgVars
    <3>1. d' = d /\ entropy' = entropy /\ given' = given /\ reply' = reply
      BY <2>8 DEF drbgVars
    <3> QED
      BY <3>1, Zenon DEF DrbgInv, GivenInOrder, GeneratorAhead, FilledOrRefused
  <2> QED
    BY <2>1, <2>2, <2>3, <2>4, <2>5, <2>6, <2>7, <2>8, Zenon DEF DrbgNext
<1> QED
  BY <1>1, <1>2, PTL DEF DrbgSpec

(* No call makes a generator go past its reseed interval: the check in     *)
(* generate, the reset in reseed and the test needs_reseed before every    *)
(* chunk of a fill agree on where it ends.                                 *)
THEOREM ReseedBoundAlways == DrbgSpec => []ReseedBound
<1>1. DrbgInv => ReseedBound
  BY Zenon DEF DrbgInv, GeneratorAhead, Live, ReseedBound
<1> QED
  BY <1>1, DrbgInvariant, PTL

(* A buffer reported as filled is filled, one that is not is not, and      *)
(* safe_generate_small never reaches unreachable!().                       *)
THEOREM FilledOrRefusedAlways == DrbgSpec => []FilledOrRefused
<1>1. DrbgInv => FilledOrRefused
  BY Zenon DEF DrbgInv
<1> QED
  BY <1>1, DrbgInvariant, PTL

(* No block is handed out twice, and none is the V kept for the next call: *)
(* the update after the output loop, and a fresh seed per instance.        *)
THEOREM OutputsNeverRepeatAlways == DrbgSpec => []OutputsNeverRepeat
<1>1. ASSUME DrbgInv
      PROVE  OutputsNeverRepeat
  <2>1. /\ Chain(given)
        /\ \A i \in 1..Len(given) : Chain(given[i]) /\ Len(given[i]) >= 1
        /\ \A i, j \in 1..Len(given) :
              i < j /\ given[i][1] = given[j][1] => Len(given[i]) < Len(given[j])
    BY <1>1, Zenon DEF DrbgInv, GivenInOrder
  <2>2. DOMAIN given = 1..Len(given) /\ Len(given) \in Nat
        /\ \A i \in 1..Len(given) : Len(given[i]) \in Nat
    BY <2>1, ChainLen, Zenon
  <2>3. ASSUME NEW i \in DOMAIN given, NEW j \in DOMAIN given, given[i] = given[j]
        PROVE  i = j
    <3>1. ASSUME NEW k \in 1..Len(given), NEW h \in 1..Len(given), k < h, given[k] = given[h]
          PROVE  FALSE
      <4>1. Len(given[k]) < Len(given[h])
        BY <2>1, <3>1, Zenon
      <4>2. Len(given[k]) = Len(given[h])
        BY <3>1, Zenon
      <4> QED
        BY <2>2, <4>1, <4>2
    <3>2. i \in 1..Len(given) /\ j \in 1..Len(given) /\ (i = j \/ i < j \/ j < i)
      BY <2>2
    <3> QED
      BY <2>3, <3>1, <3>2, Zenon
  <2>4. ASSUME d # NoGenerator, NEW i \in DOMAIN given, given[i] = d.chain
        PROVE  FALSE
    <3>1. i \in 1..Len(given) /\ Len(given[i]) \in Nat /\ Len(given[i]) >= 1
      BY <2>1, <2>2, Zenon
    <3>2. Len(d.chain) = Len(given[i]) /\ given[i][1] = d.chain[1]
      BY <2>4, Zenon
    <3>3. Len(d.chain) # 0
      BY <3>1, <3>2
    <3>4. Len(given[i]) < Len(d.chain)
      BY <1>1, <2>4, <3>1, <3>2, <3>3, Zenon DEF DrbgInv, GeneratorAhead
    <3> QED
      BY <3>1, <3>2, <3>4
  <2> QED
    BY <2>3, <2>4, Zenon DEF OutputsNeverRepeat
<1> QED
  BY <1>1, DrbgInvariant, PTL

=============================================================================
