------------------------- MODULE MlDsaSigningProofs -------------------------
(***************************************************************************)
(* ML-DSA: what the coefficient arithmetic computes, and the steps of      *)
(* signing, given how inner products and the encoding of hints behave      *)
(* (InnerProductsLinear and HintCodec, which MlDsaProofs proves).          *)
(***************************************************************************)
EXTENDS MlDsa, TLAPS

(* The number of high parts. *)
Highs(gamma2) == IF gamma2 = 95232 THEN 44 ELSE 16

-----------------------------------------------------------------------------
(* The multiplication by 11275 and the shift by 24 of decompose_element    *)
(* round r to the nearest multiple of 2 * 95232, halves down.              *)
LEMMA Quotient95232 ==
    ASSUME NEW r \in Int, 0 <= r, r <= 8380416
    PROVE  /\ (((r + 127) \div 128) * 11275 + 8388608) \div 16777216
                 = (r + 95231) \div 190464
           /\ (r + 95231) \div 190464 \in Int
           /\ 0 <= (r + 95231) \div 190464 /\ (r + 95231) \div 190464 <= 44
           /\ 190464 * ((r + 95231) \div 190464) <= r + 95231
           /\ r + 95231 < 190464 * ((r + 95231) \div 190464) + 190464
<1> DEFINE c == (r + 127) \div 128
           e == (r + 95231) \div 190464
           d == (c * 11275 + 8388608) \div 16777216
<1>1. c \in Int /\ e \in Int
  OBVIOUS
<1>2. 190464 * e <= r + 95231 /\ r + 95231 < 190464 * e + 190464
  BY SMT
<1>3. r <= 128 * c /\ 128 * c <= r + 127
  BY SMT
<1>4. d \in Int /\ 16777216 * d <= c * 11275 + 8388608
      /\ c * 11275 + 8388608 < 16777216 * d + 16777216
  BY <1>1, SMT
<1> HIDE DEF c, e, d
<1>5. c >= 1488 * e - 743 /\ c <= 1488 * e + 744
  BY <1>1, <1>2, <1>3, SMT
<1>6. 0 <= e /\ e <= 44
  BY <1>1, <1>2, SMT
<1>7. c * 11275 >= 16777200 * e - 8377325 /\ c * 11275 <= 16777200 * e + 8388600
  BY <1>1, <1>5, SMT
<1>8. 16777216 * e <= c * 11275 + 8388608
      /\ c * 11275 + 8388608 < 16777216 * e + 16777216
  BY <1>1, <1>6, <1>7, SMT
<1>9. d = e
  BY <1>1, <1>4, <1>8, SMT
<1> QED
  BY <1>1, <1>2, <1>6, <1>9 DEF c, e, d

(* The same of the multiplication by 1025 and the shift by 22.             *)
LEMMA Quotient261888 ==
    ASSUME NEW r \in Int, 0 <= r, r <= 8380416
    PROVE  /\ (((r + 127) \div 128) * 1025 + 2097152) \div 4194304
                 = (r + 261887) \div 523776
           /\ (r + 261887) \div 523776 \in Int
           /\ 0 <= (r + 261887) \div 523776 /\ (r + 261887) \div 523776 <= 16
           /\ 523776 * ((r + 261887) \div 523776) <= r + 261887
           /\ r + 261887 < 523776 * ((r + 261887) \div 523776) + 523776
<1> DEFINE c == (r + 127) \div 128
           e == (r + 261887) \div 523776
           d == (c * 1025 + 2097152) \div 4194304
<1>1. c \in Int /\ e \in Int
  OBVIOUS
<1>2. 523776 * e <= r + 261887 /\ r + 261887 < 523776 * e + 523776
  BY SMT
<1>3. r <= 128 * c /\ 128 * c <= r + 127
  BY SMT
<1>4. d \in Int /\ 4194304 * d <= c * 1025 + 2097152
      /\ c * 1025 + 2097152 < 4194304 * d + 4194304
  BY <1>1, SMT
<1> HIDE DEF c, e, d
<1>5. c >= 4092 * e - 2045 /\ c <= 4092 * e + 2046
  BY <1>1, <1>2, <1>3, SMT
<1>6. 0 <= e /\ e <= 16
  BY <1>1, <1>2, SMT
<1>7. c * 1025 >= 4194300 * e - 2096125 /\ c * 1025 <= 4194300 * e + 2097150
  BY <1>1, <1>5, SMT
<1>8. 4194304 * e <= c * 1025 + 2097152
      /\ c * 1025 + 2097152 < 4194304 * e + 4194304
  BY <1>1, <1>6, <1>7, SMT
<1>9. d = e
  BY <1>1, <1>4, <1>8, SMT
<1> QED
  BY <1>1, <1>2, <1>6, <1>9 DEF c, e, d

-----------------------------------------------------------------------------
(* decompose_element splits every coefficient exactly: high * 2 * gamma2 + *)
(* low is the non-negative representative, or that less the modulus, and   *)
(* then high is 0; high is one of Highs(gamma2) and low is at most gamma2  *)
(* in size.                                                                *)
THEOREM DecomposeExact ==
    ASSUME NEW x \in Int, -FIELD_MODULUS < x, x < FIELD_MODULUS,
           NEW gamma2 \in GAMMA2S
    PROVE  LET low  == decompose_element(gamma2, x)[1]
               high == decompose_element(gamma2, x)[2]
           IN  /\ low \in Int /\ high \in Int
               /\ 0 <= high /\ high < Highs(gamma2)
               /\ -gamma2 <= low /\ low <= gamma2
               /\ \/ NonNegative(x) = high * (gamma2 * 2) + low /\ low # -gamma2
                  \/ /\ NonNegative(x) = high * (gamma2 * 2) + low + FIELD_MODULUS
                     /\ high = 0 /\ low < 0
<1> DEFINE r == NonNegative(x)
           low == decompose_element(gamma2, x)[1]
           high == decompose_element(gamma2, x)[2]
<1>1. r \in Int /\ 0 <= r /\ r <= 8380416
  BY SMT DEF NonNegative, FIELD_MODULUS
<1>2. /\ high = QuotientBy(gamma2, (r + 127) \div 128)
      /\ low = IF r - high * (gamma2 * 2) > 4190208
               THEN r - high * (gamma2 * 2) - 8380417 ELSE r - high * (gamma2 * 2)
  <2>1. (FIELD_MODULUS - 1) \div 2 = 4190208
    BY SMT DEF FIELD_MODULUS
  <2> QED
    BY <2>1 DEF decompose_element, FIELD_MODULUS
<1> HIDE DEF r, low, high
<1>3. CASE gamma2 = 95232
  <2> DEFINE e == (r + 95231) \div 190464
  <2>1. /\ e \in Int /\ 0 <= e /\ e <= 44
        /\ 190464 * e <= r + 95231 /\ r + 95231 < 190464 * e + 190464
    BY <1>1, Quotient95232
  <2>2. high = IF e > 43 THEN 0 ELSE e
    BY <1>1, <1>2, <1>3, Quotient95232 DEF QuotientBy
  <2> HIDE DEF e
  <2>3. /\ low \in Int /\ high \in Int /\ 0 <= high /\ high < 44
        /\ -95232 <= low /\ low <= 95232
        /\ \/ r = high * 190464 + low /\ low # -95232
           \/ r = high * 190464 + low + 8380417 /\ high = 0 /\ low < 0
    <3>1. CASE e > 43
      <4>1. e = 44 /\ high = 0
        BY <3>1, <2>1, <2>2
      <4>2. r >= 8285185
        BY <4>1, <2>1, <1>1, SMT
      <4>3. low = r - 8380417
        BY <4>1, <4>2, <1>1, <1>2, <1>3, SMT
      <4> QED
        BY <4>1, <4>2, <4>3, <1>1, SMT
    <3>2. CASE ~(e > 43)
      <4>1. high = e
        BY <3>2, <2>2
      <4>2. low = r - e * 190464
        BY <4>1, <2>1, <1>1, <1>2, <1>3, SMT
      <4> QED
        BY <4>1, <4>2, <3>2, <2>1, <1>1, SMT
    <3> QED
      BY <3>1, <3>2
  <2> QED
    BY <2>3, <1>3 DEF Highs, FIELD_MODULUS, r, low, high
<1>4. CASE gamma2 = 261888
  <2> DEFINE e == (r + 261887) \div 523776
  <2>1. /\ e \in Int /\ 0 <= e /\ e <= 16
        /\ 523776 * e <= r + 261887 /\ r + 261887 < 523776 * e + 523776
    BY <1>1, Quotient261888
  <2>2. high = e % 16
    BY <1>1, <1>2, <1>4, Quotient261888 DEF QuotientBy
  <2> HIDE DEF e
  <2>3. high = IF e > 15 THEN 0 ELSE e
    BY <2>1, <2>2, SMT
  <2>4. /\ low \in Int /\ high \in Int /\ 0 <= high /\ high < 16
        /\ -261888 <= low /\ low <= 261888
        /\ \/ r = high * 523776 + low /\ low # -261888
           \/ r = high * 523776 + low + 8380417 /\ high = 0 /\ low < 0
    <3>1. CASE e > 15
      <4>1. e = 16 /\ high = 0
        BY <3>1, <2>1, <2>3
      <4>2. r >= 8118529
        BY <4>1, <2>1, <1>1, SMT
      <4>3. low = r - 8380417
        BY <4>1, <4>2, <1>1, <1>2, <1>4, SMT
      <4> QED
        BY <4>1, <4>2, <4>3, <1>1, SMT
    <3>2. CASE ~(e > 15)
      <4>1. high = e
        BY <3>2, <2>3
      <4>2. low = r - e * 523776
        BY <4>1, <2>1, <1>1, <1>2, <1>4, SMT
      <4> QED
        BY <4>1, <4>2, <3>2, <2>1, <1>1, SMT
    <3> QED
      BY <3>1, <3>2
  <2> QED
    BY <2>4, <1>4 DEF Highs, FIELD_MODULUS, r, low, high
<1> QED
  BY <1>3, <1>4 DEF GAMMA2S, r, low, high

-----------------------------------------------------------------------------
(* Where the two halves of a hint meet: if r is the sum of high * 2 gamma2 *)
(* and low, up to a multiple m of the modulus, and low is less than 2      *)
(* gamma2 in size, then what decompose_element gives for r is high, or its *)
(* neighbour on the side that low points to.                               *)
LEMMA Neighbour ==
    ASSUME NEW gamma2 \in GAMMA2S,
           NEW high \in Int, 0 <= high, high < Highs(gamma2),
           NEW low \in Int, -(gamma2 * 2) < low, low < gamma2 * 2,
           NEW r \in Int, 0 <= r, r < FIELD_MODULUS,
           NEW m \in {-1, 0, 1}, r = high * (gamma2 * 2) + low + m * FIELD_MODULUS,
           NEW h \in Int, 0 <= h, h < Highs(gamma2),
           NEW l \in Int, -gamma2 <= l, l <= gamma2,
           \/ r = h * (gamma2 * 2) + l /\ l # -gamma2
           \/ r = h * (gamma2 * 2) + l + FIELD_MODULUS /\ h = 0 /\ l < 0
    PROVE  IF compute_one_hint(low, high, gamma2) = 0 THEN h = high
           ELSE IF l > 0 THEN h = (IF high = 0 THEN Highs(gamma2) - 1 ELSE high - 1)
           ELSE h = (IF high = Highs(gamma2) - 1 THEN 0 ELSE high + 1)
<1>1. CASE gamma2 = 95232
  <2>1. /\ r = high * 190464 + low + m * 8380417 /\ high < 44 /\ h < 44
        /\ -190464 < low /\ low < 190464 /\ r < 8380417
        /\ -95232 <= l /\ l <= 95232
        /\ \/ r = h * 190464 + l /\ l # -95232
           \/ r = h * 190464 + l + 8380417 /\ h = 0 /\ l < 0
    BY <1>1 DEF Highs, FIELD_MODULUS
  <2>2. m = 0 \/ m = 1
    BY <2>1, SMT
  <2>3. CASE ~(low > 95232 \/ low < -95232 \/ (low = -95232 /\ high # 0))
    <3>1. h = high
      BY <2>1, <2>2, <2>3, SMT
    <3> QED
      BY <3>1, <2>3, <1>1 DEF compute_one_hint
  <2>4. CASE low > 95232 \/ low < -95232 \/ (low = -95232 /\ high # 0)
    <3>1. IF l > 0 THEN h = (IF high = 0 THEN 43 ELSE high - 1)
          ELSE h = (IF high = 43 THEN 0 ELSE high + 1)
      BY <2>1, <2>2, <2>4, SMT
    <3>2. compute_one_hint(low, high, gamma2) = 1
      BY <2>4, <1>1 DEF compute_one_hint
    <3> QED
      BY <3>1, <3>2, <1>1 DEF Highs
  <2> QED
    BY <2>3, <2>4
<1>2. CASE gamma2 = 261888
  <2>1. /\ r = high * 523776 + low + m * 8380417 /\ high < 16 /\ h < 16
        /\ -523776 < low /\ low < 523776 /\ r < 8380417
        /\ -261888 <= l /\ l <= 261888
        /\ \/ r = h * 523776 + l /\ l # -261888
           \/ r = h * 523776 + l + 8380417 /\ h = 0 /\ l < 0
    BY <1>2 DEF Highs, FIELD_MODULUS
  <2>2. m = 0 \/ m = 1
    BY <2>1, SMT
  <2>3. CASE ~(low > 261888 \/ low < -261888 \/ (low = -261888 /\ high # 0))
    <3>1. h = high
      BY <2>1, <2>2, <2>3, SMT
    <3> QED
      BY <3>1, <2>3, <1>2 DEF compute_one_hint
  <2>4. CASE low > 261888 \/ low < -261888 \/ (low = -261888 /\ high # 0)
    <3>1. IF l > 0 THEN h = (IF high = 0 THEN 15 ELSE high - 1)
          ELSE h = (IF high = 15 THEN 0 ELSE high + 1)
      BY <2>1, <2>2, <2>4, SMT
    <3>2. compute_one_hint(low, high, gamma2) = 1
      BY <2>4, <1>2 DEF compute_one_hint
    <3> QED
      BY <3>1, <3>2, <1>2 DEF Highs
  <2> QED
    BY <2>3, <2>4
<1> QED
  BY <1>1, <1>2 DEF GAMMA2S

(* The hint does its work: with compute_one_hint of low and high,          *)
(* use_one_hint recovers high from any representative of high * 2 gamma2 + *)
(* low, for every low that is less than 2 gamma2 in size.  The checks of   *)
(* the signing loop leave no other.                                        *)
THEOREM HintRecovers ==
    ASSUME NEW gamma2 \in GAMMA2S,
           NEW high \in Int, 0 <= high, high < Highs(gamma2),
           NEW low \in Int, -(gamma2 * 2) < low, low < gamma2 * 2,
           NEW x \in Int, -FIELD_MODULUS < x, x < FIELD_MODULUS,
           NEW m \in {-1, 0, 1},
           NonNegative(x) = high * (gamma2 * 2) + low + m * FIELD_MODULUS
    PROVE  use_one_hint(gamma2, x, compute_one_hint(low, high, gamma2)) = high
<1> DEFINE l == decompose_element(gamma2, x)[1]
           h == decompose_element(gamma2, x)[2]
           r == NonNegative(x)
           hint == compute_one_hint(low, high, gamma2)
<1>1. r \in Int /\ 0 <= r /\ r < FIELD_MODULUS
  BY SMT DEF NonNegative, FIELD_MODULUS
<1>2. /\ l \in Int /\ h \in Int /\ 0 <= h /\ h < Highs(gamma2)
      /\ -gamma2 <= l /\ l <= gamma2
      /\ \/ r = h * (gamma2 * 2) + l /\ l # -gamma2
         \/ r = h * (gamma2 * 2) + l + FIELD_MODULUS /\ h = 0 /\ l < 0
  BY DecomposeExact
<1>3. hint \in {0, 1}
  BY DEF compute_one_hint
<1> HIDE DEF l, h, r
<1>4. IF hint = 0 THEN h = high
      ELSE IF l > 0 THEN h = (IF high = 0 THEN Highs(gamma2) - 1 ELSE high - 1)
      ELSE h = (IF high = Highs(gamma2) - 1 THEN 0 ELSE high + 1)
  BY <1>1, <1>2, Neighbour DEF r
<1>5. use_one_hint(gamma2, x, hint) =
          IF hint = 0 THEN h
          ELSE IF gamma2 = 95232
               THEN IF l > 0 THEN IF h = 43 THEN 0 ELSE h + hint
                             ELSE IF h = 0 THEN 43 ELSE h - hint
               ELSE IF l > 0 THEN (h + hint) % 16 ELSE (h - hint) % 16
  BY DEF use_one_hint, h, l
<1> HIDE DEF hint
<1>6. CASE hint = 0
  BY <1>4, <1>5, <1>6 DEF hint
<1>7. CASE hint = 1 /\ gamma2 = 95232
  <2>1. Highs(gamma2) = 44
    BY <1>7 DEF Highs
  <2>2. use_one_hint(gamma2, x, hint) = high
    BY <2>1, <1>2, <1>4, <1>5, <1>7, SMT
  <2> QED
    BY <2>2 DEF hint
<1>8. CASE hint = 1 /\ gamma2 = 261888
  <2>1. Highs(gamma2) = 16
    BY <1>8 DEF Highs
  <2>2. use_one_hint(gamma2, x, hint) = IF l > 0 THEN (h + 1) % 16 ELSE (h - 1) % 16
    BY <1>5, <1>8
  <2>3. (h + 1) % 16 = (IF h = 15 THEN 0 ELSE h + 1)
        /\ (h - 1) % 16 = (IF h = 0 THEN 15 ELSE h - 1)
    BY <2>1, <1>2, SMT
  <2>4. use_one_hint(gamma2, x, hint) = high
    BY <2>1, <2>2, <2>3, <1>2, <1>4, <1>8, SMT
  <2> QED
    BY <2>4 DEF hint
<1> QED
  BY <1>3, <1>6, <1>7, <1>8 DEF GAMMA2S

(* What the signer checks is what the verifier needs: when the low part of *)
(* the commitment w less c s2, and c t0, have passed the norm checks of    *)
(* the signing loop, the hint made from them recovers the high part of w   *)
(* from the value x the verifier computes, which is w - c s2 + c t0 modulo *)
(* the field.  This is the coefficientwise content of SignaturesVerify.    *)
THEOREM SignerHintRecovers ==
    ASSUME NEW gamma2 \in GAMMA2S, NEW beta \in Nat,
           NEW w \in Int, -FIELD_MODULUS < w, w < FIELD_MODULUS,
           NEW low, low = decompose_element(gamma2, w)[1],
           NEW high, high = decompose_element(gamma2, w)[2],
           NEW cs2 \in Int, NEW ct0 \in Int,
           ~NormExceeds(low - cs2, gamma2 - beta), ~NormExceeds(ct0, gamma2),
           NEW x \in Int, -FIELD_MODULUS < x, x < FIELD_MODULUS,
           NEW k \in Int, x = w - cs2 + ct0 + k * FIELD_MODULUS
    PROVE  use_one_hint(gamma2, x, compute_one_hint(low - cs2 + ct0, high, gamma2)) = high
<1> DEFINE sum  == low - cs2 + ct0
           step == high * (gamma2 * 2)
           wrap == NonNegative(x) - (step + sum)
<1>1. /\ low \in Int /\ high \in Int /\ 0 <= high /\ high < Highs(gamma2)
      /\ NonNegative(w) = step + low \/ NonNegative(w) = step + low + FIELD_MODULUS
  BY DecomposeExact
<1>2. -(gamma2 * 2) < sum /\ sum < gamma2 * 2
  BY <1>1, SMT DEF NormExceeds, GAMMA2S
<1>3. step \in Int /\ 0 <= step /\ step + gamma2 * 2 < FIELD_MODULUS
  <2>1. CASE gamma2 = 95232
    BY <1>1, <2>1, SMT DEF Highs, FIELD_MODULUS
  <2>2. CASE gamma2 = 261888
    BY <1>1, <2>2, SMT DEF Highs, FIELD_MODULUS
  <2> QED
    BY <2>1, <2>2 DEF GAMMA2S
<1> HIDE DEF step
<1>4. wrap = -FIELD_MODULUS \/ wrap = 0 \/ wrap = FIELD_MODULUS
  <2>1. NonNegative(x) \in Int /\ 0 <= NonNegative(x) /\ NonNegative(x) < FIELD_MODULUS
    BY SMT DEF NonNegative, FIELD_MODULUS
  <2>2. \E j \in Int : wrap = j * FIELD_MODULUS
    <3>1. PICK a \in {0, 1} : NonNegative(x) = x + a * FIELD_MODULUS
      BY SMT DEF NonNegative, FIELD_MODULUS
    <3>2. PICK b \in {0, 1} : NonNegative(w) = w + b * FIELD_MODULUS
      BY SMT DEF NonNegative, FIELD_MODULUS
    <3>3. PICK c \in {0, 1} : NonNegative(w) = step + low + c * FIELD_MODULUS
      BY <1>1, <1>3, SMT DEF FIELD_MODULUS
    <3>4. wrap = (k + a - b + c) * FIELD_MODULUS
      BY <3>1, <3>2, <3>3, <1>1, <1>3, SMT DEF FIELD_MODULUS
    <3> QED
      BY <3>4
  <2>3. PICK j \in Int : wrap = j * FIELD_MODULUS
    BY <2>2
  <2>4. sum \in Int /\ gamma2 \in Int
    BY <1>1 DEF GAMMA2S
  <2>5. step + gamma2 * 2 < FIELD_MODULUS /\ wrap = NonNegative(x) - (step + sum)
    BY <1>3
  <2> HIDE DEF sum, wrap
  <2>6. -2 * FIELD_MODULUS < wrap /\ wrap < 2 * FIELD_MODULUS
    BY <1>2, <1>3, <2>1, <2>4, <2>5, SMT DEF FIELD_MODULUS
  <2> QED
    BY <2>3, <2>6, SMT DEF FIELD_MODULUS
<1>5. sum \in Int /\ NonNegative(x) \in Int
  BY <1>1 DEF NonNegative, FIELD_MODULUS
<1>6. PICK m \in {-1, 0, 1} : wrap = m * FIELD_MODULUS
  BY <1>4 DEF FIELD_MODULUS
<1>7. NonNegative(x) = step + sum + m * FIELD_MODULUS
  BY <1>3, <1>5, <1>6, SMT DEF FIELD_MODULUS
<1> HIDE DEF sum, wrap
<1>8. use_one_hint(gamma2, x, compute_one_hint(sum, high, gamma2)) = high
  BY <1>1, <1>2, <1>5, <1>7, HintRecovers DEF step
<1> QED
  BY <1>8 DEF sum

-----------------------------------------------------------------------------
(* power2round_element splits t into t1 * 2^13 + t0 exactly, with t0 in    *)
(* the half-open range -2^12 < t0 <= 2^12 that t0_change_interval packs in *)
(* 13 bits, and t1 in the 10 bits of the verification key.                 *)
THEOREM Power2RoundExact ==
    ASSUME NEW x \in Int, -FIELD_MODULUS < x, x < FIELD_MODULUS
    PROVE  LET t0 == power2round_element(x)[1]
               t1 == power2round_element(x)[2]
           IN  /\ NonNegative(x) = t1 * LowerPartOfT + t0
               /\ t1 \in Int /\ 0 <= t1 /\ t1 < 1024
               /\ t0 \in Int /\ -4096 < t0 /\ t0 <= 4096
<1> DEFINE t  == NonNegative(x)
           t1 == (t - 1 + 4096) \div 8192
<1>1. t \in Int /\ 0 <= t /\ t < 8380417
  BY SMT DEF NonNegative, FIELD_MODULUS
<1>2. power2round_element(x) = <<t - t1 * 8192, t1>>
  <2>1. LowerPartOfT \div 2 = 4096
    BY SMT DEF LowerPartOfT
  <2> QED
    BY <2>1 DEF power2round_element, LowerPartOfT
<1> HIDE DEF t
<1>3. /\ t1 \in Int /\ 0 <= t1 /\ t1 < 1024
      /\ -4096 < t - t1 * 8192 /\ t - t1 * 8192 <= 4096
  BY <1>1, SMT
<1> HIDE DEF t1
<1>4. t - t1 * 8192 \in Int /\ t = t1 * 8192 + (t - t1 * 8192)
  BY <1>1, <1>3
<1> QED
  BY <1>2, <1>3, <1>4 DEF t, LowerPartOfT

(* barrett_reduce_element keeps the residue and, on the range the code     *)
(* requires of its argument, returns at most 6283008 in size.              *)
THEOREM BarrettReduces ==
    ASSUME NEW fe \in Int, -2143289343 <= fe, fe <= 2143289343
    PROVE  /\ \E k \in Int : barrett_reduce_element(fe) = fe - k * FIELD_MODULUS
           /\ -6283008 <= barrett_reduce_element(fe)
           /\ barrett_reduce_element(fe) <= 6283008
<1> DEFINE k == (fe + 4194304) \div 8388608
<1>1. k \in Int /\ 8388608 * k <= fe + 4194304 /\ fe + 4194304 < 8388608 * k + 8388608
  BY SMT
<1>2. barrett_reduce_element(fe) = fe - k * 8380417
  BY DEF barrett_reduce_element, FIELD_MODULUS
<1> HIDE DEF k
<1>3. -6283008 <= fe - k * 8380417 /\ fe - k * 8380417 <= 6283008
  BY <1>1, SMT
<1> QED
  BY <1>1, <1>2, <1>3 DEF FIELD_MODULUS

(* montgomery_reduce_element is exact: it divides value, less a multiple   *)
(* of the modulus that an i32 can hold, by 2^32 without a remainder.       *)
THEOREM MontgomeryExact ==
    ASSUME NEW value \in Int
    PROVE  /\ montgomery_reduce_element(value) \in Int
           /\ \E k \in Int :
                 /\ -(65536 * 32768) <= k /\ k < 65536 * 32768
                 /\ montgomery_reduce_element(value) * MontgomeryR
                       = value - k * FIELD_MODULUS
<1> DEFINE v == value % MontgomeryR
           a == value \div MontgomeryR
           u == (v * 58728449) % MontgomeryR
           b == (v * 58728449) \div MontgomeryR
           k == ToInt32(u)
           g == (k * FIELD_MODULUS) \div MontgomeryR
<1>1. MontgomeryR = 65536 * 65536 /\ MontgomeryR \div 2 = 65536 * 32768
  BY SMT DEF MontgomeryR
<1>2. /\ v \in Int /\ a \in Int /\ 0 <= v /\ v < 65536 * 65536
      /\ value = 65536 * 65536 * a + v
  BY SMT DEF MontgomeryR
<1>3. montgomery_reduce_element(value) = a - g
  BY DEF montgomery_reduce_element
<1> HIDE DEF v, a
<1>4. /\ u \in Int /\ b \in Int /\ 0 <= u /\ u < 65536 * 65536
      /\ v * 58728449 = 65536 * 65536 * b + u
  BY <1>2, SMT DEF MontgomeryR
<1> HIDE DEF u, b
<1>5. /\ k = u \/ k = u - 65536 * 65536
      /\ k \in Int /\ -(65536 * 32768) <= k /\ k < 65536 * 32768
  BY <1>1, <1>4, SMT DEF ToInt32
<1> HIDE DEF k
<1>6. \E c \in Int : k * 8380417 = 65536 * 65536 * c + v
  <2>1. PICK s \in Int : (s = 0 \/ s = 1) /\ k = u - 65536 * 65536 * s
    BY <1>4, <1>5, SMT
  <2>2. k * 8380417 = 65536 * 65536 * (v * 114592 - b * 8380417 - s * 8380417) + v
    BY <1>2, <1>4, <2>1, SMT
  <2>3. v * 114592 - b * 8380417 - s * 8380417 \in Int
    BY <1>2, <1>4, <2>1
  <2> QED
    BY <2>2, <2>3
<1>7. PICK c \in Int : k * 8380417 = 65536 * 65536 * c + v
  BY <1>6
<1>8. g = c
  BY <1>2, <1>5, <1>7, SMT DEF MontgomeryR, FIELD_MODULUS
<1> HIDE DEF g
<1>9. (a - g) * (65536 * 65536) = value - k * 8380417
  BY <1>2, <1>5, <1>7, <1>8, SMT
<1> QED
  BY <1>1, <1>2, <1>3, <1>5, <1>8, <1>9 DEF FIELD_MODULUS

-----------------------------------------------------------------------------
(* What a call absorbs determines the call.                                *)

(* Two sequences with the same elements are equal. *)
LEMMA SameSequence ==
    ASSUME NEW S, NEW s \in Seq(S), NEW t \in Seq(S),
           Len(s) = Len(t), \A i \in 1..Len(s) : s[i] = t[i]
    PROVE  s = t
  OBVIOUS

(* Concatenation, element by element. *)
LEMMA ConcatParts ==
    ASSUME NEW S, NEW a \in Seq(S), NEW b \in Seq(S)
    PROVE  /\ a \o b \in Seq(S)
           /\ Len(a \o b) = Len(a) + Len(b)
           /\ \A i \in 1..Len(a) : (a \o b)[i] = a[i]
           /\ \A i \in 1..Len(b) : (a \o b)[Len(a) + i] = b[i]
  OBVIOUS

(* A prefix of known length can be cancelled. *)
LEMMA ConcatCancels ==
    ASSUME NEW S, NEW a \in Seq(S), NEW b \in Seq(S),
           NEW c \in Seq(S), NEW d \in Seq(S),
           Len(a) = Len(c), a \o b = c \o d
    PROVE  a = c /\ b = d
<1>1. \A i \in 1..Len(a) : a[i] = c[i]
  BY ConcatParts
<1>2. Len(b) = Len(d)
  BY ConcatParts
<1>3. \A i \in 1..Len(b) : b[i] = d[i]
  <2> TAKE i \in 1..Len(b)
  <2>1. (a \o b)[Len(a) + i] = b[i]
    OBVIOUS
  <2>2. (c \o d)[Len(c) + i] = d[i]
    BY <1>2
  <2> QED
    BY <2>1, <2>2
<1>4. a = c
  BY <1>1, SameSequence
<1>5. b = d
  BY <1>2, <1>3, SameSequence
<1> QED
  BY <1>4, <1>5

(* The third element of a concatenation, that of its first part. *)
LEMMA ThirdOfConcat ==
    ASSUME NEW S, NEW h \in Seq(S), NEW c \in Seq(S), Len(h) >= 3
    PROVE  h \o c \in Seq(S) /\ Len(h \o c) = Len(h) + Len(c) /\ (h \o c)[3] = h[3]
  OBVIOUS

(* A one-byte and a two-byte string. *)
LEMMA ThreeBytes ==
    ASSUME NEW S, NEW o \in S, NEW p \in S, NEW l \in S
    PROVE  /\ <<o>> \o <<p, l>> \in Seq(S) /\ Len(<<o>> \o <<p, l>>) = 3
           /\ (<<o>> \o <<p, l>>)[2] = p /\ (<<o>> \o <<p, l>>)[3] = l
  OBVIOUS

(* The bytes before the context, and those after it. *)
Preface(call) == <<0>> \o <<IF call.prehash THEN 1 ELSE 0, Len(call.context) % 256>>
(* What a call absorbs after its context. *)
Rest(call) == IF call.prehash THEN Oid \o PreHashes[call.message] ELSE call.message

(* What is absorbed are bytes. *)
Bytes == 0..255

(* The parts of what a call absorbs are byte strings, and the length byte  *)
(* is the length of the context.                                           *)
LEMMA CallParts ==
    ASSUME NEW c \in Calls, Len(c.context) <= CONTEXT_MAX_LEN
    PROVE  /\ c = [context |-> c.context, message |-> c.message, prehash |-> c.prehash]
           /\ c.message \in Messages /\ c.prehash \in BOOLEAN
           /\ c.context \in Seq(Bytes)
           /\ Rest(c) \in Seq(Bytes)
           /\ Preface(c) \in Seq(Bytes) /\ Len(Preface(c)) = 3
           /\ Preface(c)[2] = (IF c.prehash THEN 1 ELSE 0)
           /\ Preface(c)[3] = Len(c.context)
<1>1. c.context \in Contexts /\ c.message \in Messages /\ c.prehash \in BOOLEAN
  BY DEF Calls
<1>2. /\ c.context \in Seq(Bytes) /\ c.message \in Seq(Bytes)
      /\ Oid \in Seq(Bytes) /\ PreHashes[c.message] \in Seq(Bytes)
  BY <1>1, BytesAssumption, ZenonT(30) DEF Bytes
<1>3. PICK l : l = Len(c.context)
  OBVIOUS
<1>4. l \in Nat /\ l <= 255
  <2>1. l \in Nat
    BY <1>2, <1>3
  <2>2. CONTEXT_MAX_LEN \in 0..255
    BY ParametersAssumption
  <2> QED
    BY <1>3, <2>1, <2>2
<1>5. l \in Bytes /\ l % 256 = l
  BY <1>4 DEF Bytes
<1>6. Rest(c) \in Seq(Bytes)
  BY <1>2, ConcatParts, Zenon DEF Rest
<1>7. PICK p \in Bytes : p = IF c.prehash THEN 1 ELSE 0
  BY DEF Bytes
<1>8. Preface(c) = <<0>> \o <<p, l>>
  BY <1>3, <1>5, <1>7, Zenon DEF Preface
<1>9. Preface(c) \in Seq(Bytes) /\ Len(Preface(c)) = 3 /\ Preface(c)[2] = p /\ Preface(c)[3] = l
  <2>1. 0 \in Bytes
    BY DEF Bytes
  <2>2. /\ <<0>> \o <<p, l>> \in Seq(Bytes) /\ Len(<<0>> \o <<p, l>>) = 3
        /\ (<<0>> \o <<p, l>>)[2] = p /\ (<<0>> \o <<p, l>>)[3] = l
    BY <1>5, <2>1, ThreeBytes
  <2> QED
    BY <1>8, <2>2, Zenon
<1>10. c = [context |-> c.context, message |-> c.message, prehash |-> c.prehash]
  BY DEF Calls
<1> QED
  BY <1>1, <1>2, <1>3, <1>6, <1>7, <1>9, <1>10, Zenon

(* Two calls absorb the same bytes only if they are the same call. *)
LEMMA RepresentativeInjective ==
    ASSUME NEW a \in Calls, NEW b \in Calls,
           Len(a.context) <= CONTEXT_MAX_LEN, Len(b.context) <= CONTEXT_MAX_LEN,
           MessageRepresentative(0, a) = MessageRepresentative(0, b)
    PROVE  a = b
<1>1. (Preface(a) \o a.context) \o Rest(a) = (Preface(b) \o b.context) \o Rest(b)
  BY Zenon DEF MessageRepresentative, Preface, Rest
<1>2. Preface(a) = Preface(b) /\ a.context = b.context /\ Rest(a) = Rest(b)
  <2>1. /\ Preface(a) \in Seq(Bytes) /\ a.context \in Seq(Bytes) /\ Rest(a) \in Seq(Bytes)
        /\ Len(Preface(a)) = 3 /\ Preface(a)[3] = Len(a.context)
    BY CallParts, Zenon
  <2>2. /\ Preface(b) \in Seq(Bytes) /\ b.context \in Seq(Bytes) /\ Rest(b) \in Seq(Bytes)
        /\ Len(Preface(b)) = 3 /\ Preface(b)[3] = Len(b.context)
    BY CallParts, Zenon
  <2>3. PICK f, g : f = Preface(a) \o a.context /\ g = Preface(b) \o b.context
    BY Zenon
  <2>4. f \o Rest(a) = g \o Rest(b)
    BY <1>1, <2>3, Zenon
  <2>5. Len(Preface(a)) >= 3 /\ Len(Preface(b)) >= 3
    BY <2>1, <2>2
  <2>6. f \in Seq(Bytes) /\ Len(f) = Len(Preface(a)) + Len(a.context) /\ f[3] = Preface(a)[3]
    BY <2>1, <2>3, <2>5, ThirdOfConcat, Zenon
  <2>7. g \in Seq(Bytes) /\ Len(g) = Len(Preface(b)) + Len(b.context) /\ g[3] = Preface(b)[3]
    BY <2>2, <2>3, <2>5, ThirdOfConcat, Zenon
  <2>8. Len(f) >= 3 /\ Len(g) >= 3
    BY <2>1, <2>2, <2>6, <2>7
  <2>9. (f \o Rest(a))[3] = f[3] /\ (g \o Rest(b))[3] = g[3]
    <3>1. (f \o Rest(a))[3] = f[3]
      BY <2>1, <2>6, <2>8, ThirdOfConcat, Zenon
    <3>2. (g \o Rest(b))[3] = g[3]
      BY <2>2, <2>7, <2>8, ThirdOfConcat, Zenon
    <3> QED
      BY <3>1, <3>2
  <2>10. Len(a.context) = Len(b.context)
    BY <2>1, <2>2, <2>4, <2>6, <2>7, <2>9, Zenon
  <2>11. Len(f) = Len(g) /\ Len(Preface(a)) = Len(Preface(b))
    BY <2>1, <2>2, <2>6, <2>7, <2>10, Zenon
  <2>12. f = g /\ Rest(a) = Rest(b)
    BY <2>1, <2>2, <2>4, <2>6, <2>7, <2>11, ConcatCancels, Zenon
  <2>13. Preface(a) = Preface(b) /\ a.context = b.context
    BY <2>1, <2>2, <2>3, <2>11, <2>12, ConcatCancels, ZenonT(30)
  <2> QED
    BY <2>12, <2>13
<1>3. a.prehash = b.prehash
  <2>1. (IF a.prehash THEN 1 ELSE 0) = (IF b.prehash THEN 1 ELSE 0)
    BY <1>2, CallParts
  <2>2. a.prehash \in BOOLEAN /\ b.prehash \in BOOLEAN
    BY CallParts
  <2> QED
    BY <2>1, <2>2
<1>4. a.message \in Messages /\ b.message \in Messages
  BY CallParts
<1>5. a.message = b.message
  <2>1. CASE a.prehash
    <3>1. Oid \o PreHashes[a.message] = Oid \o PreHashes[b.message]
      BY <1>2, <1>3, <2>1 DEF Rest
    <3>2. Oid \in Seq(Bytes) /\ PreHashes[a.message] \in Seq(Bytes)
          /\ PreHashes[b.message] \in Seq(Bytes)
      BY <1>4, BytesAssumption, Zenon DEF Bytes
    <3>3. PreHashes[a.message] = PreHashes[b.message]
      BY <3>1, <3>2, ConcatCancels, Zenon
    <3> QED
      BY <1>4, <3>3, BytesAssumption, Zenon
  <2>2. CASE ~a.prehash
    BY <1>2, <1>3, <2>2 DEF Rest
  <2> QED
    BY <2>1, <2>2
<1>6. /\ a = [context |-> a.context, message |-> a.message, prehash |-> a.prehash]
      /\ b = [context |-> b.context, message |-> b.message, prehash |-> b.prehash]
  BY CallParts
<1> QED
  BY <1>2, <1>3, <1>5, <1>6

-----------------------------------------------------------------------------
(* The signing loop, field by field.                                       *)

(* The fields of a signing loop. *)
Fields == {"call", "mu", "seed", "separator", "attempt", "mask", "w0", "w1", "z", "ct0"}

(* The fields of a turn that starts. *)
LEMMA TurnParts ==
    ASSUME NEW s, NEW t, t = Turn(s)
    PROVE  /\ Fields \subseteq DOMAIN t
           /\ t.call = s.call /\ t.mu = s.mu /\ t.seed = s.seed
           /\ t.separator = s.separator /\ t.attempt = s.attempt
           /\ t.mask = None /\ t.z = None
  BY DEF Turn, Fields

(* What SignCommit makes of a loop. *)
CommitsTo(s, mask, w0, w1, t) ==
    t = [SampleMaskVector(s) EXCEPT
            !.attempt = @ + 1, !.mask = mask, !.w0 = w0, !.w1 = w1]

(* The fields of a turn that has committed. *)
LEMMA CommitParts ==
    ASSUME NEW s, Fields \subseteq DOMAIN s, NEW mask, NEW w0, NEW w1,
           NEW t, CommitsTo(s, mask, w0, w1, t)
    PROVE  /\ Fields \subseteq DOMAIN t
           /\ t.call = s.call /\ t.mu = s.mu /\ t.seed = s.seed
           /\ t.separator = Separator(s, Columns + 1) /\ t.attempt = s.attempt + 1
           /\ t.mask = mask /\ t.w0 = w0 /\ t.w1 = w1 /\ t.z = s.z
<1>1. PICK p : p = Separator(s, Columns + 1)
  OBVIOUS
<1>2. PICK u : u = [s EXCEPT !.separator = p]
  BY Zenon
<1>3. /\ DOMAIN u = DOMAIN s /\ u.separator = p /\ u.attempt = s.attempt
      /\ u.call = s.call /\ u.mu = s.mu /\ u.seed = s.seed /\ u.z = s.z
  BY <1>2 DEF Fields
<1>4. PICK q : q = u.attempt + 1
  OBVIOUS
<1>5. t = [u EXCEPT !.attempt = q, !.mask = mask, !.w0 = w0, !.w1 = w1]
  BY <1>1, <1>2, <1>4 DEF SampleMaskVector, CommitsTo
<1>6. /\ DOMAIN t = DOMAIN u /\ t.separator = u.separator /\ t.attempt = q
      /\ t.call = u.call /\ t.mu = u.mu /\ t.seed = u.seed /\ t.z = u.z
      /\ t.mask = mask /\ t.w0 = w0 /\ t.w1 = w1
  BY <1>3, <1>5 DEF Fields
<1> QED
  BY <1>1, <1>3, <1>4, <1>6

(* The fields of a turn that has responded. *)
LEMMA RespondParts ==
    ASSUME NEW s, Fields \subseteq DOMAIN s, NEW z, NEW v, NEW ct0,
           NEW t, t = [s EXCEPT !.z = z, !.w0 = v, !.ct0 = ct0]
    PROVE  /\ Fields \subseteq DOMAIN t
           /\ t.call = s.call /\ t.mu = s.mu /\ t.seed = s.seed
           /\ t.separator = s.separator /\ t.attempt = s.attempt
           /\ t.mask = s.mask /\ t.w1 = s.w1
           /\ t.z = z /\ t.w0 = v /\ t.ct0 = ct0
  BY DEF Fields

-----------------------------------------------------------------------------
(* The numbering of the mask streams.                                      *)

(* Column c of attempt a, and column d of attempt b, among k columns. *)
SameNumber(k, a, c, b, d) == a * k + c = b * k + d

(* The columns of one attempt are numbered after those of the one before.  *)
LEMMA NumberingInjective ==
    ASSUME NEW k \in Nat, NEW a \in Nat, NEW b \in Nat, NEW c \in 1..k, NEW d \in 1..k,
           SameNumber(k, a, c, b, d)
    PROVE  a = b /\ c = d
<1>0. a * k + c = b * k + d
  BY DEF SameNumber
<1>1. ASSUME NEW x \in Nat, NEW y \in Nat, NEW u \in 1..k, NEW v \in 1..k,
             x < y
      PROVE  x * k + u < y * k + v
  <2>1. (x + 1) * k <= y * k
    <3>1. PICK e \in Nat : y = x + 1 + e
      BY <1>1
    <3>2. y * k = (x + 1) * k + e * k
      BY <3>1
    <3>3. e * k \in Nat
      BY <3>1
    <3> QED
      BY <3>2, <3>3
  <2>2. (x + 1) * k = x * k + k
    OBVIOUS
  <2> QED
    BY <2>1, <2>2
<1>2. ~(a < b)
  BY <1>0, <1>1
<1>3. ~(b < a)
  BY <1>0, <1>1
<1>4. a = b
  BY <1>2, <1>3
<1>5. a * k = b * k
  BY <1>4, Zenon
<1>6. a * k \in Int /\ b * k \in Int
  OBVIOUS
<1>7. c = d
  BY <1>0, <1>5, <1>6
<1> QED
  BY <1>4, <1>7

(* The counter of the streams does not wrap within the bounded loop. *)
LEMMA SeparatorExact ==
    ASSUME NEW a \in Nat, a < Bound, NEW j \in 1..Columns,
           NEW s, s.separator = (a * Columns) % (SeparatorMax + 1)
    PROVE  /\ Separator(s, j) = a * Columns + j - 1
           /\ Separator(s, Columns + 1) = ((a + 1) * Columns) % (SeparatorMax + 1)
<1>1. Columns \in Nat \ {0} /\ Bound \in Nat /\ SeparatorMax \in Nat
  BY ParametersAssumption
<1>2. PICK p \in Nat : p = a * Columns
  BY <1>1
<1>3. p + Columns <= SeparatorMax + 1
  <2>1. PICK e \in Nat : Bound = a + 1 + e
    BY <1>1
  <2>2. Bound * Columns = a * Columns + Columns + e * Columns
    BY <1>1, <2>1
  <2>3. e * Columns \in Nat
    BY <1>1, <2>1
  <2>4. PICK be \in Nat : be = Bound * Columns
    BY <1>1
  <2>5. be <= SeparatorMax + 1
    BY <2>4, SeparatorAssumption
  <2> QED
    BY <1>1, <1>2, <2>2, <2>3, <2>4, <2>5
<1>4. p % (SeparatorMax + 1) = p
  BY <1>1, <1>3
<1>5. s.separator = p
  BY <1>2, <1>4
<1>6. Separator(s, j) = (p + j - 1) % (SeparatorMax + 1)
  BY <1>5 DEF Separator
<1>7. (p + j - 1) % (SeparatorMax + 1) = p + j - 1
  BY <1>1, <1>3
<1>8. Separator(s, Columns + 1) = (p + Columns) % (SeparatorMax + 1)
  <2>1. p + (Columns + 1) - 1 = p + Columns
    BY <1>1
  <2> QED
    BY <1>5, <2>1 DEF Separator
<1>9. (a + 1) * Columns = p + Columns
  BY <1>1, <1>2
<1> QED
  BY <1>2, <1>6, <1>7, <1>8, <1>9

-----------------------------------------------------------------------------
(* Congruence and inner products.                                          *)

(* A row of the matrix, and what it is multiplied with. *)
Vector == [1..Columns -> Int]

(* Equal modulo the field modulus. *)
Congruent(a, b) == \E k \in Int : a = b + k * FIELD_MODULUS

(* Reduced gives the representative around zero. *)
LEMMA ReducedExact ==
    ASSUME NEW a \in Int
    PROVE  /\ Reduced(a) \in Int /\ Congruent(Reduced(a), a)
           /\ -4190208 <= Reduced(a) /\ Reduced(a) <= 4190208
<1> DEFINE r == a % 8380417
           k == a \div 8380417
<1>1. r \in Int /\ k \in Int /\ 0 <= r /\ r < 8380417 /\ a = 8380417 * k + r
  BY SMT
<1>4. Reduced(a) = IF r > 4190208 THEN r - 8380417 ELSE r
  <2>1. (8380417 - 1) \div 2 = 4190208
    BY SMT
  <2> QED
    BY <2>1, SMT DEF Reduced, FIELD_MODULUS
<1> HIDE DEF r, k
<1>5. CASE r > 4190208
  <2>1. Reduced(a) = a + (-k - 1) * 8380417 /\ -k - 1 \in Int
    BY <1>1, <1>4, <1>5, SMT
  <2>2. Congruent(Reduced(a), a)
    BY <2>1, SMT DEF Congruent, FIELD_MODULUS
  <2> QED
    BY <1>1, <1>4, <1>5, <2>2, SMT
<1>6. CASE ~(r > 4190208)
  <2>1. Reduced(a) = a + (-k) * 8380417 /\ -k \in Int
    BY <1>1, <1>4, <1>6, SMT
  <2>2. Congruent(Reduced(a), a)
    BY <2>1, SMT DEF Congruent, FIELD_MODULUS
  <2> QED
    BY <1>1, <1>4, <1>6, <2>2, SMT
<1> QED
  BY <1>5, <1>6, SMT

(* Linear modulo the field modulus: what the recomputed commitment rests   *)
(* on, an induction over the columns.                                      *)
InnerProductsLinear ==
    /\ \A u, v \in Vector : InnerProduct(u, v) \in Int
    /\ \A a, y, s, z \in Vector, c \in Int :
          (\A j \in 1..Columns : Congruent(z[j], y[j] + c * s[j])) =>
             Congruent(InnerProduct(a, z), InnerProduct(a, y) + c * InnerProduct(a, s))

-----------------------------------------------------------------------------
(* One coefficient of the commitment.                                      *)

(* One coefficient of what is computed from a row a of the matrix: t in    *)
(* two parts, the commitment w, the two corrections of the signer, and x   *)
(* from which verification recovers the commitment.                        *)
Computed(a, y, s, z, c, e, t, t0, t1, w, cs2, ct0, x) ==
    /\ \A j \in 1..Columns : z[j] = y[j] + Reduced(c * s[j])
    /\ t = Reduced(InnerProduct(a, s)) + e
    /\ t0 = power2round_element(t)[1] /\ t1 = power2round_element(t)[2]
    /\ w = Reduced(InnerProduct(a, y))
    /\ cs2 = Reduced(c * e) /\ ct0 = Reduced(c * t0)
    /\ x = Reduced(Reduced(InnerProduct(a, z))
                     - Reduced(c * barrett_reduce_element(t1 * LowerPartOfT)))

(* One coefficient of what verification recomputes differs from what the   *)
(* signer committed to by what the signer adds for the hint.               *)
LEMMA CoefficientCongruent ==
    ASSUME InnerProductsLinear,
           NEW a \in Vector, NEW y \in Vector, NEW s \in Vector, NEW z \in Vector,
           NEW c \in Int, NEW e \in Int, -4 <= e, e <= 4,
           NEW t, NEW t0, NEW t1, NEW w, NEW cs2, NEW ct0, NEW x,
           Computed(a, y, s, z, c, e, t, t0, t1, w, cs2, ct0, x)
    PROVE  /\ w \in Int /\ x \in Int /\ cs2 \in Int /\ ct0 \in Int
           /\ -FIELD_MODULUS < w /\ w < FIELD_MODULUS
           /\ -FIELD_MODULUS < x /\ x < FIELD_MODULUS
           /\ \E k \in Int : x = w - cs2 + ct0 + k * FIELD_MODULUS
<1>0. /\ \A j \in 1..Columns : z[j] = y[j] + Reduced(c * s[j])
      /\ t = Reduced(InnerProduct(a, s)) + e
      /\ t0 = power2round_element(t)[1] /\ t1 = power2round_element(t)[2]
      /\ w = Reduced(InnerProduct(a, y))
      /\ cs2 = Reduced(c * e) /\ ct0 = Reduced(c * t0)
      /\ x = Reduced(Reduced(InnerProduct(a, z))
                       - Reduced(c * barrett_reduce_element(t1 * LowerPartOfT)))
  BY Zenon DEF Computed
<1>1. \A j \in 1..Columns : Congruent(z[j], y[j] + c * s[j])
  <2> SUFFICES ASSUME NEW j \in 1..Columns
               PROVE  Congruent(z[j], y[j] + c * s[j])
    OBVIOUS
  <2>1. PICK yj \in Int, sj \in Int : yj = y[j] /\ sj = s[j]
    BY DEF Vector
  <2>2. PICK p \in Int : p = c * sj
    OBVIOUS
  <2>3. PICK r \in Int : r = Reduced(p)
    BY ReducedExact
  <2>4. PICK k \in Int : r = p + k * FIELD_MODULUS
    BY <2>3, ReducedExact DEF Congruent
  <2>5. z[j] = yj + r
    BY <1>0, <2>1, <2>2, <2>3
  <2>6. z[j] = (yj + p) + k * FIELD_MODULUS
    BY <2>4, <2>5 DEF FIELD_MODULUS
  <2> QED
    BY <2>1, <2>2, <2>6 DEF Congruent
<1>2. PICK iy \in Int, is \in Int, iz \in Int :
          /\ iy = InnerProduct(a, y) /\ is = InnerProduct(a, s) /\ iz = InnerProduct(a, z)
          /\ Congruent(iz, iy + c * is)
  <2>1. /\ InnerProduct(a, y) \in Int /\ InnerProduct(a, s) \in Int
        /\ InnerProduct(a, z) \in Int
        /\ Congruent(InnerProduct(a, z), InnerProduct(a, y) + c * InnerProduct(a, s))
    BY <1>1, Zenon DEF InnerProductsLinear
  <2> QED
    BY <2>1, Zenon
<1>3. PICK k1 \in Int : iz = iy + c * is + k1 * 8380417
  BY <1>2, SMT DEF Congruent, FIELD_MODULUS
<1>4. PICK rs \in Int, k2 \in Int :
          rs = Reduced(is) /\ rs = is + k2 * 8380417 /\ -4190208 <= rs /\ rs <= 4190208
  BY ReducedExact, SMT DEF Congruent, FIELD_MODULUS
<1>5. t = rs + e /\ t \in Int /\ -8380417 < t /\ t < 8380417
  BY <1>0, <1>2, <1>4, SMT
<1>6. /\ t1 \in Int /\ 0 <= t1 /\ t1 < 1024 /\ t0 \in Int
      /\ NonNegative(t) = t1 * 8192 + t0
  BY <1>0, <1>5, Power2RoundExact, SMT DEF FIELD_MODULUS, LowerPartOfT
<1>7. PICK k3 \in Int : t1 * 8192 + t0 = t + k3 * 8380417
  <2>1. NonNegative(t) = t + 1 * 8380417 \/ NonNegative(t) = t + 0 * 8380417
    BY <1>5, SMT DEF NonNegative, FIELD_MODULUS
  <2>2. PICK k \in {0, 1} : NonNegative(t) = t + k * 8380417
    BY <2>1, SMT
  <2>3. k \in Int /\ t1 * 8192 + t0 = t + k * 8380417
    BY <1>6, <2>2, SMT
  <2> QED
    BY <2>3, SMT
<1>8. PICK b \in Int, k4 \in Int :
          b = barrett_reduce_element(t1 * LowerPartOfT) /\ b = t1 * 8192 + k4 * 8380417
  <2>1. PICK fe \in Int : fe = t1 * 8192 /\ -2143289343 <= fe /\ fe <= 2143289343
    BY <1>6, SMT
  <2>2. PICK k \in Int : barrett_reduce_element(fe) = fe - k * FIELD_MODULUS
    BY <2>1, BarrettReduces, SMT
  <2>3. PICK l \in Int : l = -k
    BY SMT
  <2>4. PICK d \in Int : d = fe + l * 8380417
    BY SMT
  <2>5. barrett_reduce_element(fe) = d
    BY <2>2, <2>3, <2>4, SMT DEF FIELD_MODULUS
  <2>6. fe = t1 * LowerPartOfT
    BY <2>1, SMT DEF LowerPartOfT
  <2>7. d = barrett_reduce_element(t1 * LowerPartOfT)
    BY <2>5, <2>6, SMT
  <2>8. d = t1 * 8192 + l * 8380417
    BY <2>1, <2>4, SMT
  <2> QED
    BY <2>7, <2>8, SMT
<1>9. PICK rz \in Int, k5 \in Int : rz = Reduced(iz) /\ rz = iz + k5 * 8380417
  BY ReducedExact, SMT DEF Congruent, FIELD_MODULUS
<1>10. PICK cb \in Int, k6 \in Int : cb = Reduced(c * b) /\ cb = c * b + k6 * 8380417
  <2>1. PICK p \in Int : p = c * b
    BY SMT
  <2> QED
    BY <2>1, ReducedExact, SMT DEF Congruent, FIELD_MODULUS
<1>11. PICK k7 \in Int : /\ x \in Int /\ x = (rz - cb) + k7 * 8380417
                         /\ -4190208 <= x /\ x <= 4190208
  <2>1. PICK p \in Int : p = rz - cb
    BY SMT
  <2>2. x = Reduced(p)
    BY <1>0, <1>2, <1>8, <1>9, <1>10, <2>1, SMT
  <2> QED
    BY <2>1, <2>2, ReducedExact, SMT DEF Congruent, FIELD_MODULUS
<1>12. PICK k8 \in Int : /\ w \in Int /\ w = iy + k8 * 8380417
                         /\ -4190208 <= w /\ w <= 4190208
  BY <1>0, <1>2, ReducedExact, SMT DEF Congruent, FIELD_MODULUS
<1>13. PICK k9 \in Int : cs2 \in Int /\ cs2 = c * e + k9 * 8380417
  <2>1. PICK p \in Int : p = c * e
    BY SMT
  <2> QED
    BY <1>0, <2>1, ReducedExact, SMT DEF Congruent, FIELD_MODULUS
<1>14. PICK k10 \in Int : ct0 \in Int /\ ct0 = c * t0 + k10 * 8380417
  <2>1. PICK p \in Int : p = c * t0
    BY <1>6, SMT
  <2> QED
    BY <1>0, <2>1, ReducedExact, SMT DEF Congruent, FIELD_MODULUS
<1>15. PICK k \in Int : x = w - cs2 + ct0 + k * FIELD_MODULUS
  <2>1. c * b = c * (t + k3 * 8380417 - t0) + c * k4 * 8380417
    <3>1. b = (t + k3 * 8380417 - t0) + k4 * 8380417
      BY <1>5, <1>6, <1>7, <1>8, SMT
    <3> QED
      BY <1>5, <1>6, <3>1, SMT
  <2>2. c * (t + k3 * 8380417 - t0) = c * is + c * k2 * 8380417 + c * e + c * k3 * 8380417 - c * t0
    <3>1. t + k3 * 8380417 - t0 = is + k2 * 8380417 + e + k3 * 8380417 - t0
      BY <1>4, <1>5, <1>6, SMT
    <3> QED
      BY <1>6, <3>1, SMT
  <2>3. PICK cis \in Int, ck2 \in Int, ce \in Int, ck3 \in Int, ct \in Int, ck4 \in Int, cbb \in Int :
            /\ cis = c * is /\ ck2 = c * k2 /\ ce = c * e /\ ck3 = c * k3
            /\ ct = c * t0 /\ ck4 = c * k4 /\ cbb = c * b
    BY <1>6, SMT
  <2>4. cbb = cis + ck2 * 8380417 + ce + ck3 * 8380417 - ct + ck4 * 8380417
    BY <2>1, <2>2, <2>3, SMT
  <2>5. /\ iz = iy + cis + k1 * 8380417 /\ cb = cbb + k6 * 8380417
        /\ cs2 = ce + k9 * 8380417 /\ ct0 = ct + k10 * 8380417
    <3>1. iz = iy + cis + k1 * 8380417
      BY <1>3, <2>3, SMT
    <3>2. cb = cbb + k6 * 8380417
      BY <1>10, <2>3, SMT
    <3>3. cs2 = ce + k9 * 8380417
      BY <1>13, <2>3, SMT
    <3>4. ct0 = ct + k10 * 8380417
      BY <1>14, <2>3, SMT
    <3> QED
      BY <3>1, <3>2, <3>3, <3>4, SMT
  <2>6. PICK k \in Int : k = k1 + k5 - ck2 - ck3 - ck4 - k6 + k7 - k8 + k9 - k10
    BY SMT
  <2>7. x = w - cs2 + ct0 + k * 8380417
    BY <1>9, <1>11, <1>12, <2>4, <2>5, <2>6, SMT
  <2> QED
    BY <2>7, SMT DEF FIELD_MODULUS
<1> QED
  <2>1. -FIELD_MODULUS < w /\ w < FIELD_MODULUS /\ -FIELD_MODULUS < x /\ x < FIELD_MODULUS
    BY <1>11, <1>12, SMT DEF FIELD_MODULUS
  <2>2. w \in Int /\ x \in Int /\ cs2 \in Int /\ ct0 \in Int
    BY <1>11, <1>12, <1>13, <1>14, SMT
  <2> QED
    BY <1>15, <2>1, <2>2, SMT

(* One coefficient of what verification recomputes, with the hint for it.  *)
LEMMA CoefficientRecovered ==
    ASSUME NEW w \in Int, -FIELD_MODULUS < w, w < FIELD_MODULUS,
           NEW low, low = decompose_element(Gamma2, w)[1],
           NEW high, high = decompose_element(Gamma2, w)[2],
           NEW x \in Int, -FIELD_MODULUS < x, x < FIELD_MODULUS,
           NEW cs2 \in Int, NEW ct0 \in Int,
           \E k \in Int : x = w - cs2 + ct0 + k * FIELD_MODULUS,
           ~NormExceeds(low - cs2, Gamma2 - Beta), ~NormExceeds(ct0, Gamma2)
    PROVE  use_one_hint(Gamma2, x, compute_one_hint((low - cs2) + ct0, high, Gamma2)) = high
<1>1. Gamma2 \in GAMMA2S /\ Beta \in Nat
  BY ParametersAssumption, Zenon
<1>2. PICK k \in Int : x = w - cs2 + ct0 + k * FIELD_MODULUS
  OBVIOUS
<1> QED
  BY <1>1, <1>2, SignerHintRecovers, SMTT(30)

-----------------------------------------------------------------------------
(* The commitment.                                                         *)

(* What a matrix seed expands to. *)
Matrix == [1..Rows -> [1..Columns -> Int]]

(* Column n of a vector of ring elements: what a row of A is multiplied with. *)
Column(vector, n) == [j \in 1..Columns |-> vector[j][n]]

(* The entries of a product with the matrix. *)
LEMMA MatrixEntry ==
    ASSUME NEW A, NEW vector, NEW i \in 1..Rows, NEW n \in 1..N
    PROVE  MatrixTimes(A, vector)[i][n] = Reduced(InnerProduct(A[i], Column(vector, n)))
  BY DEF MatrixTimes, Column

(* Unpacking the low part of t undoes its packing. *)
LEMMA ChangeT0Inverse ==
    ASSUME NEW x \in Int
    PROVE  ChangeT0Interval(ChangeT0Interval(x)) = x
<1>1. ChangeT0Interval(x) = 4096 - x
  BY SMT DEF ChangeT0Interval, LowerPartOfT
<1>2. PICK y \in Int : y = 4096 - x
  BY SMT
<1>3. ChangeT0Interval(y) = 4096 - y
  BY SMT DEF ChangeT0Interval, LowerPartOfT
<1> QED
  BY <1>1, <1>2, <1>3, SMT

(* A column of a vector of polynomials is a vector of coefficients. *)
LEMMA ColumnVector ==
    ASSUME NEW m \in Vectors(Columns), NEW n \in 1..N
    PROVE  Column(m, n) \in Vector
  BY Zenon DEF Vector, Vectors, Column

(* The entries of the high part of t. *)
LEMMA HighEntry ==
    ASSUME NEW t, NEW t1, t1 = [i \in 1..Rows |-> [n \in 1..N |-> power2round_element(t[i][n])[2]]]
    PROVE  \A i \in 1..Rows, n \in 1..N : t1[i][n] = power2round_element(t[i][n])[2]
  OBVIOUS

(* A key, a mask and a challenge, and what signing computes of them. *)
Transcript(A, s1, s2, mask, c, t, t0, z, w, v, w1, ct0, hint) ==
    /\ A \in Matrix /\ s1 \in Vectors(Columns) /\ s2 \in Vectors(Rows)
    /\ \A i \in 1..Rows, n \in 1..N : s2[i][n] \in -4..4
    /\ mask \in Vectors(Columns) /\ c \in Int
    /\ t = Plus(MatrixTimes(A, s1), s2)
    /\ t0 = Map(t, LAMBDA x : ChangeT0Interval(power2round_element(x)[1]))
    /\ z = Plus(mask, Times(c, s1))
    /\ w = MatrixTimes(A, mask)
    /\ v = Minus(Map(w, LAMBDA x : decompose_element(Gamma2, x)[1]), Times(c, s2))
    /\ w1 = Map(w, LAMBDA x : decompose_element(Gamma2, x)[2])
    /\ ct0 = Times(c, Map(t0, ChangeT0Interval))
    /\ hint = MakeHint(Plus(v, ct0), w1)

(* What verification recomputes from a response that passed the checks is  *)
(* what the signer committed to.                                           *)
LEMMA CommitmentRecovered ==
    ASSUME InnerProductsLinear, NEW A, NEW s1, NEW s2, NEW mask, NEW c, NEW t, NEW t0, NEW z, NEW w,
           NEW v, NEW w1, NEW ct0, NEW hint,
           Transcript(A, s1, s2, mask, c, t, t0, z, w, v, w1, ct0, hint),
           key.A = A, key.t1 = Map(t, LAMBDA x : power2round_element(x)[2]),
           ~Exceeds(v, Gamma2 - Beta), ~Exceeds(ct0, Gamma2)
    PROVE  RecomputedCommitment(z, c, hint) = w1
<1>h. /\ A \in Matrix /\ s1 \in Vectors(Columns) /\ s2 \in Vectors(Rows)
      /\ \A i \in 1..Rows, n \in 1..N : s2[i][n] \in -4..4
      /\ mask \in Vectors(Columns) /\ c \in Int
      /\ t = Plus(MatrixTimes(A, s1), s2)
      /\ t0 = Map(t, LAMBDA x : ChangeT0Interval(power2round_element(x)[1]))
      /\ z = Plus(mask, Times(c, s1))
      /\ w = MatrixTimes(A, mask)
      /\ v = Minus(Map(w, LAMBDA x : decompose_element(Gamma2, x)[1]), Times(c, s2))
      /\ w1 = Map(w, LAMBDA x : decompose_element(Gamma2, x)[2])
      /\ ct0 = Times(c, Map(t0, ChangeT0Interval))
      /\ hint = MakeHint(Plus(v, ct0), w1)
  BY Zenon DEF Transcript
<1> USE <1>h
<1>0. PICK t1 : t1 = [i \in 1..Rows |-> [n \in 1..N |-> power2round_element(t[i][n])[2]]]
  BY Zenon
<1>7. \A i \in 1..Rows, n \in 1..N : t1[i][n] = power2round_element(t[i][n])[2]
  BY <1>0, HighEntry, Zenon
<1>1. \A i \in 1..Rows, n \in 1..N :
          /\ RecomputedCommitment(z, c, hint)[i][n]
                = use_one_hint(Gamma2,
                      Reduced(MatrixTimes(A, z)[i][n]
                                - Reduced(c * barrett_reduce_element(t1[i][n] * LowerPartOfT))),
                      hint[i][n])
  <2>1. DOMAIN MatrixTimes(A, z) = 1..Rows /\ DOMAIN t1 = 1..Rows
    BY <1>0, Zenon DEF MatrixTimes
  <2>2. DOMAIN t = 1..Rows
    BY Zenon DEF Plus, MatrixTimes
  <2>3. key.t1 = t1
    BY <1>0, <2>2, Zenon DEF Map
  <2> QED
    BY <2>1, <2>3, Zenon DEF RecomputedCommitment, Minus, Times, Map
<1>2. DOMAIN w = 1..Rows /\ DOMAIN t = 1..Rows /\ DOMAIN t0 = 1..Rows
      /\ DOMAIN v = 1..Rows /\ DOMAIN ct0 = 1..Rows /\ DOMAIN z = 1..Columns
  BY Zenon DEF MatrixTimes, Plus, Minus, Map, Times, Vectors
<1>3. \A i \in 1..Rows, n \in 1..N : w1[i][n] = decompose_element(Gamma2, w[i][n])[2]
  BY <1>2, Zenon DEF Map
<1>4. \A i \in 1..Rows, n \in 1..N :
          v[i][n] = decompose_element(Gamma2, w[i][n])[1] - Reduced(c * s2[i][n])
  BY <1>2, Zenon DEF Map, Minus, Times, Vectors
<1>5. \A i \in 1..Rows, n \in 1..N : t[i][n] = MatrixTimes(A, s1)[i][n] + s2[i][n]
  BY <1>2, Zenon DEF Plus, MatrixTimes
<1>6. \A i \in 1..Rows, n \in 1..N :
          ct0[i][n] = Reduced(c * ChangeT0Interval(ChangeT0Interval(power2round_element(t[i][n])[1])))
  BY <1>2, Zenon DEF Map, Times
<1>8. \A j \in 1..Columns, n \in 1..N : z[j][n] = mask[j][n] + Reduced(c * s1[j][n])
  BY Zenon DEF Plus, Times, Vectors
<1>9. \A i \in 1..Rows, n \in 1..N :
          hint[i][n] = compute_one_hint(v[i][n] + ct0[i][n], w1[i][n], Gamma2)
  BY <1>2, Zenon DEF MakeHint, Plus
<1>10. \A i \in 1..Rows, n \in 1..N :
          ~NormExceeds(v[i][n], Gamma2 - Beta) /\ ~NormExceeds(ct0[i][n], Gamma2)
  BY <1>2, Zenon DEF Exceeds
<1>11. ASSUME NEW i \in 1..Rows, NEW n \in 1..N
       PROVE  RecomputedCommitment(z, c, hint)[i][n] = w1[i][n]
  <2>1. PICK a : a = A[i]
    OBVIOUS
  <2>2. PICK y, s, zz : y = Column(mask, n) /\ s = Column(s1, n) /\ zz = Column(z, n)
    OBVIOUS
  <2>3. a \in Vector /\ y \in Vector /\ s \in Vector
    <3>1. a \in Vector
      BY <2>1 DEF Matrix, Vector
    <3>2. y \in Vector
      BY <2>2, ColumnVector
    <3>3. s \in Vector
      BY <2>2, ColumnVector
    <3> QED
      BY <3>1, <3>2, <3>3
  <2>4. \A j \in 1..Columns : zz[j] = y[j] + Reduced(c * s[j])
    BY <1>8, <2>2 DEF Column
  <2>5. zz \in Vector
    <3>1. \A j \in 1..Columns : zz[j] \in Int
      <4> TAKE j \in 1..Columns
      <4>1. y[j] \in Int /\ s[j] \in Int
        BY <2>3 DEF Vector
      <4>2. PICK p \in Int : p = c * s[j]
        BY <4>1
      <4>3. Reduced(p) \in Int
        BY ReducedExact
      <4> QED
        BY <2>4, <4>1, <4>2, <4>3
    <3>2. zz = [j \in 1..Columns |-> zz[j]]
      BY <2>2 DEF Column
    <3> QED
      BY <3>1, <3>2 DEF Vector
  <2>6. PICK e \in Int : e = s2[i][n] /\ -4 <= e /\ e <= 4
    BY DEF Vectors
  <2>7. PICK tc : tc = t[i][n] /\ tc = Reduced(InnerProduct(a, s)) + e
    BY <1>5, <2>1, <2>2, <2>6, MatrixEntry
  <2>8. PICK tl, th : tl = power2round_element(tc)[1] /\ th = power2round_element(tc)[2]
    OBVIOUS
  <2>9. PICK wc : wc = w[i][n] /\ wc = Reduced(InnerProduct(a, y))
    BY <2>1, <2>2, MatrixEntry
  <2>10. PICK cs : cs = Reduced(c * e)
    OBVIOUS
  <2>11. PICK cl : cl = Reduced(c * tl)
    OBVIOUS
  <2>12. PICK x : x = Reduced(Reduced(InnerProduct(a, zz))
                                - Reduced(c * barrett_reduce_element(th * LowerPartOfT)))
    OBVIOUS
  <2>13. /\ wc \in Int /\ x \in Int /\ cs \in Int /\ cl \in Int
         /\ -FIELD_MODULUS < wc /\ wc < FIELD_MODULUS
         /\ -FIELD_MODULUS < x /\ x < FIELD_MODULUS
         /\ \E k \in Int : x = wc - cs + cl + k * FIELD_MODULUS
    <3>1. Computed(a, y, s, zz, c, e, tc, tl, th, wc, cs, cl, x)
      BY <2>4, <2>7, <2>8, <2>9, <2>10, <2>11, <2>12, Zenon DEF Computed
    <3> QED
      BY <2>3, <2>5, <2>6, <3>1, CoefficientCongruent
  <2>14. PICK low, high : low = decompose_element(Gamma2, wc)[1]
                          /\ high = decompose_element(Gamma2, wc)[2]
    OBVIOUS
  <2>15. w1[i][n] = high /\ v[i][n] = low - cs
    BY <1>3, <1>4, <2>6, <2>9, <2>10, <2>14, Zenon
  <2>16. ct0[i][n] = cl
    <3>1. tl \in Int
      <4>1. tc \in Int /\ -FIELD_MODULUS < tc /\ tc < FIELD_MODULUS
        <5>1. InnerProduct(a, s) \in Int
          BY <2>3, Zenon DEF InnerProductsLinear
        <5> QED
          BY <2>6, <2>7, <5>1, ReducedExact, SMT DEF FIELD_MODULUS
      <4> QED
        BY <2>8, <4>1, Power2RoundExact
    <3>2. ChangeT0Interval(ChangeT0Interval(tl)) = tl
      BY <3>1, ChangeT0Inverse
    <3> QED
      BY <1>6, <2>7, <2>8, <2>11, <3>2, ZenonT(30)
  <2>17. RecomputedCommitment(z, c, hint)[i][n] = use_one_hint(Gamma2, x, hint[i][n])
    <3>1. MatrixTimes(A, z)[i][n] = Reduced(InnerProduct(a, zz))
      BY <2>1, <2>2, MatrixEntry
    <3>2. t1[i][n] = th
      BY <1>7, <2>7, <2>8, Zenon
    <3>3. RecomputedCommitment(z, c, hint)[i][n]
            = use_one_hint(Gamma2,
                  Reduced(MatrixTimes(A, z)[i][n]
                            - Reduced(c * barrett_reduce_element(t1[i][n] * LowerPartOfT))),
                  hint[i][n])
      BY <1>1, Zenon
    <3>4. Reduced(MatrixTimes(A, z)[i][n]
                    - Reduced(c * barrett_reduce_element(t1[i][n] * LowerPartOfT))) = x
      BY <2>12, <3>1, <3>2
    <3> QED
      BY <3>3, <3>4, Zenon
  <2>18. hint[i][n] = compute_one_hint((low - cs) + cl, high, Gamma2)
    BY <1>9, <2>15, <2>16, ZenonT(30)
  <2>19. ~NormExceeds(low - cs, Gamma2 - Beta) /\ ~NormExceeds(cl, Gamma2)
    BY <1>10, <2>15, <2>16, Zenon
  <2> QED
    BY <2>13, <2>14, <2>15, <2>17, <2>18, <2>19, CoefficientRecovered
<1>12. /\ RecomputedCommitment(z, c, hint)
            = [i \in 1..Rows |-> [n \in 1..N |-> RecomputedCommitment(z, c, hint)[i][n]]]
       /\ w1 = [i \in 1..Rows |-> [n \in 1..N |-> w1[i][n]]]
  BY <1>2, Zenon DEF RecomputedCommitment, Map
<1>13. \A i \in 1..Rows :
           [n \in 1..N |-> RecomputedCommitment(z, c, hint)[i][n]] = [n \in 1..N |-> w1[i][n]]
  BY <1>11, Zenon
<1>14. [i \in 1..Rows |-> [n \in 1..N |-> RecomputedCommitment(z, c, hint)[i][n]]]
         = [i \in 1..Rows |-> [n \in 1..N |-> w1[i][n]]]
  BY <1>13, Zenon
<1> QED
  BY <1>12, <1>14, Zenon

-----------------------------------------------------------------------------
(* The encoding of hints, and verification of a given key and challenge.   *)

(* The hints that make_hint makes. *)
Hints == [1..Rows -> [1..N -> {0, 1}]]

(* What deserialize is given: indices, then the counts. *)
HintBytes(b) ==
    /\ b \in Seq(Int) /\ Len(b) = MaxOnesInHint + Rows
    /\ \A p \in 1..MaxOnesInHint : b[p] \in 0..(N - 1)
    /\ \A i \in 1..Rows : b[MaxOnesInHint + i] \in Nat

(* What it accepts. *)
WellFormed(b) == HintBytes(b) /\ ~MalformedHint(b)

(* The encoding of hints: serialize and deserialize are inverse to each    *)
(* other on the hints that signing returns and on what is accepted.        *)
HintCodec ==
    /\ \A hint \in Hints :
          OnesUpTo(hint, Rows) <= MaxOnesInHint =>
             /\ ~MalformedHint(HintSerialize(hint))
             /\ HintDeserialize(HintSerialize(hint)) = hint
    /\ \A b : WellFormed(b) => b = HintSerialize(HintDeserialize(b))

(* RecomputedCommitment and VerifyCode, of a given key and challenge. *)
Recovered(k, z, c, hint) ==
    LET t1 == Map(k.t1, LAMBDA x : barrett_reduce_element(x * LowerPartOfT))
        w  == Minus(MatrixTimes(k.A, z), Times(c, t1))
    IN  [i \in 1..Rows |-> [n \in 1..N |->
            use_one_hint(Gamma2, Reduced(w[i][n]), hint[i][n])]]

(* The outcome of verification for a given key and challenge. *)
Outcome(k, c, call, sig) ==
    LET z  == Map(sig.z, Gamma1Deserialize)
        w1 == Recovered(k, z, c, HintDeserialize(sig.hint))
    IN  IF Len(call.context) > CONTEXT_MAX_LEN THEN "VerificationContextTooLongError"
        ELSE IF MalformedHint(sig.hint) THEN "MalformedHintError"
        ELSE IF Exceeds(z, Gamma1 - Beta) THEN "SignerResponseExceedsBoundError"
        ELSE IF sig.hash = [mu |-> MessageRepresentative(0, call), w1 |-> w1]
        THEN "Ok" ELSE "CommitmentHashesDontMatchError"

(* Outcome is what verification returns. *)
LEMMA OutcomeIsVerifyCode ==
    ASSUME NEW call, NEW sig
    PROVE  VerifyCode(call, sig) = Outcome(key, oracle[sig.hash], call, sig)
  BY DEF VerifyCode, Outcome, RecomputedCommitment, Recovered

(* Recovered is the commitment that verification recomputes. *)
LEMMA RecoveredIsRecomputed ==
    ASSUME NEW z, NEW c, NEW hint
    PROVE  Recovered(key, z, c, hint) = RecomputedCommitment(z, c, hint)
  BY Zenon DEF RecomputedCommitment, Recovered

(* A commitment hash made for a call. *)
HashFor(call, hash) == \E w1 : hash = [mu |-> MessageRepresentative(0, call), w1 |-> w1]

(* What an outcome of "Ok" says. *)
LEMMA OutcomeOk ==
    ASSUME NEW k, NEW c, NEW call, NEW sig, Outcome(k, c, call, sig) = "Ok"
    PROVE  /\ ~(Len(call.context) > CONTEXT_MAX_LEN)
           /\ ~MalformedHint(sig.hint)
           /\ HashFor(call, sig.hash)
<1>1. PICK z : z = Map(sig.z, Gamma1Deserialize)
  OBVIOUS
<1>2. PICK w1 : w1 = Recovered(k, z, c, HintDeserialize(sig.hint))
  OBVIOUS
<1>3. Outcome(k, c, call, sig)
         = IF Len(call.context) > CONTEXT_MAX_LEN THEN "VerificationContextTooLongError"
           ELSE IF MalformedHint(sig.hint) THEN "MalformedHintError"
           ELSE IF Exceeds(z, Gamma1 - Beta) THEN "SignerResponseExceedsBoundError"
           ELSE IF sig.hash = [mu |-> MessageRepresentative(0, call), w1 |-> w1]
           THEN "Ok" ELSE "CommitmentHashesDontMatchError"
  BY <1>1, <1>2, Zenon DEF Outcome
<1> QED
  BY <1>3, Zenon DEF HashFor

(* A response within its bound survives its encoding. *)
LEMMA ResponseDecodes ==
    ASSUME NEW z \in Vectors(Columns), ~Exceeds(z, Gamma1 - Beta)
    PROVE  Map(Map(z, Gamma1Serialize), Gamma1Deserialize) = z
<1>1. Gamma1 \in Nat \ {0} /\ Beta \in Nat /\ DOMAIN z = 1..Columns
  BY ParametersAssumption DEF Vectors
<1>2. ASSUME NEW i \in 1..Columns, NEW n \in 1..N
      PROVE  Gamma1Deserialize(Gamma1Serialize(z[i][n])) = z[i][n]
  <2>1. PICK x \in Int : x = z[i][n]
    BY Zenon DEF Vectors
  <2>2. ~NormExceeds(x, Gamma1 - Beta)
    BY <1>1, <2>1 DEF Exceeds
  <2>3. PICK g \in Nat \ {0} : g = Gamma1
    BY <1>1
  <2>4. -g < x /\ x < g
    BY <1>1, <2>2, <2>3 DEF NormExceeds
  <2>5. (g - x) % (2 * g) = g - x
    BY <2>4
  <2> QED
    BY <2>1, <2>3, <2>5 DEF Gamma1Serialize, Gamma1Deserialize
<1>3. Map(Map(z, Gamma1Serialize), Gamma1Deserialize)
         = [i \in 1..Columns |-> [n \in 1..N |->
               Gamma1Deserialize(Gamma1Serialize(z[i][n]))]]
  BY <1>1, Zenon DEF Map
<1>4. z = [i \in 1..Columns |-> [n \in 1..N |-> z[i][n]]]
  BY Zenon DEF Vectors
<1> QED
  BY <1>2, <1>3, <1>4, Zenon

(* What signing computes is a hint. *)
LEMMA MakeHintType ==
    ASSUME NEW low, NEW high
    PROVE  MakeHint(low, high) \in Hints
<1>1. \A i \in 1..Rows, n \in 1..N :
          compute_one_hint(low[i][n], high[i][n], Gamma2) \in {0, 1}
  BY DEF compute_one_hint
<1> QED
  BY <1>1 DEF MakeHint, Hints

-----------------------------------------------------------------------------
(* A response that passes the checks of signing verifies.                  *)

(* A call that sign does not refuse. *)
CallOk(c) == c \in Calls /\ Len(c.context) <= CONTEXT_MAX_LEN

(* A key as generate_key_pair makes it. *)
Generated(k) ==
    \E A, s1, s2, t :
        /\ A \in Matrix /\ s1 \in Vectors(Columns) /\ s2 \in Vectors(Rows)
        /\ \A i \in 1..Rows, n \in 1..N : s2[i][n] \in -4..4
        /\ t = Plus(MatrixTimes(A, s1), s2)
        /\ k.A = A /\ k.s1 = s1 /\ k.s2 = s2
        /\ k.t0 = Map(t, LAMBDA x : ChangeT0Interval(power2round_element(x)[1]))
        /\ k.t1 = Map(t, LAMBDA x : power2round_element(x)[2])

(* What belongs to the call in a signing loop, and to the count of turns.  *)
Running(s) ==
    /\ Fields \subseteq DOMAIN s
    /\ CallOk(s.call) /\ s.mu = MessageRepresentative(0, s.call)
    /\ \E r : s.seed = <<r, s.mu>>
    /\ s.attempt \in 0..Bound
    /\ s.separator = (s.attempt * Columns) % (SeparatorMax + 1)
    /\ s.mask = None => s.z = None

(* What it has committed to. *)
Committed(k, s) ==
    \E mask, w :
        /\ mask \in Vectors(Columns)
        /\ s.mask = mask
        /\ w = MatrixTimes(k.A, mask)
        /\ s.w0 = Map(w, LAMBDA x : decompose_element(Gamma2, x)[1])
        /\ s.w1 = Map(w, LAMBDA x : decompose_element(Gamma2, x)[2])

(* What it has responded with, to the challenge for its commitment. *)
Answer(k, c, s) ==
    \E mask, w :
        /\ mask \in Vectors(Columns)
        /\ w = MatrixTimes(k.A, mask)
        /\ s.w1 = Map(w, LAMBDA x : decompose_element(Gamma2, x)[2])
        /\ s.z = Plus(mask, Times(c, k.s1))
        /\ s.w0 = Minus(Map(w, LAMBDA x : decompose_element(Gamma2, x)[1]),
                        Times(c, k.s2))
        /\ s.ct0 = Times(c, Map(k.t0, ChangeT0Interval))

(* Its response answers the challenge of its commitment hash. *)
Responded(k, o, s) ==
    /\ [mu |-> s.mu, w1 |-> s.w1] \in DOMAIN o
    /\ Answer(k, o[[mu |-> s.mu, w1 |-> s.w1]], s)

(* A product is an integer. *)
LEMMA ReducedInt ==
    ASSUME NEW a \in Int
    PROVE  Reduced(a) \in Int
  BY ReducedExact, SMT

(* A sum of a mask and a product is a vector, so it is not None. *)
LEMMA ResponseType ==
    ASSUME NEW mask \in Vectors(Columns), NEW s1 \in Vectors(Columns), NEW c \in Int
    PROVE  Plus(mask, Times(c, s1)) \in Vectors(Columns)
<1>1. \A i \in 1..Columns, n \in 1..N : mask[i][n] \in Int /\ s1[i][n] \in Int
  BY Zenon DEF Vectors
<1>2. DOMAIN mask = 1..Columns /\ DOMAIN s1 = 1..Columns
  BY DEF Vectors
<1>3. \A i \in 1..Columns, n \in 1..N : Reduced(c * s1[i][n]) \in Int
  <2> TAKE i \in 1..Columns, n \in 1..N
  <2>1. PICK x \in Int : x = c * s1[i][n]
    BY <1>1
  <2> QED
    BY <2>1, ReducedInt, Zenon
<1>4. Plus(mask, Times(c, s1))
        = [i \in 1..Columns |-> [n \in 1..N |-> mask[i][n] + Reduced(c * s1[i][n])]]
  BY <1>2 DEF Plus, Times
<1>5. \A i \in 1..Columns, n \in 1..N : mask[i][n] + Reduced(c * s1[i][n]) \in Int
  BY <1>1, <1>3
<1> QED
  BY <1>4, <1>5 DEF Vectors

(* The signature of a loop whose response passed the checks. *)
Returned(s, hint, hash, sig) ==
    /\ hint = MakeHint(Plus(s.w0, s.ct0), s.w1) /\ Accepted(s, hint)
    /\ hash = [mu |-> s.mu, w1 |-> s.w1]
    /\ sig = SerializeSignature(hash, s.z, hint)

(* A signature of which verification says "Ok". *)
Verifies(k, c, call, hash, sig) ==
    /\ "hint" \in DOMAIN sig /\ sig.hash = hash
    /\ Outcome(k, c, call, sig) = "Ok"

(* The fields of an encoded signature. *)
LEMMA SignatureFields ==
    ASSUME NEW hash, NEW z, NEW hint
    PROVE  /\ SerializeSignature(hash, z, hint).hash = hash
           /\ SerializeSignature(hash, z, hint).z = Map(z, Gamma1Serialize)
           /\ SerializeSignature(hash, z, hint).hint = HintSerialize(hint)
           /\ "hint" \in DOMAIN SerializeSignature(hash, z, hint)
  BY DEF SerializeSignature

(* A response that passed the checks verifies. *)
LEMMA AnswerVerifies ==
    ASSUME InnerProductsLinear, HintCodec,
           NEW s, NEW c \in Int, Generated(key), Answer(key, c, s),
           CallOk(s.call), s.mu = MessageRepresentative(0, s.call),
           NEW hint, NEW hash, NEW sig, Returned(s, hint, hash, sig)
    PROVE  Verifies(key, c, s.call, hash, sig)
<1>h. /\ hint = MakeHint(Plus(s.w0, s.ct0), s.w1) /\ Accepted(s, hint)
      /\ hash = [mu |-> s.mu, w1 |-> s.w1]
      /\ sig = SerializeSignature(hash, s.z, hint)
  BY Zenon DEF Returned
<1> USE <1>h
<1>1. PICK A, s1, s2, t :
        /\ A \in Matrix /\ s1 \in Vectors(Columns) /\ s2 \in Vectors(Rows)
        /\ \A i \in 1..Rows, n \in 1..N : s2[i][n] \in -4..4
        /\ t = Plus(MatrixTimes(A, s1), s2)
        /\ key.A = A /\ key.s1 = s1 /\ key.s2 = s2
        /\ key.t0 = Map(t, LAMBDA x : ChangeT0Interval(power2round_element(x)[1]))
        /\ key.t1 = Map(t, LAMBDA x : power2round_element(x)[2])
  BY Zenon DEF Generated
<1>2. PICK mask, w :
        /\ mask \in Vectors(Columns)
        /\ w = MatrixTimes(A, mask)
        /\ s.w1 = Map(w, LAMBDA x : decompose_element(Gamma2, x)[2])
        /\ s.z = Plus(mask, Times(c, s1))
        /\ s.w0 = Minus(Map(w, LAMBDA x : decompose_element(Gamma2, x)[1]),
                        Times(c, s2))
        /\ s.ct0 = Times(c, Map(key.t0, ChangeT0Interval))
  BY <1>1, Zenon DEF Answer
<1>3. PICK t0 : t0 = key.t0
  OBVIOUS
<1>4. PICK z, v, w1, ct0 : z = s.z /\ v = s.w0 /\ w1 = s.w1 /\ ct0 = s.ct0
  OBVIOUS
<1>5. /\ ~Exceeds(z, Gamma1 - Beta) /\ ~Exceeds(v, Gamma2 - Beta) /\ ~Exceeds(ct0, Gamma2)
      /\ OnesUpTo(hint, Rows) <= MaxOnesInHint
  BY <1>4, Zenon DEF Accepted
<1>6. RecomputedCommitment(z, c, hint) = w1
  <2>1. /\ t0 = Map(t, LAMBDA x : ChangeT0Interval(power2round_element(x)[1]))
        /\ z = Plus(mask, Times(c, s1))
        /\ v = Minus(Map(w, LAMBDA x : decompose_element(Gamma2, x)[1]), Times(c, s2))
        /\ w1 = Map(w, LAMBDA x : decompose_element(Gamma2, x)[2])
        /\ ct0 = Times(c, Map(t0, ChangeT0Interval))
        /\ hint = MakeHint(Plus(v, ct0), w1)
    BY <1>1, <1>2, <1>3, <1>4, Zenon
  <2>2. Transcript(A, s1, s2, mask, c, t, t0, z, w, v, w1, ct0, hint)
    BY <1>1, <1>2, <2>1, Zenon DEF Transcript
  <2> QED
    BY <1>1, <1>5, <2>2, CommitmentRecovered, Zenon
<1>7. hint \in Hints
  BY MakeHintType, Zenon
<1>8. PICK bytes : bytes = HintSerialize(hint)
  OBVIOUS
<1>10. ~MalformedHint(bytes) /\ HintDeserialize(bytes) = hint
  BY <1>5, <1>7, <1>8, Zenon DEF HintCodec
<1>11. z \in Vectors(Columns)
  <2>1. mask \in Vectors(Columns) /\ s1 \in Vectors(Columns) /\ z = Plus(mask, Times(c, s1))
    BY <1>1, <1>2, <1>4, Zenon
  <2>2. c \in Int
    BY Zenon
  <2> QED
    BY <2>1, <2>2, ResponseType, Zenon
<1>12. Map(Map(z, Gamma1Serialize), Gamma1Deserialize) = z
  BY <1>5, <1>11, ResponseDecodes, ZenonT(30)
<1>15. /\ sig.hash = hash /\ sig.z = Map(z, Gamma1Serialize) /\ sig.hint = bytes
       /\ "hint" \in DOMAIN sig
  <2>1. sig = SerializeSignature(hash, z, hint)
    BY <1>4, Zenon
  <2>2. /\ SerializeSignature(hash, z, hint).hash = hash
        /\ SerializeSignature(hash, z, hint).z = Map(z, Gamma1Serialize)
        /\ SerializeSignature(hash, z, hint).hint = HintSerialize(hint)
        /\ "hint" \in DOMAIN SerializeSignature(hash, z, hint)
    BY ONLY SignatureFields
  <2>3. sig.hash = hash
    BY <2>1, <2>2, Zenon
  <2>4. sig.z = Map(z, Gamma1Serialize)
    BY <2>1, <2>2, Zenon
  <2>5. sig.hint = bytes
    BY <1>8, <2>1, <2>2, Zenon
  <2>6. "hint" \in DOMAIN sig
    BY <2>1, <2>2, Zenon
  <2> QED
    BY <2>3, <2>4, <2>5, <2>6, Zenon
<1>16. Map(sig.z, Gamma1Deserialize) = z
  BY <1>12, <1>15, Zenon
<1>17. Recovered(key, z, c, HintDeserialize(sig.hint)) = w1
  BY <1>6, <1>10, <1>15, RecoveredIsRecomputed, Zenon
<1>18. hash = [mu |-> MessageRepresentative(0, s.call), w1 |-> w1]
  BY <1>4
<1>19. ~(Len(s.call.context) > CONTEXT_MAX_LEN)
  <2>1. Len(s.call.context) <= CONTEXT_MAX_LEN /\ s.call.context \in Seq(0..255)
    BY BytesAssumption, Zenon DEF CallOk, Calls
  <2>2. CONTEXT_MAX_LEN \in Nat /\ Len(s.call.context) \in Nat
    BY <2>1, ParametersAssumption
  <2> QED
    BY <2>1, <2>2
<1>20. Outcome(key, c, s.call, sig) = "Ok"
  BY <1>5, <1>10, <1>15, <1>16, <1>17, <1>18, <1>19, Zenon DEF Outcome
<1> QED
  BY <1>15, <1>20, Zenon DEF Verifies

-----------------------------------------------------------------------------
(* The invariant of signing.                                               *)

(* A stream that was read. *)
Read(x) ==
    /\ CallOk(x.call)
    /\ \E r : x.seed = <<r, MessageRepresentative(0, x.call)>>
    /\ x.attempt \in 1..Bound /\ x.column \in 1..Columns
    /\ x.separator = (x.attempt - 1) * Columns + x.column - 1

(* A signature that was returned. *)
Verified(k, o, x) ==
    /\ CallOk(x.call) /\ "hint" \in DOMAIN x.sig /\ x.sig.hash \in DOMAIN o
    /\ Outcome(k, o[x.sig.hash], x.call, x.sig) = "Ok"

(* A signing loop, wherever it is. *)
InSigning(k, o, s) ==
    /\ Running(s)
    /\ s.mask # None /\ s.z = None => Committed(k, s)
    /\ s.z # None => Responded(k, o, s)

(* The inductive invariant.                                                *)
SigningInv ==
    /\ key # None => Generated(key)
    /\ signing # None => key # None /\ InSigning(key, oracle, signing)
    /\ \A h \in DOMAIN oracle : oracle[h] \in Int
    /\ \A x \in streams : Read(x)
    /\ \A x \in signed : key # None /\ Verified(key, oracle, x)

(* A key pair that is generated. *)
LEMMA GenerateStep ==
    ASSUME SigningInv, NEW A \in Matrices, NEW s \in Secrets, GenerateKeyPair(A, s)
    PROVE  SigningInv'
<1>1. /\ key = None /\ signing = None /\ signed = {}
      /\ signing' = signing /\ signed' = signed /\ oracle' = oracle
      /\ streams' = streams
  <2>1. key = None /\ signing' = signing /\ signed' = signed /\ oracle' = oracle
        /\ streams' = streams
    BY DEF GenerateKeyPair
  <2> QED
    BY <2>1 DEF SigningInv
<1>2. PICK t : t = Plus(MatrixTimes(A, s.s1), s.s2)
  OBVIOUS
<1>3. PICK t0, t1 :
        /\ t0 = Map(t, LAMBDA x : ChangeT0Interval(power2round_element(x)[1]))
        /\ t1 = Map(t, LAMBDA x : power2round_element(x)[2])
  BY Zenon
<1>4. PICK k : k = key'
  OBVIOUS
<1>5. k = [A |-> A, s1 |-> s.s1, s2 |-> s.s2, t0 |-> t0, t1 |-> t1]
  BY <1>2, <1>3, <1>4, Zenon DEF GenerateKeyPair
<1>6. k.A = A /\ k.s1 = s.s1 /\ k.s2 = s.s2 /\ k.t0 = t0 /\ k.t1 = t1
  BY <1>5
<1>7. /\ A \in Matrix /\ s.s1 \in Vectors(Columns) /\ s.s2 \in Vectors(Rows)
      /\ \A i \in 1..Rows, n \in 1..N : s.s2[i][n] \in -4..4
  BY SamplesAssumption, Zenon DEF Matrix
<1>8. Generated(k)
  BY <1>2, <1>3, <1>6, <1>7, Zenon DEF Generated
<1> QED
  BY <1>1, <1>4, <1>8, Zenon DEF SigningInv

(* A loop that starts. *)
LEMMA SignStarts ==
    ASSUME SigningInv, NEW call \in Calls, NEW r, Sign(call, r)
    PROVE  SigningInv'
<1>1. /\ key # None /\ signing = None
      /\ key' = key /\ signed' = signed /\ oracle' = oracle /\ streams' = streams
  BY Zenon DEF Sign
<1>2. CASE Len(call.context) > CONTEXT_MAX_LEN
  <2>1. signing' = signing
    BY <1>2, Zenon DEF Sign
  <2> QED
    BY <1>1, <2>1, Zenon DEF SigningInv
<1>3. CASE ~(Len(call.context) > CONTEXT_MAX_LEN)
  <2>1. PICK mu : mu = MessageRepresentative(0, call)
    OBVIOUS
  <2>2. PICK s : s = [call |-> call, mu |-> mu, seed |-> <<r, mu>>,
                      separator |-> 0, attempt |-> 0]
    BY Zenon
  <2>3. PICK u : u = signing'
    OBVIOUS
  <2>4. u = Turn(s)
    BY <1>3, <2>1, <2>2, <2>3, Zenon DEF Sign
  <2>5. s.call = call /\ s.mu = mu /\ s.seed = <<r, mu>> /\ s.separator = 0 /\ s.attempt = 0
    BY <2>2
  <2>6. /\ Fields \subseteq DOMAIN u /\ u.call = call /\ u.mu = mu /\ u.seed = <<r, mu>>
        /\ u.separator = 0 /\ u.attempt = 0 /\ u.mask = None /\ u.z = None
    BY <2>4, <2>5, TurnParts, Zenon
  <2>7. CallOk(call)
    <3>1. call.context \in Seq(0..255)
      BY BytesAssumption DEF Calls
    <3>2. CONTEXT_MAX_LEN \in Nat /\ Len(call.context) \in Nat
      BY <3>1, ParametersAssumption
    <3> QED
      BY <1>3, <3>2 DEF CallOk
  <2>8. 0 \in 0..Bound /\ 0 = (0 * Columns) % (SeparatorMax + 1)
    BY ParametersAssumption
  <2>9. Running(u)
    BY <2>1, <2>6, <2>7, <2>8, Zenon DEF Running
  <2>10. InSigning(key, oracle, u)
    BY <2>6, <2>9, Zenon DEF InSigning
  <2> QED
    BY <1>1, <2>3, <2>10, Zenon DEF SigningInv
<1> QED
  BY <1>2, <1>3

(* A turn of the loop commits. *)
LEMMA CommitStep ==
    ASSUME SigningInv, NEW mask \in Masks, SignCommit(mask)
    PROVE  SigningInv'
<1>1. PICK s, k : s = signing /\ k = key
  OBVIOUS
<1>2. /\ s # None /\ s.attempt < Bound /\ s.mask = None
      /\ key' = key /\ signed' = signed /\ oracle' = oracle
      /\ streams' = streams \cup StreamsRead(s)
  BY <1>1, Zenon DEF SignCommit
<1>3. Running(s) /\ key # None
  BY <1>1, <1>2, Zenon DEF SigningInv, InSigning
<1>4. PICK w : w = MatrixTimes(k.A, mask)
  OBVIOUS
<1>5. PICK w0, w1 :
        /\ w0 = Map(w, LAMBDA x : decompose_element(Gamma2, x)[1])
        /\ w1 = Map(w, LAMBDA x : decompose_element(Gamma2, x)[2])
  BY Zenon
<1>6. PICK u : u = signing'
  OBVIOUS
<1>7. CommitsTo(s, mask, w0, w1, u)
  BY <1>1, <1>4, <1>5, <1>6 DEF SignCommit, CommitsTo
<1>8. /\ Fields \subseteq DOMAIN u
      /\ u.call = s.call /\ u.mu = s.mu /\ u.seed = s.seed
      /\ u.separator = Separator(s, Columns + 1) /\ u.attempt = s.attempt + 1
      /\ u.mask = mask /\ u.w0 = w0 /\ u.w1 = w1 /\ u.z = s.z
  <2>1. Fields \subseteq DOMAIN s
    BY <1>3, Zenon DEF Running
  <2> QED
    BY <1>7, <2>1, CommitParts
<1>9. mask \in Vectors(Columns)
  BY SamplesAssumption, Zenon
<1>10. PICK a \in 0..Bound : a = s.attempt
  BY <1>3, Zenon DEF Running
<1>11. /\ a \in Nat /\ a < Bound /\ a + 1 \in 0..Bound /\ a + 1 \in 1..Bound
       /\ (a + 1) - 1 = a
  BY <1>2, <1>10, ParametersAssumption
<1>12. s.separator = (a * Columns) % (SeparatorMax + 1)
  BY <1>3, <1>10, Zenon DEF Running
<1>13. u.separator = ((a + 1) * Columns) % (SeparatorMax + 1)
  <2>1. 1 \in 1..Columns
    BY ParametersAssumption
  <2> QED
    BY <1>8, <1>11, <1>12, <2>1, SeparatorExact, Zenon
<1>14. Running(u)
  <2>1. CallOk(u.call) /\ u.mu = MessageRepresentative(0, u.call) /\ (\E r : u.seed = <<r, u.mu>>)
    BY <1>3, <1>8, Zenon DEF Running
  <2>2. u.attempt \in 0..Bound /\ u.separator = (u.attempt * Columns) % (SeparatorMax + 1)
    BY <1>8, <1>10, <1>11, <1>13, Zenon
  <2>3. u.z = None
    BY <1>2, <1>3, <1>8, Zenon DEF Running
  <2> QED
    BY <1>8, <2>1, <2>2, <2>3, Zenon DEF Running
<1>15. u.z = None
  BY <1>2, <1>3, <1>8, Zenon DEF Running
<1>16. Committed(k, u)
  BY <1>4, <1>5, <1>8, <1>9, Zenon DEF Committed
<1>17. InSigning(key, oracle, u)
  BY <1>1, <1>14, <1>15, <1>16, Zenon DEF InSigning
<1>18. ASSUME NEW x \in StreamsRead(s)
       PROVE  Read(x)
  <2>1. PICK j \in 1..Columns :
          x = [seed |-> s.seed, separator |-> Separator(s, j), call |-> s.call,
               attempt |-> s.attempt + 1, column |-> j]
    BY Zenon DEF StreamsRead
  <2>2. /\ x.seed = s.seed /\ x.separator = Separator(s, j) /\ x.call = s.call
        /\ x.attempt = s.attempt + 1 /\ x.column = j
    BY <2>1
  <2>3. Separator(s, j) = a * Columns + j - 1
    BY <1>11, <1>12, SeparatorExact, Zenon
  <2>4. CallOk(x.call) /\ (\E r : x.seed = <<r, MessageRepresentative(0, x.call)>>)
    BY <1>3, <2>2, Zenon DEF Running
  <2> QED
    BY <1>10, <1>11, <2>2, <2>3, <2>4, Zenon DEF Read
<1>19. \A x \in streams' : Read(x)
  BY <1>2, <1>18, Zenon DEF SigningInv
<1> QED
  BY <1>2, <1>3, <1>6, <1>17, <1>19, Zenon DEF SigningInv

(* What sampling a challenge for a hash does to the oracle. *)
Sampled(o, hash, c, p) ==
    p = [h \in DOMAIN o \cup {hash} |-> IF h = hash THEN c ELSE o[h]]

(* The challenge of a hash, where d is drawn for a new one. *)
Challenge(o, hash, d, c) == c = IF hash \in DOMAIN o THEN o[hash] ELSE d

(* Challenges are integers. *)
Integral(o) == \A h \in DOMAIN o : o[h] \in Int

(* The oracle p knows what o knew, and the challenge c of a hash. *)
Grown(o, hash, c, p) ==
    /\ c \in Int /\ hash \in DOMAIN p /\ p[hash] = c
    /\ \A h \in DOMAIN p : p[h] \in Int
    /\ \A h \in DOMAIN o : h \in DOMAIN p /\ p[h] = o[h]

(* The challenges that were sampled stay. *)
LEMMA SampledParts ==
    ASSUME NEW o, NEW hash, NEW d \in Int, Integral(o),
           NEW c, Challenge(o, hash, d, c), NEW p, Sampled(o, hash, c, p)
    PROVE  Grown(o, hash, c, p)
<1>1. c \in Int
  BY Zenon DEF Integral, Challenge
<1>2. DOMAIN p = DOMAIN o \cup {hash}
  BY DEF Sampled
<1>3. \A h \in DOMAIN p : p[h] = IF h = hash THEN c ELSE o[h]
  BY DEF Sampled
<1>4. hash \in DOMAIN p /\ p[hash] = c
  BY <1>2, <1>3, Zenon
<1>5. \A h \in DOMAIN p : p[h] \in Int
  BY <1>1, <1>2, <1>3, Zenon DEF Integral
<1>6. \A h \in DOMAIN o : h \in DOMAIN p /\ p[h] = o[h]
  <2>1. hash \in DOMAIN o => c = o[hash]
    BY Zenon DEF Challenge
  <2> QED
    BY <1>2, <1>3, <2>1, Zenon
<1> QED
  BY <1>1, <1>4, <1>5, <1>6, Zenon DEF Grown

(* A loop t that is s with its response. *)
RespondsWith(s, z, v, ct0, t) == t = [s EXCEPT !.z = z, !.w0 = v, !.ct0 = ct0]

(* The loop responds. *)
LEMMA RespondStep ==
    ASSUME SigningInv, NEW d \in Challenges, SignRespond(d)
    PROVE  SigningInv'
<1>1. PICK s, k, o : s = signing /\ k = key /\ o = oracle
  OBVIOUS
<1>2. PICK hash : hash = [mu |-> s.mu, w1 |-> s.w1]
  BY Zenon
<1>3. PICK c : c = IF hash \in DOMAIN o THEN o[hash] ELSE d
  OBVIOUS
<1>4. PICK z, v, ct0 : z = Plus(s.mask, Times(c, k.s1)) /\ v = Minus(s.w0, Times(c, k.s2))
                       /\ ct0 = Times(c, Map(k.t0, ChangeT0Interval))
  OBVIOUS
<1>5. PICK u, p : u = signing' /\ p = oracle'
  OBVIOUS
<1>6. /\ s # None /\ s.mask # None /\ s.z = None
      /\ key' = key /\ signed' = signed /\ streams' = streams
  BY <1>1, Zenon DEF SignRespond
<1>7. Sampled(o, hash, c, p)
  BY <1>1, <1>2, <1>3, <1>5, Zenon DEF SignRespond, Sampled
<1>8. RespondsWith(s, z, v, ct0, u)
  BY <1>1, <1>2, <1>3, <1>4, <1>5 DEF SignRespond, RespondsWith
<1>9. Running(s) /\ Committed(k, s) /\ key # None /\ Generated(k)
  BY <1>1, <1>6, Zenon DEF SigningInv, InSigning
<1>10. /\ Fields \subseteq DOMAIN u
       /\ u.call = s.call /\ u.mu = s.mu /\ u.seed = s.seed
       /\ u.separator = s.separator /\ u.attempt = s.attempt
       /\ u.mask = s.mask /\ u.w1 = s.w1
       /\ u.z = z /\ u.w0 = v /\ u.ct0 = ct0
  <2>1. Fields \subseteq DOMAIN s
    BY <1>9, Zenon DEF Running
  <2> QED
    BY <1>8, <2>1 DEF RespondsWith, Fields
<1>11. d \in Int /\ \A h \in DOMAIN o : o[h] \in Int
  BY <1>1, SamplesAssumption, Zenon DEF SigningInv
<1>12. /\ c \in Int /\ hash \in DOMAIN p /\ p[hash] = c
       /\ \A h \in DOMAIN p : p[h] \in Int
       /\ \A h \in DOMAIN o : h \in DOMAIN p /\ p[h] = o[h]
  <2>1. Integral(o) /\ Challenge(o, hash, d, c)
    BY <1>3, <1>11, Zenon DEF Integral, Challenge
  <2>2. Grown(o, hash, c, p)
    BY <1>7, <1>11, <2>1, SampledParts, Zenon
  <2> QED
    BY <2>2, Zenon DEF Grown
<1>13. Running(u)
  <2>1. u.mask # None
    BY <1>6, <1>10, Zenon
  <2> QED
    BY <1>9, <1>10, <2>1, Zenon DEF Running
<1>14. PICK mask, w :
        /\ mask \in Vectors(Columns)
        /\ s.mask = mask /\ w = MatrixTimes(k.A, mask)
        /\ s.w0 = Map(w, LAMBDA x : decompose_element(Gamma2, x)[1])
        /\ s.w1 = Map(w, LAMBDA x : decompose_element(Gamma2, x)[2])
  BY <1>9, Zenon DEF Committed
<1>15. u.z # None
  <2>1. PICK s1 \in Vectors(Columns) : k.s1 = s1
    BY <1>9, Zenon DEF Generated
  <2>2. z \in Vectors(Columns)
    BY <1>4, <1>12, <1>14, <2>1, ResponseType, Zenon
  <2> QED
    BY <1>10, <2>2, NoneAssumption, Zenon
<1>16. Answer(k, c, u)
  BY <1>4, <1>10, <1>14, Zenon DEF Answer
<1>17. hash = [mu |-> u.mu, w1 |-> u.w1]
  BY <1>2, <1>10, Zenon
<1>18. InSigning(k, p, u)
  <2>1. Responded(k, p, u)
    BY <1>12, <1>16, <1>17, Zenon DEF Responded
  <2> QED
    BY <1>13, <1>15, <2>1, Zenon DEF InSigning
<1>19. ASSUME NEW x \in signed
       PROVE  Verified(k, p, x)
  <2>1. Verified(k, o, x)
    BY <1>1, Zenon DEF SigningInv
  <2>2. x.sig.hash \in DOMAIN p /\ p[x.sig.hash] = o[x.sig.hash]
    BY <1>12, <2>1, Zenon DEF Verified
  <2> QED
    BY <2>1, <2>2, Zenon DEF Verified
<1> QED
  BY <1>1, <1>5, <1>6, <1>9, <1>12, <1>18, <1>19, Zenon DEF SigningInv

(* The loop checks its response: a signature, or another turn. *)
LEMMA CheckStep ==
    ASSUME InnerProductsLinear, HintCodec, SigningInv, SignCheck
    PROVE  SigningInv'
<1>1. PICK s, k, o : s = signing /\ k = key /\ o = oracle
  OBVIOUS
<1>2. PICK hash : hash = [mu |-> s.mu, w1 |-> s.w1]
  BY Zenon
<1>3. PICK hint : hint = MakeHint(Plus(s.w0, s.ct0), s.w1)
  OBVIOUS
<1>4. /\ s # None /\ s.z # None /\ key' = key /\ oracle' = oracle /\ streams' = streams
  BY <1>1, Zenon DEF SignCheck
<1>5. Running(s) /\ Responded(k, o, s) /\ key # None /\ Generated(key)
      /\ \A h \in DOMAIN o : o[h] \in Int
  BY <1>1, <1>4, Zenon DEF SigningInv, InSigning
<1>6. CallOk(s.call) /\ s.mu = MessageRepresentative(0, s.call)
  BY <1>5, Zenon DEF Running
<1>7. hash \in DOMAIN o /\ Answer(k, o[hash], s)
  BY <1>2, <1>5, Zenon DEF Responded
<1>8. CASE Accepted(s, hint)
  <2>1. PICK sig : sig = SerializeSignature(hash, s.z, hint)
    OBVIOUS
  <2>2. PICK new : new = [sig |-> sig, call |-> s.call]
    BY Zenon
  <2>3. signing' = None /\ signed' = signed \cup {new}
    BY <1>1, <1>2, <1>3, <1>8, <2>1, <2>2, Zenon DEF SignCheck
  <2>4. new.sig = sig /\ new.call = s.call
    BY <2>2
  <2>5. PICK c \in Int : c = o[hash]
    BY <1>5, <1>7, Zenon
  <2>6. Answer(key, c, s)
    BY <1>1, <1>7, <2>5, Zenon
  <2>7. /\ "hint" \in DOMAIN sig /\ sig.hash = hash
        /\ Outcome(key, c, s.call, sig) = "Ok"
    <3>1. Returned(s, hint, hash, sig)
      BY <1>2, <1>3, <1>8, <2>1, Zenon DEF Returned
    <3>2. Verifies(key, c, s.call, hash, sig)
      BY <1>5, <1>6, <2>6, <3>1, AnswerVerifies, Zenon
    <3> QED
      BY <3>2, Zenon DEF Verifies
  <2>8. Verified(key, oracle, new)
    BY <1>1, <1>6, <1>7, <2>4, <2>5, <2>7, Zenon DEF Verified
  <2> QED
    BY <1>4, <1>5, <2>3, <2>8, Zenon DEF SigningInv
<1>9. CASE ~Accepted(s, hint)
  <2>1. PICK u : u = signing'
    OBVIOUS
  <2>2. u = Turn(s) /\ signed' = signed
    BY <1>1, <1>2, <1>3, <1>9, <2>1, Zenon DEF SignCheck
  <2>3. /\ Fields \subseteq DOMAIN u
        /\ u.call = s.call /\ u.mu = s.mu /\ u.seed = s.seed
        /\ u.separator = s.separator /\ u.attempt = s.attempt
        /\ u.mask = None /\ u.z = None
    BY <2>2, TurnParts, Zenon
  <2>4. Running(u)
    BY <1>5, <2>3, Zenon DEF Running
  <2>5. InSigning(key, oracle, u)
    BY <2>3, <2>4, Zenon DEF InSigning
  <2> QED
    BY <1>4, <1>5, <2>1, <2>2, <2>5, Zenon DEF SigningInv
<1> QED
  BY <1>8, <1>9

(* The loop gives up. *)
LEMMA GiveUpStep ==
    ASSUME SigningInv, SignGivesUp
    PROVE  SigningInv'
<1>1. signing' = None /\ key' = key /\ signed' = signed /\ oracle' = oracle
      /\ streams' = streams
  BY Zenon DEF SignGivesUp
<1> QED
  BY <1>1, Zenon DEF SigningInv

(* The invariant holds at first. *)
LEMMA SigningInvInit ==
    ASSUME Init
    PROVE  SigningInv
<1>1. DOMAIN <<>> = {}
  OBVIOUS
<1>2. key = None /\ signing = None /\ signed = {} /\ oracle = <<>> /\ streams = {}
  BY DEF Init
<1> QED
  BY <1>1, <1>2, Zenon DEF SigningInv

(* Every step keeps it. *)
LEMMA SigningInvStep ==
    ASSUME InnerProductsLinear, HintCodec, SigningInv, [Next]_vars
    PROVE  SigningInv'
<1>1. CASE \E A \in Matrices, s \in Secrets : GenerateKeyPair(A, s)
  BY <1>1, GenerateStep, Zenon
<1>2. CASE \E call \in Calls, randomness \in Randomness :
              Cardinality(streams) < MaxStreams /\ Sign(call, randomness)
  BY <1>2, SignStarts, Zenon
<1>3. CASE \E mask \in Masks : SignCommit(mask)
  BY <1>3, CommitStep, Zenon
<1>4. CASE \E c \in Challenges : SignRespond(c)
  BY <1>4, RespondStep, Zenon
<1>5. CASE SignCheck
  BY <1>5, CheckStep, Zenon
<1>6. CASE SignGivesUp
  BY <1>6, GiveUpStep, Zenon
<1>7. CASE UNCHANGED vars
  <2>1. key' = key /\ signing' = signing /\ signed' = signed /\ oracle' = oracle
        /\ streams' = streams
    BY <1>7 DEF vars
  <2> QED
    BY <2>1, Zenon DEF SigningInv
<1> QED
  BY <1>1, <1>2, <1>3, <1>4, <1>5, <1>6, <1>7, Zenon DEF Next, SignStep

(* Indices and counts are what deserialize is given. *)
LEMMA PartsAreBytes ==
    ASSUME NEW indices \in [1..MaxOnesInHint -> 0..(N - 1)],
           NEW counts \in [1..Rows -> 0..(MaxOnesInHint + 1)],
           NEW bytes, bytes = indices \o counts
    PROVE  HintBytes(bytes)
<1>1. Rows \in Nat /\ MaxOnesInHint \in Nat /\ N \in Nat
  BY ParametersAssumption
<1>2. /\ indices \in Seq(Int) /\ Len(indices) = MaxOnesInHint
      /\ counts \in Seq(Int) /\ Len(counts) = Rows
  BY <1>1
<1>3. PICK a \in Seq(Int), c \in Seq(Int) : a = indices /\ c = counts
  BY <1>2, Zenon
<1>4. /\ a \o c \in Seq(Int) /\ Len(a \o c) = Len(a) + Len(c)
      /\ \A i \in 1..Len(a) : (a \o c)[i] = a[i]
      /\ \A i \in 1..Len(c) : (a \o c)[Len(a) + i] = c[i]
  OBVIOUS
<1>5. \A p \in 1..MaxOnesInHint : indices[p] \in 0..(N - 1)
  BY Zenon
<1>6. \A i \in 1..Rows : counts[i] \in Nat
  BY <1>1
<1> QED
  BY <1>2, <1>3, <1>4, <1>5, <1>6, Zenon DEF HintBytes

(* In the states of the invariant, every signature verifies. *)
LEMMA InvariantVerifies ==
    ASSUME SigningInv
    PROVE  SignaturesVerify
<1> SUFFICES ASSUME NEW s \in signed
             PROVE  VerifyCode(s.call, s.sig) = "Ok"
  BY Zenon DEF SignaturesVerify
<1>1. Outcome(key, oracle[s.sig.hash], s.call, s.sig) = "Ok"
  BY Zenon DEF SigningInv, Verified
<1>2. PICK call, sig : call = s.call /\ sig = s.sig
  OBVIOUS
<1>3. VerifyCode(call, sig) = Outcome(key, oracle[sig.hash], call, sig)
  BY OutcomeIsVerifyCode
<1> QED
  BY <1>1, <1>2, <1>3, Zenon

(* In its states, a signature verifies for its call only. *)
LEMMA InvariantOnlyAsCalled ==
    ASSUME SigningInv
    PROVE  VerifiesOnlyAsSigned
<1> SUFFICES ASSUME NEW s \in signed, NEW call \in Calls,
                    VerifyCode(call, s.sig) = "Ok"
             PROVE  call = s.call
  BY Zenon DEF VerifiesOnlyAsSigned
<1>1. /\ Outcome(key, oracle[s.sig.hash], s.call, s.sig) = "Ok"
      /\ CallOk(s.call)
  BY Zenon DEF SigningInv, Verified
<1>2. PICK sig, own, c : sig = s.sig /\ own = s.call /\ c = oracle[sig.hash]
  OBVIOUS
<1>3. Outcome(key, c, own, sig) = "Ok"
  BY <1>1, <1>2, Zenon
<1>4. Outcome(key, c, call, sig) = "Ok"
  <2>1. VerifyCode(call, sig) = Outcome(key, oracle[sig.hash], call, sig)
    BY OutcomeIsVerifyCode
  <2> QED
    BY <1>2, <2>1, Zenon
<1>5. PICK k : k = key
  OBVIOUS
<1>6. PICK v : sig.hash = [mu |-> MessageRepresentative(0, own), w1 |-> v]
  <2>1. HashFor(own, sig.hash)
    BY <1>3, <1>5, OutcomeOk, Zenon
  <2> QED
    BY <2>1, Zenon DEF HashFor
<1>7. PICK w : sig.hash = [mu |-> MessageRepresentative(0, call), w1 |-> w]
  <2>1. HashFor(call, sig.hash)
    BY <1>4, <1>5, OutcomeOk, Zenon
  <2> QED
    BY <2>1, Zenon DEF HashFor
<1>8. MessageRepresentative(0, own) = MessageRepresentative(0, call)
  <2>1. PICK m, n : m = MessageRepresentative(0, own) /\ n = MessageRepresentative(0, call)
    OBVIOUS
  <2>2. [mu |-> m, w1 |-> v] = [mu |-> n, w1 |-> w]
    BY <1>6, <1>7, <2>1, ZenonT(30)
  <2>3. m = n
    BY <2>2, Zenon
  <2> QED
    BY <2>1, <2>3
<1>9. Len(call.context) <= CONTEXT_MAX_LEN
  <2>1. ~(Len(call.context) > CONTEXT_MAX_LEN)
    BY <1>4, <1>5, OutcomeOk, Zenon
  <2>2. call.context \in Seq(0..255)
    BY BytesAssumption DEF Calls
  <2>3. CONTEXT_MAX_LEN \in Nat /\ Len(call.context) \in Nat
    BY <2>2, ParametersAssumption
  <2> QED
    BY <2>1, <2>3
<1>10. own \in Calls /\ Len(own.context) <= CONTEXT_MAX_LEN
  BY <1>1, <1>2, Zenon DEF CallOk
<1>11. call = own
  BY <1>8, <1>9, <1>10, RepresentativeInjective, Zenon
<1> QED
  BY <1>2, <1>11

(* In its states, one encoding of a hint verifies. *)
LEMMA InvariantCanonical ==
    ASSUME HintCodec, SigningInv
    PROVE  HintsCanonical
<1> SUFFICES ASSUME NEW s \in signed,
                    NEW indices \in [1..MaxOnesInHint -> 0..(N - 1)],
                    NEW counts \in [1..Rows -> 0..(MaxOnesInHint + 1)],
                    NEW bytes, bytes = indices \o counts,
                    VerifyCode(s.call, [s.sig EXCEPT !.hint = bytes]) = "Ok"
             PROVE  bytes = HintSerialize(HintDeserialize(bytes))
  BY Zenon DEF HintsCanonical
<1>1. PICK sig, call : sig = [s.sig EXCEPT !.hint = bytes] /\ call = s.call
  BY Zenon
<1>2. sig.hint = bytes
  <2>1. "hint" \in DOMAIN s.sig
    BY Zenon DEF SigningInv, Verified
  <2>2. PICK old : old = s.sig
    OBVIOUS
  <2> QED
    BY <1>1, <2>1, <2>2
<1>3. PICK k, c : k = key /\ c = oracle[sig.hash]
  OBVIOUS
<1>4. Outcome(k, c, call, sig) = "Ok"
  <2>1. VerifyCode(call, sig) = Outcome(key, oracle[sig.hash], call, sig)
    BY OutcomeIsVerifyCode
  <2> QED
    BY <1>1, <1>3, <2>1, Zenon
<1>5. ~MalformedHint(bytes)
  BY <1>2, <1>4, OutcomeOk, Zenon
<1>9. HintBytes(bytes)
  BY PartsAreBytes, Zenon
<1>10. WellFormed(bytes)
  BY <1>5, <1>9, Zenon DEF WellFormed
<1> QED
  BY <1>10, Zenon DEF HintCodec

(* In its states, no mask stream was read twice. *)
LEMMA InvariantFreshMasks ==
    ASSUME SigningInv
    PROVE  MasksNeverReused
<1> SUFFICES ASSUME NEW x \in streams, NEW y \in streams,
                    x.seed = y.seed, x.separator = y.separator
             PROVE  x.call = y.call /\ x.attempt = y.attempt /\ x.column = y.column
  BY Zenon DEF MasksNeverReused
<1>1. Read(x) /\ Read(y)
  BY Zenon DEF SigningInv
<1>2. PICK a, b : a = x.call /\ b = y.call
  OBVIOUS
<1>3. CallOk(a) /\ CallOk(b)
  BY <1>1, <1>2, Zenon DEF Read
<1>4. PICK m, n : m = MessageRepresentative(0, a) /\ n = MessageRepresentative(0, b)
  OBVIOUS
<1>5. PICK r : x.seed = <<r, m>>
  BY <1>1, <1>2, <1>4, Zenon DEF Read
<1>6. PICK q : y.seed = <<q, n>>
  BY <1>1, <1>2, <1>4, Zenon DEF Read
<1>7. m = n
  <2>1. <<r, m>> = <<q, n>>
    BY <1>5, <1>6, Zenon
  <2> QED
    BY <2>1
<1>8. a = b
  BY <1>3, <1>4, <1>7, RepresentativeInjective, Zenon DEF CallOk
<1>9. PICK i \in 1..Bound, j \in 1..Columns :
        /\ i = x.attempt /\ j = x.column
        /\ x.separator = (i - 1) * Columns + j - 1
  BY <1>1, Zenon DEF Read
<1>10. PICK u \in 1..Bound, v \in 1..Columns :
        /\ u = y.attempt /\ v = y.column
        /\ y.separator = (u - 1) * Columns + v - 1
  BY <1>1, Zenon DEF Read
<1>11. Columns \in Nat /\ i - 1 \in Nat /\ u - 1 \in Nat
  BY ParametersAssumption
<1>12. (i - 1) * Columns + j = (u - 1) * Columns + v
  <2>1. PICK e \in Int : e = (i - 1) * Columns
    BY <1>11
  <2>2. PICK f \in Int : f = (u - 1) * Columns
    BY <1>11
  <2>3. e + j - 1 = f + v - 1
    BY <1>9, <1>10, <2>1, <2>2, Zenon
  <2> QED
    BY <1>11, <2>1, <2>2, <2>3
<1>13. i - 1 = u - 1 /\ j = v
  <2>1. PICK e \in Nat, f \in Nat : e = i - 1 /\ f = u - 1
    BY <1>11, Zenon
  <2>2. e * Columns + j = f * Columns + v
    BY <1>12, <2>1, Zenon
  <2>3. e = f /\ j = v
    <3>1. SameNumber(Columns, e, j, f, v)
      BY <2>2, Zenon DEF SameNumber
    <3> QED
      BY <1>9, <1>10, <1>11, <3>1, NumberingInjective, Zenon
  <2> QED
    BY <2>1, <2>3, Zenon
<1>14. i = u
  BY <1>11, <1>13
<1> QED
  BY <1>2, <1>8, <1>9, <1>10, <1>13, <1>14, Zenon
=============================================================================
