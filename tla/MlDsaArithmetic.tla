--------------------------- MODULE MlDsaArithmetic ---------------------------
(***************************************************************************)
(* The arithmetic of ML-DSA on one coefficient, an i32 in the signed       *)
(* representative range, with the constants the code has.  A shift right   *)
(* is a division that rounds down, and x >> 31 selects the negative x.     *)
(***************************************************************************)
EXTENDS Integers

FIELD_MODULUS == 8380417

(* 1 << BITS_IN_LOWER_PART_OF_T *)
LowerPartOfT == 8192

GAMMA2S == {95232, 261888}

NonNegative(x) == IF x < 0 THEN x + FIELD_MODULUS ELSE x

(* The multiplications by the reciprocals of 2 * gamma2 / 128. *)
QuotientBy(gamma2, c) ==
    IF gamma2 = 95232
    THEN LET result == (c * 11275 + 8388608) \div 16777216
         IN  IF result > 43 THEN 0 ELSE result
    ELSE ((c * 1025 + 2097152) \div 4194304) % 16

(* decompose_element: the low part and the high part. *)
decompose_element(gamma2, x) ==
    LET r    == NonNegative(x)
        high == QuotientBy(gamma2, (r + 127) \div 128)
        low  == r - high * (gamma2 * 2)
    IN  <<IF low > (FIELD_MODULUS - 1) \div 2 THEN low - FIELD_MODULUS ELSE low,
          high>>

compute_one_hint(low, high, gamma2) ==
    IF low > gamma2 \/ low < -gamma2 \/ (low = -gamma2 /\ high # 0) THEN 1 ELSE 0

use_one_hint(gamma2, r, hint) ==
    LET d    == decompose_element(gamma2, r)
        low  == d[1]
        high == d[2]
    IN  IF hint = 0 THEN high
        ELSE IF gamma2 = 95232
             THEN IF low > 0 THEN IF high = 43 THEN 0 ELSE high + hint
                             ELSE IF high = 0 THEN 43 ELSE high - hint
             ELSE IF low > 0 THEN (high + hint) % 16 ELSE (high - hint) % 16

(* power2round_element: t0 and t1. *)
power2round_element(x) ==
    LET t  == NonNegative(x)
        t1 == (t - 1 + LowerPartOfT \div 2) \div LowerPartOfT
    IN  <<t - t1 * LowerPartOfT, t1>>

barrett_reduce_element(fe) ==
    fe - ((fe + 4194304) \div 8388608) * FIELD_MODULUS

(* 2^32; a cast to i32 keeps the low 32 bits, in two's complement. *)
MontgomeryR == 65536 * 65536

ToInt32(x) == IF x < MontgomeryR \div 2 THEN x ELSE x - MontgomeryR

montgomery_reduce_element(value) ==
    LET t == (value % MontgomeryR) * 58728449
        k == ToInt32(t % MontgomeryR)
    IN  value \div MontgomeryR - (k * FIELD_MODULUS) \div MontgomeryR

NormExceeds(x, bound) == (IF x < 0 THEN -x ELSE x) >= bound
=============================================================================
