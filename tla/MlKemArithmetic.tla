--------------------------- MODULE MlKemArithmetic ---------------------------
(***************************************************************************)
(* The arithmetic of ML-KEM on one coefficient, an i16, with the constants *)
(* the code has.  A shift right is a division that rounds down.            *)
(***************************************************************************)
EXTENDS Integers

FIELD_MODULUS == 3329

cond_subtract_3329(x) == IF x >= FIELD_MODULUS THEN x - FIELD_MODULUS ELSE x

to_unsigned_representative(a) == IF a < 0 THEN a + FIELD_MODULUS ELSE a

barrett_reduce_element(value) ==
    value - ((value * 20159 + 33554432) \div 67108864) * FIELD_MODULUS

(* A cast to i16 keeps the low 16 bits, in two's complement. *)
ToInt16(x) == IF x % 65536 < 32768 THEN x % 65536 ELSE (x % 65536) - 65536

montgomery_reduce_element(value) ==
    LET k == ToInt16(value) * 62209
    IN  value \div 65536 - (ToInt16(k) * FIELD_MODULUS) \div 65536

(* The mask turns a negative shifted into its complement, -shifted - 1. *)
compress_message_coefficient(fe) ==
    LET shifted  == 1664 - fe
        positive == IF shifted < 0 THEN -shifted - 1 ELSE shifted
    IN  IF positive - 832 < 0 THEN 1 ELSE 0

decompress_1(bit) == IF bit = 1 THEN 1665 ELSE 0

(* The code multiplies by 10321340 and shifts by 35 instead of dividing    *)
(* by the modulus; CompressDivides in MlKemProofs shows the two            *)
(* agree on every coefficient.                                             *)
compress_ciphertext_coefficient(coefficient_bits, fe) ==
    ((fe * 2^coefficient_bits + 1664) \div FIELD_MODULUS) % 2^coefficient_bits

decompress_ciphertext_coefficient(coefficient_bits, a) ==
    ((a * FIELD_MODULUS) * 2 + 2^coefficient_bits) \div (2^coefficient_bits * 2)
=============================================================================
