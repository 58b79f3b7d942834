------------------------------ MODULE MCMlKem ------------------------------
(* Rank two.  What XOF, PRF and the second half of G give is spread over   *)
(* their range.                                                            *)
EXTENDS MlKem

Mix(x, y, z) == ((x % 101) * 1103 + y * 757 + z * 389 + (x % 101) * y * z * 13) * 7

MCG(m, hash) == 3 + m[1] + 2 * m[2] + hash.hash_of.t[1][1]
MCSampleUniform(seed, i, j, n) == Mix(seed + 2 * n, 3 * i + 5, 7 * j + 1) % 3329
MCSampleCbd(seed, separator, n) == ((Mix(seed, separator + 1, n) \div 11) % 5) - 2

MCMessages == {<<0, 1>>, <<1, 1>>}
=============================================================================
