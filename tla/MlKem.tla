------------------------------- MODULE MlKem -------------------------------
(***************************************************************************)
(* ML-KEM: the key pairs of the packed, the unpacked and the incremental   *)
(* interface, encapsulation in one step or in two, and decapsulation with  *)
(* implicit rejection.                                                     *)
(*                                                                         *)
(* A ring element is a tuple of N coefficients in the NTT domain, where    *)
(* multiplication is taken coefficient by coefficient.  The hash H and the *)
(* secret half of G are injective, so their values are their inputs; the   *)
(* pseudorandom half of G, the XOF and the PRF are constant operators.     *)
(***************************************************************************)
EXTENDS MlKemArithmetic, FiniteSets

CONSTANTS
    K,                      \* the rank of the module
    N,                      \* coefficients of a ring element
    DU, DV,                 \* the compression factors of u and of v
    Seeds,                  \* key generation randomness d
    RejectionValues,        \* key generation randomness z
    Messages,               \* encapsulation randomness, N bits
    G(_, _),                \* G(m || hash), pseudorandom half
    SampleUniform(_, _, _, _),   \* XOF(seed, i, j), coefficient n
    SampleCbd(_, _, _),     \* PRF(seed, domain separator), coefficient n
    MaxKeys,                \* bound on the key pairs
    MaxEncaps               \* bound on the encapsulations

VARIABLES
    keys,                   \* key pairs, each in every form it is kept in
    started,                \* what encapsulate1 returned: c1, state, secret
    done                    \* finished encapsulations

vars == <<keys, started, done>>

Ranks == 1..K
Coefficients == 1..N

-----------------------------------------------------------------------------
(* Vectors.                                                                *)

(* add_to_ring_element for each product, in turn. *)
InnerProduct(x, y) ==
    LET sum[j \in 0..K] ==
            IF j = 0 THEN 0 ELSE (sum[j - 1] + x[j] * y[j]) % FIELD_MODULUS
    IN  sum[K]

Dot(u, v) ==
    [n \in Coefficients |->
        InnerProduct([j \in Ranks |-> u[j][n]], [j \in Ranks |-> v[j][n]])]

AddReduce(x, e) == [n \in Coefficients |-> barrett_reduce_element(x[n] + e[n])]

SubtractReduce(x, y) == [n \in Coefficients |-> barrett_reduce_element(x[n] - y[n])]

serialize_vector(t) ==
    [i \in Ranks |-> [n \in Coefficients |-> to_unsigned_representative(t[i][n])]]

(* deserialize_ring_elements_reduced; deserialize_vector takes the twelve  *)
(* bits of a coefficient as they are.                                      *)
DeserializeReduced(bytes) ==
    [i \in Ranks |-> [n \in Coefficients |-> cond_subtract_3329(bytes[i][n])]]

sample_matrix_A(seed, transpose) ==
    [i \in Ranks |-> [j \in Ranks |-> [n \in Coefficients |->
        IF transpose THEN SampleUniform(seed, j, i, n)
                     ELSE SampleUniform(seed, i, j, n)]]]

transpose_a(A) == [i \in Ranks |-> [j \in Ranks |-> A[j][i]]]

(* Noise drawn with the domain separators from first on. *)
SampleVectorCbd(seed, first) ==
    [i \in Ranks |-> [n \in Coefficients |-> SampleCbd(seed, first + i - 1, n)]]

H(ek) == [hash_of |-> ek]

-----------------------------------------------------------------------------
(* Key generation and the forms of a key.                                  *)

(* ind_cpa::generate_keypair_unpacked *)
CpaKeyPair(d) ==
    LET A == sample_matrix_A(d, TRUE)
        s == SampleVectorCbd(d, 0)
        e == SampleVectorCbd(d, K)
    IN  [s |-> s, t |-> [i \in Ranks |-> AddReduce(Dot(A[i], s), e[i])],
         seed |-> d, A |-> A]

PublicKeyBytes(k) == [t |-> serialize_vector(k.t), seed |-> k.seed]

(* ind_cca::generate_keypair: dk | ek | H(ek) | z *)
serialize_kem_secret_key(s, ek, hash, z) ==
    [s |-> serialize_vector(s), ek |-> ek, hash |-> hash, z |-> z]

PackedKeyPair(d, z) ==
    LET k  == CpaKeyPair(d)
        ek == PublicKeyBytes(k)
    IN  serialize_kem_secret_key(k.s, ek, H(ek), z)

(* unpacked::generate_keypair *)
UnpackedKeyPair(d, z) ==
    LET k == CpaKeyPair(d)
    IN  [s |-> k.s, t |-> k.t, seed |-> k.seed, A |-> transpose_a(k.A),
         hash |-> H(PublicKeyBytes(k)), z |-> z]

PublicKey1(k) == [seed |-> k.seed, hash |-> k.hash]
PublicKey2(k) == serialize_vector(k.t)

(* KeyPair::to_bytes, and from_bytes with the conversion to an unpacked    *)
(* key pair.                                                               *)
to_bytes(k) ==
    [pk1 |-> PublicKey1(k), pk2 |-> PublicKey2(k), s |-> k.s, z |-> k.z, matrix |-> k.A]

from_bytesNoValue(key) ==
    [s |-> key.s, t |-> key.pk2, seed |-> key.pk1.seed, A |-> key.matrix,
     hash |-> key.pk1.hash, z |-> 0]

from_bytes(key) ==
    [s |-> key.s, t |-> key.pk2, seed |-> key.pk1.seed, A |-> key.matrix,
     hash |-> key.pk1.hash, z |-> key.z]

to_bytes_compressed(k) ==
    serialize_kem_secret_key(k.s, [t |-> PublicKey2(k), seed |-> k.seed], k.hash, k.z)

(* unpack_public_key *)
UnpackPublicKey(ek) ==
    [t |-> DeserializeReduced(ek.t), seed |-> ek.seed,
     A |-> sample_matrix_A(ek.seed, FALSE), hash |-> H(ek)]

(* keys_from_private_key: the hash is the stored one. *)
keys_from_private_key(sk) ==
    [s |-> sk.s, t |-> DeserializeReduced(sk.ek.t), seed |-> sk.ek.seed,
     A |-> sample_matrix_A(sk.ek.seed, FALSE), hash |-> sk.hash, z |-> sk.z]

validate_public_key(ek) == serialize_vector(DeserializeReduced(ek.t)) = ek.t

validate_private_key_only(sk) == H(sk.ek) = sk.hash

validate_pk_partsDomain(pk1, pk2) ==
    validate_public_key([t |-> pk2, seed |-> pk1.seed])

validate_pk_parts(pk1, pk2) ==
    LET pk == [t |-> pk2, seed |-> pk1.seed]
    IN  H(pk) = pk1.hash /\ validate_public_key(pk)

-----------------------------------------------------------------------------
(* Encryption and encapsulation.                                           *)

(* encrypt_c1: the compressed u, and what encrypt_c2 needs of it. *)
encrypt_c1(randomness, A) ==
    LET r  == SampleVectorCbd(randomness, 0)
        e1 == SampleVectorCbd(randomness, K)
        u  == [i \in Ranks |-> AddReduce(Dot(A[i], r), e1[i])]
    IN  [c1 |-> [i \in Ranks |-> [n \in Coefficients |->
                   compress_ciphertext_coefficient(DU, to_unsigned_representative(u[i][n]))]],
         r |-> r,
         e2 |-> [n \in Coefficients |-> SampleCbd(randomness, 2 * K, n)]]

encrypt_c2(t, r, e2, m) ==
    LET message == [n \in Coefficients |-> decompress_1(m[n]) + e2[n]]
        v == AddReduce(Dot(t, r), message)
    IN  [n \in Coefficients |->
            compress_ciphertext_coefficient(DV, to_unsigned_representative(v[n]))]

(* encrypt_unpacked *)
Encrypt(t, A, m, randomness) ==
    LET first == encrypt_c1(randomness, A)
    IN  <<first.c1, encrypt_c2(t, first.r, first.e2, m)>>

SharedSecret(m, hash) == [m |-> m, hash |-> hash]

(* unpacked::encapsulate; the packed one unpacks the public key first. *)
EncapsulateUnpacked(pk, m) ==
    [ct |-> Encrypt(pk.t, pk.A, m, G(m, pk.hash)), ss |-> SharedSecret(m, pk.hash)]

-----------------------------------------------------------------------------
(* Decapsulation.                                                          *)

Decrypt(s, ct) ==
    LET u == [i \in Ranks |-> [n \in Coefficients |->
                 decompress_ciphertext_coefficient(DU, ct[1][i][n])]]
        v == [n \in Coefficients |-> decompress_ciphertext_coefficient(DV, ct[2][n])]
        w == SubtractReduce(v, Dot(s, u))
    IN  [n \in Coefficients |->
            compress_message_coefficient(to_unsigned_representative(w[n]))]

ImplicitRejection(z, ct) == [rejected |-> ct, z |-> z]

compare_ciphertextsFirst(lhs, rhs) == lhs[1] = rhs[1]

compare_ciphertexts(lhs, rhs) == lhs = rhs

(* unpacked::decapsulate *)
DecapsulateUnpacked(k, ct) ==
    LET m        == Decrypt(k.s, ct)
        expected == Encrypt(k.t, k.A, m, G(m, k.hash))
    IN  IF compare_ciphertexts(ct, expected)
        THEN SharedSecret(m, k.hash) ELSE ImplicitRejection(k.z, ct)

(* decapsulate, which takes the packed key apart.                          *)
Decapsulate(sk, ct) ==
    LET m        == Decrypt(sk.s, ct)
        pk       == UnpackPublicKey(sk.ek)
        expected == Encrypt(pk.t, pk.A, m, G(m, sk.hash))
    IN  IF compare_ciphertexts(ct, expected)
        THEN SharedSecret(m, sk.hash) ELSE ImplicitRejection(sk.z, ct)

(* The results of every decapsulation the library offers for one key:      *)
(* decapsulate, unpacked::decapsulate on the generated and on the restored *)
(* key, decapsulate_incremental_key and decapsulate_compressed_key.        *)
Decapsulations(k, ct) ==
    {Decapsulate(k.packed, ct), DecapsulateUnpacked(k.unpacked, ct),
     DecapsulateUnpacked(k.restored, ct), DecapsulateUnpacked(from_bytes(k.stored), ct),
     Decapsulate(k.compressed, ct)}

-----------------------------------------------------------------------------
Init ==
    /\ keys = {}
    /\ started = {}
    /\ done = {}

GenerateKeyPair(d, z) ==
    LET unpacked == UnpackedKeyPair(d, z)
        packed   == PackedKeyPair(d, z)
    IN  /\ keys' = keys \cup
               {[packed |-> packed, unpacked |-> unpacked,
                 restored |-> keys_from_private_key(packed),
                 stored |-> to_bytes(unpacked),
                 compressed |-> to_bytes_compressed(unpacked)]}
        /\ UNCHANGED <<started, done>>

Finished(pk1, pk2, ct, ss) ==
    done' = done \cup {[pk1 |-> pk1, pk2 |-> pk2, ct |-> ct, ss |-> ss]}

(* The one-step encapsulations, to the public key bytes, or to the public  *)
(* half of an unpacked key pair.                                           *)
Encapsulate(k, m) ==
    LET result == EncapsulateUnpacked(UnpackPublicKey(k.packed.ek), m)
    IN  /\ Finished(PublicKey1(k.unpacked), k.packed.ek.t, result.ct, result.ss)
        /\ UNCHANGED <<keys, started>>

EncapsulateToUnpacked(k, m) ==
    LET result == EncapsulateUnpacked(k.unpacked, m)
    IN  /\ Finished(PublicKey1(k.unpacked), PublicKey2(k.unpacked), result.ct, result.ss)
        /\ UNCHANGED <<keys, started>>

(* encapsulate1 needs the first half of the public key only.               *)
Encapsulate1(pk1, m) ==
    LET first == encrypt_c1(G(m, pk1.hash), sample_matrix_A(pk1.seed, FALSE))
    IN  /\ started' = started \cup
               {[pk1 |-> pk1, c1 |-> first.c1, ss |-> SharedSecret(m, pk1.hash),
                 state |-> [r |-> first.r, e2 |-> first.e2, m |-> m]]}
        /\ UNCHANGED <<keys, done>>

(* encapsulate2 continues from the kept state with the second half.        *)
Encapsulate2(e, pk2) ==
    LET c2 == encrypt_c2(pk2, e.state.r, e.state.e2, e.state.m)
    IN  /\ e \in started
        /\ Finished(e.pk1, pk2, <<e.c1, c2>>, e.ss)
        /\ UNCHANGED <<keys, started>>

(* The second halves that can arrive: one of a key pair, or one that holds *)
(* a coefficient beyond the modulus in its twelve bits.                    *)
Beyond(t) ==
    {[t EXCEPT ![p[1]][p[2]] = @ + FIELD_MODULUS] :
        p \in {q \in Ranks \X Coefficients : t[q[1]][q[2]] + FIELD_MODULUS < 4096}}

SecondHalves == UNION {{PublicKey2(k.unpacked)} \cup Beyond(PublicKey2(k.unpacked)) : k \in keys}

Next ==
    \/ /\ Cardinality(keys) < MaxKeys
       /\ \E d \in Seeds, z \in RejectionValues : GenerateKeyPair(d, z)
    \/ /\ Cardinality(done) < MaxEncaps
       /\ \/ \E k \in keys, m \in Messages :
                \/ Encapsulate(k, m)
                \/ EncapsulateToUnpacked(k, m)
          \/ \E e \in started, pk2 \in SecondHalves : Encapsulate2(e, pk2)
    \/ /\ Cardinality(started) < MaxEncaps
       /\ \E k \in keys, m \in Messages : Encapsulate1(PublicKey1(k.unpacked), m)

Spec == Init /\ [][Next]_vars

-----------------------------------------------------------------------------
(* The hash of the public key that the seed d gives. *)
Hash(d) == H(PublicKeyBytes(CpaKeyPair(d)))

(* The parameters the code is instantiated with: the compression factors   *)
(* of the three parameter sets, messages of bits, and samplers that give   *)
(* field elements (sample_from_uniform_distribution_next) and noise of at  *)
(* most eta <= 3 (sample_from_binomial_distribution), for keys and for     *)
(* encapsulations.                                                         *)
ParametersOk ==
    /\ K \in Nat /\ N \in Nat /\ DU \in {10, 11} /\ DV \in {4, 5}
    /\ Messages \subseteq [Coefficients -> {0, 1}]
    /\ \A d \in Seeds : \A n \in Coefficients :
          /\ \A i, j \in Ranks : SampleUniform(d, i, j, n) \in 0..(FIELD_MODULUS - 1)
          /\ \A i \in 0..(2 * K) : SampleCbd(d, i, n) \in -3..3
          /\ \A m \in [Coefficients -> {0, 1}], i \in 0..(2 * K) :
                SampleCbd(G(m, Hash(d)), i, n) \in -3..3

ASSUME KemAssumption == ParametersOk /\ K <= 4

-----------------------------------------------------------------------------
(* An encapsulation made with the two halves of a public key that pass     *)
(* validate_pk_parts yields, after decapsulation by any interface and from *)
(* any form of the private key, the secret that encapsulate1 returned      *)
(* before it saw the second half.                                          *)
SecretsAgree ==
    \A e \in done, k \in keys :
        e.pk1 = PublicKey1(k.unpacked) /\ validate_pk_parts(e.pk1, e.pk2)
            => Decapsulations(k, e.ct) = {e.ss}

(* The two halves of whatever ciphertexts were sent.                       *)
Mixed == {<<e.ct[1], f.ct[2]>> : e, f \in done}

(* On any pair of ciphertext halves, those of another key and those made   *)
(* with a foreign second half included, the packed, unpacked, serialised,  *)
(* compressed and restored form of a key decapsulate to the same value;    *)
(* and the two packed forms, the compressed one reassembled from the       *)
(* halves of the public key included, pass validate_private_key_only.      *)
FormsAgree ==
    \A k \in keys :
        /\ validate_private_key_only(k.packed)
        /\ validate_private_key_only(k.compressed)
        /\ \A ct \in Mixed : Cardinality(Decapsulations(k, ct)) = 1

(* Halves of different encapsulations never decapsulate to the secret of   *)
(* one of them: re-encryption covers both halves.                          *)
OnlyWholeCiphertexts ==
    \A k \in keys, ct \in Mixed, e \in done :
        (validate_pk_parts(e.pk1, e.pk2) /\ ct # e.ct)
            => DecapsulateUnpacked(k.unpacked, ct) # e.ss
=============================================================================
