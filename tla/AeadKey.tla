------------------------------ MODULE AeadKey ------------------------------
(***************************************************************************)
(* The AEAD key object of libcrux-psq (aead.rs, AEADKeyNonce): key         *)
(* material, the 12-byte nonce read as an integer, and the expired flag.   *)
(*                                                                         *)
(* Encryption is symbolic.  A ciphertext is the record of the key, the     *)
(* nonce and the plaintext it was made from, and a key object opens it     *)
(* exactly when key and nonce agree.  The associated data travels in clear *)
(* next to the ciphertext it authenticates and is not told apart from it.  *)
(*                                                                         *)
(* nc says whether the object is compiled with the cargo feature           *)
(* nonce-control.                                                          *)
(***************************************************************************)
EXTENDS Naturals

CONSTANT NonceMax            \* NONCE_MAX, 2^96 - 1 in the code

ASSUME NonceMaxAssumption == NonceMax \in Nat \ {0}

AlignedHandshakeNonce == 1

NewKey(material) == [key |-> material, nonce |-> 0, expired |-> FALSE]

Expire(k) == [k EXCEPT !.expired = TRUE]

NewExpiredKey(material) == Expire(NewKey(material))

(* Only the key material is encoded: nonce and expired are skipped, and    *)
(* read back as zero and false.                                            *)
Recoded(k) == NewKey(k.key)

(* The two checks in front of every use of a key.  A use they refuse is    *)
(* answered with KeyExpired and leaves Expire(k).                          *)
UsableOffByOne(k, nc) == ~k.expired /\ (nc \/ k.nonce # NonceMax - 1)

Usable(k, nc) == /\ ~k.expired
                 /\ nc \/ k.nonce # NonceMax

IncrementNonceWraps(k, nc) ==
    IF nc THEN k ELSE [k EXCEPT !.nonce = (@ % (NonceMax - 1)) + 1]

IncrementNonce(k, nc) == IF nc THEN k ELSE [k EXCEPT !.nonce = @ + 1]

Seal(k, nc, plaintext) ==
    [key |-> k.key, nonce |-> IncrementNonce(k, nc).nonce, pt |-> plaintext]

Opens(k, nc, ct) ==
    /\ ct.key = k.key
    /\ ct.nonce = IncrementNonce(k, nc).nonce

(* The key after a failed decryption: the nonce saved before the increment *)
(* is put back.                                                            *)
DecryptFailedKeepsIncrement(k, nc) == IncrementNonce(k, nc)

DecryptFailed(k, nc) == [IncrementNonce(k, nc) EXCEPT !.nonce = k.nonce]

(* Handshake keys encrypt or decrypt once, at the same nonce in builds     *)
(* with and without nonce-control.                                         *)
HandshakeKeyUnaligned(k, nc) == k

HandshakeKey(k, nc) ==
    IF nc THEN [k EXCEPT !.nonce = AlignedHandshakeNonce] ELSE k

HandshakeSeal(k, nc, plaintext) == Seal(HandshakeKey(k, nc), nc, plaintext)

HandshakeOpens(k, nc, ct) == Opens(HandshakeKey(k, nc), nc, ct)

HandshakeUsed(k, nc) == Expire(IncrementNonce(HandshakeKey(k, nc), nc))
=============================================================================
