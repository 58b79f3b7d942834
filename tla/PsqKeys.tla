------------------------------ MODULE PsqKeys ------------------------------
(***************************************************************************)
(* The key schedule of libcrux-psq, as symbolic terms.                     *)
(*                                                                         *)
(* Every hash or key-derivation call is the tuple of its inputs behind a   *)
(* tag for the call, so two results are equal exactly when the same call   *)
(* was made on the same inputs.  The code separates its calls by the       *)
(* domain separators of the transcripts and the labels of the derivations. *)
(* Optional values are sequences of length at most one.                    *)
(***************************************************************************)
EXTENDS Sequences

None == <<>>

Some(x) == <<x>>

-----------------------------------------------------------------------------
(* Transcript hashes: handshake/transcript.rs; TxImport is the add_hash of *)
(* Session::import.                                                        *)
Tx0NoContext(context, responder_pk, initiator_pk) ==
    <<"tx0", responder_pk, initiator_pk>>

Tx0(context, responder_pk, initiator_pk) ==
    <<"tx0", context, responder_pk, initiator_pk>>

Tx1(tx0, authenticator, responder_pq_pk, pq_encaps) ==
    <<"tx1", tx0, authenticator, responder_pq_pk, pq_encaps>>

Tx2(prev_tx, responder_ephemeral_pk) ==
    <<"tx2", prev_tx, responder_ephemeral_pk>>

TxImport(tx, identifier) == <<"tx3", tx, identifier>>

(* The shared secret of two Diffie-Hellman keys: either side obtains it    *)
(* from its own secret and the other's public key.                         *)
DHSharedSecret(a, b) == <<"dh", {a, b}>>

(* Encapsulation under a public key with a given randomness, and what the  *)
(* holder of key pair pk obtains from an encapsulation.                    *)
PqEncaps(pk, rand) == <<"encaps", pk, rand>>

PqSecret(pk, encaps) == <<"pq secret", pk, encaps>>

Signature(vk, tx1) == <<"sig", vk, tx1>>

-----------------------------------------------------------------------------
(* Handshake keys K0, K1, K2: handshake.rs, responder.rs, registration.rs, *)
(* query.rs.                                                               *)
K0(g_xs, tx0, aead) == <<"K0", g_xs, tx0, aead>>

K1Dh(k0, g_cs, pq_secret, tx1, aead) ==
    <<"K1 dh", k0, g_cs, pq_secret, tx1, aead>>

K1Sig(k0, pq_secret, tx1, signature, aead) ==
    <<"K1 sig", k0, pq_secret, tx1, signature, aead>>

K2Query(k0, g_xs, g_xy, tx2) == <<"K2 query", k0, g_xs, g_xy, tx2>>

K2RegistrationDh(k1, g_cy, g_xy, tx2, aead) ==
    <<"K2 dh", k1, g_cy, g_xy, tx2, aead>>

K2RegistrationSig(k1, g_xy, tx2, aead) == <<"K2 sig", k1, g_xy, tx2, aead>>

-----------------------------------------------------------------------------
(* Session keys: session/session_key.rs, session.rs, transport.rs.         *)
DeriveSessionKey(k2, tx2) == <<"session key", k2, tx2>>

SessionKeyId(key) == <<"session key id", key>>

DeriveImportKey(key, psk) == <<"secret import", key, psk>>

DerivePkBinder(key, binding) == <<"pk binder", key, binding>>

DeriveChannelKey(label, key, pk_binder, counter) ==
    <<label, key, pk_binder, counter>>
=============================================================================
