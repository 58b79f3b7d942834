---------------------------- MODULE MCHpkeContext ----------------------------
EXTENDS HpkeContext, TLC

CONSTANTS alice, bob, psk, id, x, y

Config(mode, kem, aead) == [mode |-> mode, kem |-> kem, aead |-> aead]

MCConfigs == {Config("Base", "dh", "aead"), Config("Psk", "pq", "aead"),
              Config("Auth", "dh", "aead"), Config("Auth", "pq", "aead"),
              Config("AuthPsk", "dh", "aead"), Config("Base", "dh", "export")}

Input(key, info, p, p_id, peer) ==
    [key |-> key, info |-> info, psk |-> p, psk_id |-> p_id, peer |-> peer]

(* To one receiver by two senders, with and without a PSK; two infos; no   *)
(* sender key and a short PSK; a PSK without its identifier.               *)
MCSetupInputs == {Input(bob, x, None, None, alice), Input(bob, y, None, None, bob),
                  Input(bob, x, psk, id, alice),
                  Input(bob, x, Short, id, None), Input(bob, x, psk, None, alice)}

(* The code a call returned changes nothing that follows. *)
View == <<hpke, seeds, senders, receivers, wire>>

Symmetry == Permutations(Instances) \cup Permutations(Plaintexts)
=============================================================================
