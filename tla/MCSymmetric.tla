----------------------------- MODULE MCSymmetric -----------------------------
(***************************************************************************)
(* The symmetric primitives side by side: in every behaviour one of them   *)
(* is the subject and runs, the others stay as they start.                 *)
(***************************************************************************)
EXTENDS Sha3Xof, HmacDrbg, TLC

CONSTANTS Handles, MaxHashed,
          MaxFed, MaxOut, MaxSeeds, MaxGiven, MaxStream

VARIABLES subject, st, hashReply

hashVars == <<st, hashReply>>

-----------------------------------------------------------------------------
(* The XOF: pieces shorter than, equal to and longer than a block of three *)
(* bytes, ending in bytes that padding and encoded lengths also use.       *)
MCChunks == {<<>>, <<2>>, <<2, 0>>, <<0, 1, 31>>, <<1, 8, 1, 0>>,
             <<3, 0, 4, 1, 8, 1, 2>>}

(* Two bytes are sixteen bits, one more digit of the radix of the instance *)
MCStrings == {<<>>, <<0>>, <<1, 8>>, <<75, 1, 0>>}

MCRequests == {0, 1, 2, 3, 4, 7}

(* Twice as many bytes after the prefix of a cShake. *)
XofBounded == /\ Len(fed) <= (IF delim = CShakeDelim THEN 2 ELSE 1) * MaxFed
              /\ Len(out) <= MaxOut

-----------------------------------------------------------------------------
(* The streaming hashes: blocks of two or three bytes and messages of up   *)
(* to three blocks; two SHA-2 of one block size, and two Keccak; the       *)
(* Poly1305 of the vectorised builds buffers two of its units.             *)
Alg(family, block, unit, suffix, h0, limit) ==
    [family |-> family, block |-> block, unit |-> unit, suffix |-> suffix,
     h0 |-> h0, limit |-> limit]

HashAlgs == {Alg("md", 3, 3, 0, "h224", 7), Alg("md", 3, 3, 0, "h256", 7),
             Alg("sha3", 2, 2, 1, "zero", 5), Alg("sha3", 2, 2, 2, "zero", 5),
             Alg("blake2", 2, 2, 0, "zero", 7),
             Alg("poly1305", 2, 2, 0, "zero", 6),
             Alg("poly1305", 4, 2, 0, "zero", 9)}

HashKeys(alg) == CASE alg.family = "blake2" -> {<<>>, <<1>>}
                   [] alg.family = "poly1305" -> {<<0>>, <<1>>}
                   [] OTHER -> {<<>>}

HashParams(alg) == IF alg.family = "blake2" THEN {"default", "salted"}
                   ELSE {"default"}

(* Zeros, and a byte that padding could be mistaken for. *)
HashInputs(alg) ==
    LET b == IF alg.family = "sha3" THEN alg.suffix + 4 ELSE 1
    IN  {<<>>, <<0>>, <<b, 0, 0>>, <<b, 0, 0, b, 0>>}
        \cup IF alg.family \in {"md", "sha3"} THEN {<<b>>} ELSE {}

Hash == INSTANCE StreamingHash
            WITH reply <- hashReply, Algs <- HashAlgs, Keys <- HashKeys,
                 Params <- HashParams, DefaultParams <- "default",
                 Inputs <- HashInputs, SqueezeLengths <- {0, 1}

(* One family at a time, and so many bytes in all handles together: a      *)
(* handle is filled to its limit while the other is empty.                 *)
HashBounded ==
    \A g, h \in Handles :
        g # h /\ st[g] # None /\ st[h] # None =>
            /\ st[g].alg.family = st[h].alg.family
            /\ st[g].total_len + st[h].total_len <= MaxHashed

-----------------------------------------------------------------------------
(* The generators: blocks of two bytes, one of them the V that an update   *)
(* leaves.                                                                 *)
MCBlocks == {<<0, 0>>, <<0, 1>>, <<1, 0>>}
MCUpdated == {<<1, 0>>}

DrbgBounded == /\ entropy <= MaxSeeds
               /\ Len(given) <= MaxGiven
               /\ Len(stream) <= MaxStream

-----------------------------------------------------------------------------
MCInit ==
    /\ subject \in {"xof", "hash", "drbg"}
    /\ Init /\ Hash!Init /\ DrbgInit

MCNext ==
    \/ /\ subject = "xof" /\ Next
       /\ UNCHANGED <<subject, hashVars, drbgVars>>
    \/ /\ subject = "hash" /\ Hash!Next
       /\ UNCHANGED <<subject, vars, drbgVars>>
    \/ /\ subject = "drbg" /\ DrbgNext
       /\ UNCHANGED <<subject, vars, hashVars>>

MCSpec == MCInit /\ [][MCNext]_<<subject, vars, hashVars, drbgVars>>

Bounded == XofBounded /\ HashBounded /\ DrbgBounded

Symmetry == Permutations(Handles)

(* Every interleaving of update, reset, copy, digest and squeeze on the    *)
(* handles of StreamingHash implements HashStream: a digest is that of the *)
(* one-shot function, however the message was cut into chunks.             *)
DigestIsOneShot == Hash!DigestIsOneShot

(* The initial values and the padding of update_last keep messages and     *)
(* algorithms apart: equal blocks compressed into equal initial values     *)
(* mean equal messages of the same algorithm.                              *)
PaddingSeparates == Hash!PaddingSeparates
=============================================================================
