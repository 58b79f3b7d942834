---------------------------- MODULE StreamingHash ----------------------------
(***************************************************************************)
(* The incremental hashes and MACs of HACL*: SHA-2, SHA-3 and SHAKE,       *)
(* BLAKE2 and Poly1305.  They share one buffering scheme.  A handle holds  *)
(* a compression state, one buffer of alg.block bytes, and the number of   *)
(* bytes fed so far; the last full block always waits in the buffer,       *)
(* because only a digest knows whether it is the last one.                 *)
(*                                                                         *)
(* A compression state is modelled by what was compressed into it: its     *)
(* initial value, the bytes, and what each compression took beside them    *)
(* (BLAKE2: the byte counter; Poly1305: the length of the block).          *)
(***************************************************************************)
EXTENDS Naturals, Sequences

CONSTANTS Handles,
          Algs,         \* records [family, block, unit, suffix, h0, limit]
          Keys(_),      \* algorithm -> its keys, as byte sequences
          Params(_),    \* algorithm -> salts and personalizations
          DefaultParams,
          Inputs(_),    \* algorithm -> the chunks fed to it
          SqueezeLengths,
          None          \* no state, no digest

(* The length field of MD padding takes the last LenField bytes. *)
LenField == 1
Marker == 1       \* the 0x80 that starts MD padding
LastFlag == 0       \* the flag of the last BLAKE2 block
TopBit == 4       \* the 0x80 that ends SHA-3 padding

VARIABLES st,     \* handle -> its state, or None
          reply   \* the result of the last call

vars == <<st, reply>>

Live(h) == st[h] # None

Answer(op, code) == [op |-> op, code |-> code, hash |-> None, length |-> 0]

Output(hash, l) == [op |-> "digest", code |-> "Success", hash |-> hash,
                    length |-> l]

Zeros(n) == [i \in 1..n |-> 0]

Prefix(s, n) == SubSeq(s, 1, n)
Suffix(s, n) == SubSeq(s, n + 1, Len(s))

-----------------------------------------------------------------------------
(* Bytes of a message of n that wait in a buffer of b: never 0 once there  *)
(* is a message.                                                           *)
LastLen(n, b) == IF n % b = 0 /\ n > 0 THEN b ELSE n % b

(* What every compression of data takes beside its bytes, prev bytes into  *)
(* the message.                                                            *)
Notes(alg, prev, data) ==
    CASE alg.family = "blake2" ->
             [i \in 1..(Len(data) \div alg.block) |-> prev + i * alg.block]
      [] alg.family = "poly1305" ->
             [i \in 1..((Len(data) + alg.unit - 1) \div alg.unit) |->
                 IF i * alg.unit <= Len(data) THEN alg.unit
                                              ELSE Len(data) % alg.unit]
      [] OTHER -> <<>>

(* update_nblocks, update_multi, poly1305_update. *)
Compress(alg, block_state, prev, data) ==
    [block_state EXCEPT !.data = @ \o data,
                        !.notes = @ \o Notes(alg, prev, data)]

(* memcpy(dst + at, src, n) *)
Memcpy(dst, at, src) ==
    [i \in 1..Len(dst) |-> IF i \in (at + 1)..(at + Len(src)) THEN src[i - at]
                                                              ELSE dst[i]]

-----------------------------------------------------------------------------
(* Allocation and reset.  A BLAKE2 key fills the first block, which is     *)
(* buffered like any other; a Poly1305 key sets up the state and is kept   *)
(* for the end.  SHA-224 and SHA-256, and SHA-384 and SHA-512, differ in   *)
(* nothing but the initial value alg.h0 before they cut their output.      *)
KeyBlock(alg, key) ==
    IF alg.family = "blake2" /\ key # <<>>
    THEN key \o Zeros(alg.block - Len(key)) ELSE <<>>

(* sha224_init, sha256_init and their 64-bit counterparts. *)
MdInit(alg) == <<alg.h0>>

InitBlock(alg, key, params) ==
    [iv |-> CASE alg.family = "md" -> MdInit(alg)
              [] alg.family = "blake2" -> <<Len(key), params>>
              [] alg.family = "poly1305" -> key
              [] OTHER -> <<>>,
     data |-> <<>>, notes |-> <<>>]

PKey(alg, key) == IF alg.family = "poly1305" THEN key ELSE <<>>

Malloc(h, alg, key, params) ==
    /\ ~Live(h)
    /\ st' = [st EXCEPT ![h] =
                 [alg |-> alg, block_state |-> InitBlock(alg, key, params),
                  buf |-> Memcpy(Zeros(alg.block), 0, KeyBlock(alg, key)),
                  total_len |-> Len(KeyBlock(alg, key)),
                  p_key |-> PKey(alg, key)]]
    /\ reply' = Answer("malloc", "Success")

KeyLength(s) == IF s.alg.family = "blake2" THEN s.block_state.iv[1]
                                           ELSE Len(s.p_key)

(* The buffer is not cleared: total_len says how much of it counts. *)
ResetState(s, key) ==
    [s EXCEPT !.block_state = InitBlock(s.alg, key, DefaultParams),
              !.buf = Memcpy(@, 0, KeyBlock(s.alg, key)),
              !.total_len = Len(KeyBlock(s.alg, key)),
              !.p_key = PKey(s.alg, key)]

Reset(h, key) ==
    /\ Live(h)
    /\ key \in Keys(st[h].alg)
    /\ IF Len(key) = KeyLength(st[h])
       THEN /\ st' = [st EXCEPT ![h] = ResetState(@, key)]
            /\ reply' = Answer("reset", "Success")
       ELSE /\ reply' = Answer("reset", "InvalidKeyLength")
            /\ UNCHANGED st

(* Poly1305 has no copy operation. *)
Copies(alg) == alg.family # "poly1305"

Copy(h, g) ==
    /\ Live(h) /\ ~Live(g)
    /\ Copies(st[h].alg)
    /\ st' = [st EXCEPT ![g] = st[h]]
    /\ reply' = Answer("copy", "Success")

-----------------------------------------------------------------------------
(* The chunk fits the free part of the buffer. *)
UpdateSmall(s, chunk) ==
    [s EXCEPT !.buf = Memcpy(@, LastLen(s.total_len, s.alg.block), chunk),
              !.total_len = @ + Len(chunk)]

(* The buffer is empty or full: compress it, compress the blocks of the    *)
(* chunk but the last, keep the rest.                                      *)
UpdateBlocksEager(s, chunk) ==
    LET b == s.alg.block
        sz == LastLen(s.total_len, b)
        flushed == IF sz = 0 THEN s.block_state
                   ELSE Compress(s.alg, s.block_state, s.total_len - sz, s.buf)
        n == (Len(chunk) \div b) * b
    IN  [s EXCEPT !.block_state = Compress(s.alg, flushed, s.total_len,
                                           Prefix(chunk, n)),
                  !.buf = Memcpy(@, 0, Suffix(chunk, n)),
                  !.total_len = @ + Len(chunk)]

UpdateBlocks(s, chunk) ==
    LET b == s.alg.block
        sz == LastLen(s.total_len, b)
        flushed == IF sz = 0 THEN s.block_state
                   ELSE Compress(s.alg, s.block_state, s.total_len - sz, s.buf)
        n == ((Len(chunk) - LastLen(Len(chunk), b)) \div b) * b
    IN  [s EXCEPT !.block_state = Compress(s.alg, flushed, s.total_len,
                                           Prefix(chunk, n)),
                  !.buf = Memcpy(@, 0, Suffix(chunk, n)),
                  !.total_len = @ + Len(chunk)]

UpdateState(s, chunk) ==
    LET sz == LastLen(s.total_len, s.alg.block)
        diff == s.alg.block - sz
    IN  IF Len(chunk) <= diff THEN UpdateSmall(s, chunk)
        ELSE IF sz = 0 THEN UpdateBlocks(s, chunk)
        ELSE UpdateBlocks(UpdateSmall(s, Prefix(chunk, diff)),
                          Suffix(chunk, diff))

LengthExceeded(s, chunk) == Len(chunk) > s.alg.limit - s.total_len

Update(h, chunk) ==
    /\ Live(h)
    /\ chunk \in Inputs(st[h].alg)
    /\ IF LengthExceeded(st[h], chunk)
       THEN /\ reply' = Answer("update", "MaximumLengthExceeded")
            /\ UNCHANGED st
       ELSE /\ st' = [st EXCEPT ![h] = UpdateState(@, chunk)]
            /\ reply' = Answer("update", "Success")

-----------------------------------------------------------------------------
(* sha256_update_last: the padding and the length take one block, or two   *)
(* when they do not fit behind the rest of the message.  The length counts *)
(* bits in a field that holds 8 * (limit + 1) of them, 2^64.               *)
MdPad(alg, total, rest) ==
    LET blocks == IF Len(rest) + LenField + 1 <= alg.block THEN 1 ELSE 2
    IN  rest \o <<Marker>>
             \o Zeros(blocks * alg.block - Len(rest) - 1 - LenField)
             \o <<(8 * total) % (8 * (alg.limit + 1))>>

Sha3PadOneSuffix(alg, rest) ==
    LET b == alg.block
        last == IF Len(rest) = b THEN <<>> ELSE rest
        byte(i) == IF i <= Len(last) THEN last[i]
                   ELSE IF i = Len(last) + 1 THEN 1 ELSE 0
    IN  (IF Len(rest) = b THEN rest ELSE <<>>)
        \o [i \in 1..b |-> byte(i) + IF i = b THEN TopBit ELSE 0]

(* update_last_sha3: a full block is absorbed, and an empty one is padded. *)
Sha3Pad(alg, rest) ==
    LET b == alg.block
        last == IF Len(rest) = b THEN <<>> ELSE rest
        byte(i) == IF i <= Len(last) THEN last[i]
                   ELSE IF i = Len(last) + 1 THEN alg.suffix ELSE 0
    IN  (IF Len(rest) = b THEN rest ELSE <<>>)
        \o [i \in 1..b |-> byte(i) + IF i = b THEN TopBit ELSE 0]

(* The end of a message: total bytes of it in all, rest of them not yet    *)
(* compressed.                                                             *)
UpdateLast(alg, block_state, total, rest) ==
    CASE alg.family = "md" ->
             Compress(alg, block_state, total, MdPad(alg, total, rest))
      [] alg.family = "sha3" ->
             Compress(alg, block_state, total, Sha3Pad(alg, rest))
      [] alg.family = "blake2" ->
             [block_state EXCEPT
                !.data = @ \o rest \o Zeros(alg.block - Len(rest)),
                !.notes = @ \o <<total, LastFlag>>]
      [] alg.family = "poly1305" ->
             LET n == Len(rest) - LastLen(Len(rest), alg.unit)
             IN  Compress(alg, Compress(alg, block_state, 0, Prefix(rest, n)),
                          0, Suffix(rest, n))

Finish(alg, p_key, block_state) == [state |-> block_state, key |-> p_key]

(* The digest functions work on a copy of the compression state. *)
DigestState(s) ==
    LET rest == Prefix(s.buf, LastLen(s.total_len, s.alg.block))
    IN  Finish(s.alg, s.p_key,
               UpdateLast(s.alg, s.block_state, s.total_len, rest))

Shake(alg) == alg.family = "sha3" /\ alg.suffix = 2

(* Lengths that digest (0: the fixed length) and squeeze accept. *)
Lengths(alg) == IF Shake(alg) THEN SqueezeLengths \ {0} ELSE {0}

Digest(h) ==
    /\ Live(h)
    /\ reply' = IF Shake(st[h].alg) THEN Answer("digest", "InvalidAlgorithm")
                ELSE Output(DigestState(st[h]), 0)
    /\ UNCHANGED st

Squeeze(h, l) ==
    /\ Live(h) /\ st[h].alg.family = "sha3"
    /\ reply' = IF ~Shake(st[h].alg) THEN Answer("digest", "InvalidAlgorithm")
                ELSE IF l = 0 THEN Answer("digest", "InvalidLength")
                ELSE Output(DigestState(st[h]), l)
    /\ UNCHANGED st

Release(h) == /\ Live(h)
              /\ st' = [st EXCEPT ![h] = None]
              /\ reply' = Answer("free", "Success")

-----------------------------------------------------------------------------
Init == /\ st = [h \in Handles |-> None]
        /\ reply = Answer("none", "Success")

Next == \E h \in Handles :
            \/ \E alg \in Algs : \E key \in Keys(alg), params \in Params(alg) :
                   Malloc(h, alg, key, params)
            \/ \E key \in UNION {Keys(alg) : alg \in Algs} : Reset(h, key)
            \/ \E g \in Handles : Copy(h, g)
            \/ \E chunk \in UNION {Inputs(alg) : alg \in Algs} : Update(h, chunk)
            \/ Digest(h)
            \/ \E l \in SqueezeLengths : Squeeze(h, l)
            \/ Release(h)

Spec == Init /\ [][Next]_vars

-----------------------------------------------------------------------------
(* The one-shot functions: hash_256, keccak, hash_with_key, mac.  BLAKE2   *)
(* compresses the key block first, as the last block when the message is   *)
(* empty, and like the streaming code keeps the last block back.           *)
Hash(alg, key, params, message) ==
    LET keyed == KeyBlock(alg, key)
        n == Len(message)
        done == n - (CASE alg.family = "blake2" -> LastLen(n, alg.block)
                       [] alg.family = "poly1305" -> 0
                       [] OTHER -> n % alg.block)
        whole == Compress(alg,
                          Compress(alg, InitBlock(alg, key, params), 0, keyed),
                          Len(keyed), Prefix(message, done))
    IN  Finish(alg, PKey(alg, key),
               IF keyed # <<>> /\ n = 0
               THEN UpdateLast(alg, InitBlock(alg, key, params),
                               Len(keyed), keyed)
               ELSE IF alg.family = "poly1305"
               THEN whole
               ELSE UpdateLast(alg, whole, Len(keyed) + n,
                               Suffix(message, done)))

(* What a handle stands for: everything compressed and everything waiting, *)
(* less the block of the key.                                              *)
Whole(s) ==
    s.block_state.data \o Prefix(s.buf, LastLen(s.total_len, s.alg.block))

Stream(s) ==
    LET blake2 == s.alg.family = "blake2"
        keyed == IF blake2 /\ KeyLength(s) > 0 THEN s.alg.block ELSE 0
    IN  [alg |-> s.alg,
         key |-> IF blake2 THEN Prefix(Whole(s), KeyLength(s)) ELSE s.p_key,
         params |-> IF blake2 THEN s.block_state.iv[2] ELSE DefaultParams,
         data |-> Suffix(Whole(s), keyed)]

Capacity(alg, key) == alg.limit - Len(KeyBlock(alg, key))

Abstract == INSTANCE HashStream
                WITH stream <- [h \in Handles |->
                                  IF Live(h) THEN Stream(st[h]) ELSE None],
                     Default <- DefaultParams

(* Every interleaving of update, reset, copy and digest on every handle    *)
(* behaves as the abstract stream does: however a message is cut into      *)
(* chunks, whatever a previous use left in the buffer, and with a digest   *)
(* taken in the middle, the digest is that of the one-shot function.       *)
DigestIsOneShot == Abstract!Spec

(* Initial value and padding keep messages and algorithms apart: two       *)
(* Merkle-Damgard or two Keccak handles of one block size finish with the  *)
(* same blocks compressed into the same initial value only if they were    *)
(* fed the same message and are the same algorithm (sha256_update_last,    *)
(* update_last_sha3, sha224_init).                                         *)
PaddingSeparates ==
    \A g, h \in Handles :
        /\ Live(g) /\ Live(h)
        /\ st[g].alg.family = st[h].alg.family
        /\ st[g].alg.family \in {"md", "sha3"}
        /\ st[g].alg.block = st[h].alg.block
        /\ DigestState(st[g]).state = DigestState(st[h]).state
        => st[g].alg = st[h].alg /\ Whole(st[g]) = Whole(st[h])
=============================================================================
