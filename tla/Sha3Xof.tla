------------------------------ MODULE Sha3Xof ------------------------------
(***************************************************************************)
(* The incremental SHA-3 of libcrux: KeccakXofState behind the SHAKE and   *)
(* cShake objects and the SHA-3 hashers, KMAC on top of it, and the block  *)
(* interface (squeeze_first_three_blocks, squeeze_next_block) that ML-KEM  *)
(* and ML-DSA sample from.                                                 *)
(*                                                                         *)
(* The Keccak state is modelled by what was loaded into it, block after    *)
(* block, and by the number of permutations since the padded block: byte i *)
(* of what it gives after f of them is the pair <<f, i>>.                  *)
(***************************************************************************)
EXTENDS Naturals, Sequences

CONSTANTS RATE,
          Radix,      \* 256: what a byte of an encoded length counts to
          Chunks,     \* the pieces of message that are absorbed
          Strings,    \* names, customizations and keys
          Delims,     \* the delimiters of SHA-3 and SHAKE
          Requests,   \* the lengths of output asked for
          None

ASSUME RateAssumption == RATE \in Nat \ {0, 1}

CShakeDelim == 4
TopBit == 128                  \* the 0x80 that ends the padding
KmacLabel == <<75>>            \* "KMAC", one byte of it

VARIABLES x,        \* the state: inner, buf, buf_len, sponge, squeeze_buf, squeeze_pos
          phase,    \* what the caller does with it
          delim,    \* the DELIMITER its type gives absorb_final
          fed,      \* history: the bytes absorbed
          origin,   \* history: what a cShake or KMAC call was given
          out       \* history: the bytes squeezed

vars == <<x, phase, delim, fed, origin, out>>

Zeros(n) == [i \in 1..n |-> 0]
Prefix(s, n) == SubSeq(s, 1, n)
Suffix(s, n) == SubSeq(s, n + 1, Len(s))

(* copy_from_slice into dst[at..at + src.len()] *)
CopyInto(dst, at, src) ==
    [i \in 1..Len(dst) |-> IF i \in (at + 1)..(at + Len(src)) THEN src[i - at]
                                                              ELSE dst[i]]

Block(f) == [i \in 1..RATE |-> <<f, i>>]

-----------------------------------------------------------------------------
(* Absorbing. *)
new == [inner |-> [data |-> <<>>, f |-> 0], buf |-> Zeros(RATE), buf_len |-> 0,
        sponge |-> FALSE, squeeze_buf |-> Zeros(RATE), squeeze_pos |-> RATE]

(* How many bytes of the input complete the buffered block. *)
Consumed(s, input) ==
    IF s.buf_len # 0 /\ Len(input) >= RATE - s.buf_len THEN RATE - s.buf_len
                                                       ELSE 0

fill_buffer(s, input) ==
    IF Consumed(s, input) = 0 THEN s
    ELSE [s EXCEPT !.buf = CopyInto(@, s.buf_len,
                                    Prefix(input, Consumed(s, input))),
                   !.buf_len = RATE]

Remainder(s, input) == (Len(input) - Consumed(s, input)) % RATE

absorb_full(s, input) ==
    LET filled == fill_buffer(s, input)
        whole  == SubSeq(input, Consumed(s, input) + 1,
                         Len(input) - Remainder(s, input))
    IN  IF filled.buf_len = RATE
        THEN [filled EXCEPT !.inner.data = (@ \o filled.buf) \o whole,
                            !.buf_len = 0]
        ELSE [filled EXCEPT !.inner.data = @ \o whole]

absorbOverwrites(s, input) ==
    LET t == absorb_full(s, input)
        r == Remainder(s, input)
    IN  IF r > 0
        THEN [t EXCEPT !.buf = CopyInto(@, 0, Suffix(input, Len(input) - r)),
                       !.buf_len = r]
        ELSE t

absorb(s, input) ==
    LET t == absorb_full(s, input)
        r == Remainder(s, input)
    IN  IF r > 0
        THEN [t EXCEPT !.buf = CopyInto(@, t.buf_len,
                                        Suffix(input, Len(input) - r)),
                       !.buf_len = @ + r]
        ELSE t

(* load_last: the delimiter follows the message, the top bit ends the      *)
(* block; both may fall on the same byte.                                  *)
load_last(data, last, len, d) ==
    LET marked == CopyInto(CopyInto(Zeros(RATE), 0, Prefix(last, len)), len, <<d>>)
    IN  data \o [marked EXCEPT ![RATE] = @ + TopBit]

absorb_final(s, input, d) ==
    LET t == absorb(s, input)
    IN  [t EXCEPT !.inner.data = load_last(@, t.buf, t.buf_len, d)]

-----------------------------------------------------------------------------
(* Squeezing: what is left of the buffered block first, then whole blocks  *)
(* straight into the output, and the last, partial one by the buffer.      *)
Take(s, n) == IF RATE - s.squeeze_pos < n THEN RATE - s.squeeze_pos ELSE n

FirstPermutedNot(s) == s.inner.f

FirstPermuted(s) == IF s.sponge THEN s.inner.f + 1 ELSE s.inner.f

squeeze(s, n) ==
    LET remaining == n - Take(s, n)
        blocks    == remaining \div RATE
        trailing  == remaining % RATE
        f         == FirstPermuted(s)
    IN  CASE n = 0 -> s
          [] n > 0 /\ remaining = 0 -> [s EXCEPT !.squeeze_pos = @ + n]
          [] remaining > 0 /\ blocks = 0 ->
                 [s EXCEPT !.inner.f = f, !.sponge = TRUE,
                           !.squeeze_buf = Block(f), !.squeeze_pos = remaining]
          [] blocks > 0 /\ trailing = 0 ->
                 [s EXCEPT !.inner.f = f + blocks - 1, !.sponge = TRUE,
                           !.squeeze_pos = RATE]
          [] blocks > 0 /\ trailing > 0 ->
                 [s EXCEPT !.inner.f = f + blocks, !.sponge = TRUE,
                           !.squeeze_buf = Block(f + blocks),
                           !.squeeze_pos = trailing]

Squeezed(s, n) ==
    [k \in 1..n |->
        IF k <= Take(s, n) THEN s.squeeze_buf[s.squeeze_pos + k]
        ELSE LET j == k - Take(s, n) - 1
             IN  Block(FirstPermuted(s) + j \div RATE)[(j % RATE) + 1]]

-----------------------------------------------------------------------------
(* One call for the whole message: keccak1. *)
Keccak1Absorb(input, d) ==
    LET rem == Len(input) % RATE
    IN  load_last(Prefix(input, Len(input) - rem),
                  Suffix(input, Len(input) - rem), rem, d)

Keccak1Squeeze(n) == [k \in 1..n |-> Block((k - 1) \div RATE)[((k - 1) % RATE) + 1]]

-----------------------------------------------------------------------------
(* cShake and KMAC.  Lengths are encoded in as many bytes as they take,    *)
(* and what they introduce is padded to whole blocks.                      *)
Digits(num) ==
    LET size == CHOOSE k \in 1..(num + 1) : num < Radix^k
                                            /\ (k = 1 \/ num >= Radix^(k - 1))
    IN  [i \in 1..size |-> (num \div Radix^(size - i)) % Radix]

left_encode(num) == <<Len(Digits(num))>> \o Digits(num)
right_encodeLeft(num) == left_encode(num)

right_encode(num) == Digits(num) \o <<Len(Digits(num))>>

left_encode_byte(num) == <<1, num>>

PadZeros(buffer_len) == Zeros((RATE - (buffer_len % RATE)) % RATE)

CShakePieces(name, custom) ==
    LET n == left_encode(8 * Len(name))
        c == left_encode(8 * Len(custom))
    IN  <<left_encode_byte(RATE), n, name, c, custom,
          PadZeros(2 + (Len(name) % RATE) + Len(n) + Len(c)
                     + (Len(custom) % RATE))>>

AbsorbAll(s, pieces) ==
    LET after[i \in 0..Len(pieces)] ==
            IF i = 0 THEN s ELSE absorb(after[i - 1], pieces[i])
    IN  after[Len(pieces)]

Concat(pieces) ==
    LET upto[i \in 0..Len(pieces)] ==
            IF i = 0 THEN <<>> ELSE upto[i - 1] \o pieces[i]
    IN  upto[Len(pieces)]

KmacPieces(key, data) ==
    LET k == left_encode(8 * Len(key))
    IN  <<left_encode_byte(RATE), k, key,
          PadZeros(2 + Len(k) + (Len(key) % RATE)), data>>

-----------------------------------------------------------------------------
Fresh(p) == phase' = p /\ out' = <<>>

New(d) ==
    /\ phase = "none"
    /\ x' = new /\ delim' = d /\ fed' = <<>> /\ origin' = None
    /\ Fresh("absorb")

NewCshake(name, custom) ==
    /\ phase = "none"
    /\ x' = AbsorbAll(new, CShakePieces(name, custom))
    /\ delim' = CShakeDelim
    /\ fed' = Concat(CShakePieces(name, custom))
    /\ origin' = <<"cshake", name, custom>>
    /\ Fresh("absorb")

Absorb(input) ==
    /\ phase = "absorb"
    /\ x' = absorb(x, input)
    /\ fed' = fed \o input
    /\ origin' = None
    /\ UNCHANGED <<phase, delim, out>>

AbsorbFinal(input) ==
    /\ phase = "absorb"
    /\ x' = absorb_final(x, input, delim)
    /\ fed' = fed \o input
    /\ origin' = None
    /\ phase' = "squeeze"
    /\ UNCHANGED <<delim, out>>

Squeeze(n) ==
    /\ phase = "squeeze"
    /\ x' = squeeze(x, n)
    /\ out' = out \o Squeezed(x, n)
    /\ UNCHANGED <<phase, delim, fed, origin>>

(* Hasher::finish: absorbs nothing more, gives one digest and consumes the *)
(* state.                                                                  *)
Finish(n) ==
    /\ phase = "absorb"
    /\ LET t == absorb_final(x, <<>>, delim)
       IN  x' = squeeze(t, n) /\ out' = Squeezed(t, n)
    /\ phase' = "finished"
    /\ origin' = None
    /\ UNCHANGED <<delim, fed>>

(* compute_kmac: the whole of it is one call. *)
Kmac(key, data, custom, tag) ==
    LET pieces == CShakePieces(KmacLabel, custom) \o KmacPieces(key, data)
        last   == right_encode(8 * tag)
        t      == absorb_final(AbsorbAll(new, pieces), last, CShakeDelim)
    IN  /\ phase = "none"
        /\ x' = squeeze(t, tag)
        /\ out' = Squeezed(t, tag)
        /\ delim' = CShakeDelim
        /\ fed' = Concat(pieces) \o last
        /\ origin' = <<"kmac", key, data, custom, tag>>
        /\ phase' = "finished"

(* The block interface has no buffer of its own: a final block shorter     *)
(* than RATE, a number of first blocks, then one block at a time.          *)
BlocksFinal(input) ==
    /\ phase = "none"
    /\ Len(input) < RATE
    /\ \E d \in Delims :
          /\ x' = [new EXCEPT !.inner.data = load_last(@, input, Len(input), d)]
          /\ delim' = d
    /\ fed' = input /\ origin' = None
    /\ Fresh("first")

SqueezeFirst(k) ==
    /\ phase = "first"
    /\ x' = [x EXCEPT !.inner.f = k - 1]
    /\ out' = [j \in 1..(k * RATE) |->
                  Block((j - 1) \div RATE)[((j - 1) % RATE) + 1]]
    /\ phase' = "next"
    /\ UNCHANGED <<delim, fed, origin>>

SqueezeNext ==
    /\ phase = "next"
    /\ x' = [x EXCEPT !.inner.f = @ + 1]
    /\ out' = out \o Block(x.inner.f + 1)
    /\ UNCHANGED <<phase, delim, fed, origin>>

Drop == /\ phase \notin {"none"}
        /\ x' = new /\ delim' = 0 /\ fed' = <<>> /\ origin' = None
        /\ Fresh("none")

Init == /\ x = new /\ delim = 0 /\ fed = <<>> /\ origin = None
        /\ phase = "none" /\ out = <<>>

Next == \/ \E d \in Delims : New(d)
        \/ \E name, custom \in Strings : NewCshake(name, custom)
        \/ \E input \in Chunks : Absorb(input)
        \/ \E input \in Chunks : AbsorbFinal(input)
        \/ \E n \in Requests : Squeeze(n)
        \/ \E n \in Requests : Finish(n)
        \/ \E key, custom \in Strings, data \in Chunks, tag \in Requests :
              Kmac(key, data, custom, tag)
        \/ \E input \in Chunks : BlocksFinal(input)
        \/ \E k \in {1, 3, 5} : SqueezeFirst(k)
        \/ SqueezeNext
        \/ Drop

Spec == Init /\ [][Next]_vars

-----------------------------------------------------------------------------
(* Whatever the sizes of the pieces, every byte absorbed is in the sponge  *)
(* or in the buffer, in order, and a buffer that is left is never full:    *)
(* absorb_final writes its delimiter at buf[buf_len].                      *)
NothingLost ==
    phase = "absorb" =>
        /\ x.buf_len \in 0..(RATE - 1)
        /\ x.inner.data \o Prefix(x.buf, x.buf_len) = fed
        /\ ~x.sponge /\ x.squeeze_pos = RATE /\ x.inner.f = 0

(* The bytes squeezed in any number of calls are what one call for the     *)
(* whole message gives: none skipped, repeated or taken from a block too   *)
(* early, through the XOF objects, the hashers, KMAC and the block calls.  *)
XofIsOneShot ==
    phase \notin {"none", "absorb"} =>
        /\ x.inner.data = Keccak1Absorb(fed, delim)
        /\ out = Keccak1Squeeze(Len(out))

(* What cShake and KMAC absorb before a caller's bytes determines what     *)
(* they were called with: no two names, customizations, keys, messages or  *)
(* tag lengths meet in the sponge, and the prefix fills whole blocks.      *)
OriginsSeparate ==
    origin # None =>
        \/ /\ origin[1] = "cshake"
           /\ x.buf_len = 0
           /\ \A name, custom \in Strings :
                 fed = Concat(CShakePieces(name, custom))
                     => origin = <<"cshake", name, custom>>
        \/ /\ origin[1] = "kmac"
           /\ \A key, custom \in Strings, data \in Chunks, tag \in Requests :
                 fed = Concat(CShakePieces(KmacLabel, custom)
                              \o KmacPieces(key, data)) \o right_encode(8 * tag)
                     => origin = <<"kmac", key, data, custom, tag>>
=============================================================================
