------------------------------ MODULE HmacDrbg ------------------------------
(***************************************************************************)
(* HMAC-DRBG in its five forms: the HACL* generator fed by its caller      *)
(* ("hacl"), EverCrypt's, which draws its own entropy ("evercrypt"), the   *)
(* Rust generator without ("rust") and with ("health") continuous health   *)
(* tests, and the auto-reseeding HmacDrbgRng ("rng").                      *)
(*                                                                         *)
(* Key and V are a function of all that went into them.  They are modelled *)
(* by that: chain lists the updates with their data and the output blocks  *)
(* computed.  HMAC is taken to be collision free in chain; the bytes of a  *)
(* block, which only the health tests look at, may be any.                 *)
(***************************************************************************)
EXTENDS Integers, Sequences, FiniteSets

CONSTANTS Kinds,
          RESEED_INTERVAL,
          MAX_GENERATE_BYTES,
          OUTLEN,
          Sizes,          \* numbers of bytes asked for
          Additional,     \* additional inputs; Empty, TooLong
          Empty, TooLong,
          Blocks,         \* the values an output block may have
          Updated,        \* the values an update may leave in V
          RCT_C, APT_W, APT_C,
          NoGenerator

VARIABLES d,        \* the generator, or none
          entropy,  \* seeds drawn so far: each is a fresh one
          reply,    \* the last call: [op, code, asked, written]
          given,    \* history: the blocks handed out, oldest first
          stream    \* history: the bytes tested since a seeding

drbgVars == <<d, entropy, reply, given, stream>>

Rust == {"rust", "health", "rng"}

ZeroBlock == [i \in 1..OUTLEN |-> 0]

(* HealthState::new *)
NewHealth == [prev |-> ZeroBlock, prev_valid |-> FALSE, poisoned |-> FALSE,
              rct_last |-> 0, rct_len |-> 0,
              apt_pos |-> 0, apt_first |-> 0, apt_count |-> 0]

(* HealthState::reset: what follows a reseed is a new stream. *)
ResetHealth(h) == [h EXCEPT !.prev = ZeroBlock, !.prev_valid = FALSE,
                            !.rct_len = 0, !.apt_pos = 0]

-----------------------------------------------------------------------------
(* HMAC_DRBG_Update: V gets a value the health tests may compare with.     *)
update(s, data, v) == [s EXCEPT !.chain = Append(@, <<"update", data>>),
                                !.v = v]

Seeded(s, material, v) ==
    [update(s, material, v) EXCEPT !.reseed_counter = 1, !.calls = 0,
                                   !.health = ResetHealth(@)]

Unseeded(kind) == [kind |-> kind, chain |-> <<>>, v |-> ZeroBlock,
                   reseed_counter |-> 1, health |-> NewHealth,
                   calls |-> 0]     \* history: generate calls since a seeding

check_block(s, block) ==
    \/ block = s.v
    \/ s.health.prev_valid /\ block = s.health.prev

(* One byte of run_byte_checks. *)
ByteCheck(h, byte) ==
    LET run   == IF h.rct_len = 0 \/ byte # h.rct_last THEN 1 ELSE h.rct_len + 1
        fresh == h.apt_pos = 0
        count == IF fresh THEN 0
                 ELSE h.apt_count + (IF byte = h.apt_first THEN 1 ELSE 0)
    IN  [h EXCEPT !.rct_last = byte, !.rct_len = run,
                  !.apt_first = IF fresh THEN byte ELSE @,
                  !.apt_count = count,
                  !.apt_pos = IF ~fresh /\ @ + 1 >= APT_W THEN 0 ELSE @ + 1,
                  !.poisoned = @ \/ run >= RCT_C \/ count > APT_C]

run_byte_checksPerBlock(h, block) ==
    LET after[i \in 0..OUTLEN] ==
            IF i = 0 THEN [h EXCEPT !.rct_len = 0]
            ELSE IF after[i - 1].poisoned THEN after[i - 1]
            ELSE ByteCheck(after[i - 1], block[i])
    IN  after[OUTLEN]

(* It stops at the first byte that fails. *)
run_byte_checks(h, block) ==
    LET after[i \in 0..OUTLEN] ==
            IF i = 0 THEN h
            ELSE IF after[i - 1].poisoned THEN after[i - 1]
            ELSE ByteCheck(after[i - 1], block[i])
    IN  after[OUTLEN]

zeroize_and_poison(s) ==
    [s EXCEPT !.chain = <<>>, !.v = ZeroBlock,
              !.health = [@ EXCEPT !.prev = ZeroBlock, !.rct_last = 0,
                                   !.apt_first = 0, !.poisoned = TRUE]]

-----------------------------------------------------------------------------
(* A generate call gives its state, what it wrote and how it ended.  vs    *)
(* are the values HMAC computes on the way: u that of V after an update,   *)
(* b those of the output blocks.                                           *)
Result(s, code, blocks, written) ==
    [s |-> s, code |-> code, blocks |-> blocks, written |-> written]

(* V = HMAC(K, V), into the output. *)
OutputBlock(r, block, n) ==
    LET s      == r.s
        byted  == run_byte_checks(s.health, block)
        chain  == Append(s.chain, "block")
        health == IF s.kind = "health"
                  THEN [byted EXCEPT !.prev = block, !.prev_valid = TRUE]
                  ELSE s.health
    IN  IF s.kind = "health" /\ (check_block(s, block) \/ byted.poisoned)
        THEN Result(zeroize_and_poison(s), "HealthCheckFailed", r.blocks, r.written)
        ELSE Result([s EXCEPT !.chain = chain, !.v = block, !.health = health],
                    "Ok", Append(r.blocks, chain),
                    IF n - r.written < OUTLEN THEN n ELSE r.written + OUTLEN)

BlockCount(n) == (n + OUTLEN - 1) \div OUTLEN

(* The output loop; from is the number of blocks that earlier chunks took. *)
OutputLoop(start, n, vs, from) ==
    LET after[i \in 0..BlockCount(n)] ==
            IF i = 0 THEN Result(start, "Ok", <<>>, 0)
            ELSE IF after[i - 1].code # "Ok" THEN after[i - 1]
            ELSE OutputBlock(after[i - 1], vs.b[from + i], n)
    IN  after[BlockCount(n)]

Additionally(s, additional, vs) ==
    IF additional # Empty THEN update(s, additional, vs.u) ELSE s

Counted(s) == [s EXCEPT !.reseed_counter = @ + 1, !.calls = @ + 1]

ProduceNoUpdate(s, n, additional, vs, from) ==
    LET r == OutputLoop(Additionally(s, additional, vs), n, vs, from)
    IN  IF r.code # "Ok" THEN r
        ELSE [r EXCEPT !.s = Counted(@)]

(* The output loop between the two updates. *)
Produce(s, n, additional, vs, from) ==
    LET r == OutputLoop(Additionally(s, additional, vs), n, vs, from)
    IN  IF r.code # "Ok" THEN r
        ELSE [r EXCEPT !.s = Counted(update(@, additional, vs.u))]

ExhaustedLate(s) == s.reseed_counter > RESEED_INTERVAL + 1

(* The check of the counter in generate. *)
Exhausted(s) == s.reseed_counter > RESEED_INTERVAL

generate(s, n, additional, vs, from) ==
    CASE s.kind = "health" /\ s.health.poisoned ->
             Result(s, "HealthCheckFailed", <<>>, 0)
      [] ~s.health.poisoned /\ Exhausted(s) ->
             Result(s, "ReseedRequired", <<>>, 0)
      [] ~s.health.poisoned /\ ~Exhausted(s)
         /\ s.kind \in Rust /\ n > MAX_GENERATE_BYTES ->
             Result(s, "OutputTooLarge", <<>>, 0)
      [] ~s.health.poisoned /\ ~Exhausted(s)
         /\ (s.kind \in Rust => n <= MAX_GENERATE_BYTES)
         /\ additional = TooLong ->
             Result(s, "InputTooLarge", <<>>, 0)
      [] OTHER -> Produce(s, n, additional, vs, from)

needs_reseedLate(s) == s.reseed_counter > RESEED_INTERVAL + 1

needs_reseed(s) == s.reseed_counter > RESEED_INTERVAL

(* safe_generate_small: a generate that fails there is unreachable!().     *)
safe_generate_small(s, n, seed, vs, from) ==
    LET ready == IF needs_reseed(s) THEN Seeded(s, <<seed, Empty>>, ZeroBlock) ELSE s
        r     == generate(ready, n, Empty, vs, from)
    IN  IF r.code = "Ok" THEN r ELSE [r EXCEPT !.code = "panic"]

-----------------------------------------------------------------------------
(* try_fill_bytes: one generate call for every MAX_GENERATE_BYTES of the   *)
(* buffer, until one fails.  What was written before stays written.        *)
ChunkCount(n) == (n + MAX_GENERATE_BYTES - 1) \div MAX_GENERATE_BYTES

ChunkLen(n, i) ==
    IF i * MAX_GENERATE_BYTES <= n THEN MAX_GENERATE_BYTES
                                   ELSE n % MAX_GENERATE_BYTES

Chunk(s, n, i, seed, vs) ==
    LET from == (i - 1) * BlockCount(MAX_GENERATE_BYTES)
    IN  IF s.kind = "rng"
        THEN safe_generate_small(s, ChunkLen(n, i), <<seed, i>>, vs, from)
        ELSE generate(s, ChunkLen(n, i), Empty, vs, from)

(* A result followed by that of the next chunk. *)
Followed(r, q) == Result(q.s, q.code, r.blocks \o q.blocks, r.written + q.written)

fill(s, n, seed, vs) ==
    LET upto[i \in 0..ChunkCount(n)] ==
            IF i = 0 THEN Result(s, "Ok", <<>>, 0)
            ELSE IF upto[i - 1].code # "Ok" THEN upto[i - 1]
            ELSE Followed(upto[i - 1], Chunk(upto[i - 1].s, n, i, seed, vs))
    IN  upto[ChunkCount(n)]

-----------------------------------------------------------------------------
Reply(op, code, asked, written) ==
    reply' = [op |-> op, code |-> code, asked |-> asked, written |-> written]

Refuse(op, code) == /\ Reply(op, code, 0, 0)
                    /\ UNCHANGED <<d, entropy, given, stream>>

DrbgInit == /\ d = NoGenerator /\ entropy = 0 /\ given = <<>> /\ stream = <<>>
            /\ reply = [op |-> "none", code |-> "Ok", asked |-> 0, written |-> 0]

(* Lengths and startup tests are the caller's business in HACL*, and a     *)
(* failing source is an error of the forms that draw their own entropy.    *)
Instantiate(kind, v) ==
    /\ d = NoGenerator
    /\ d' = Seeded(Unseeded(kind), <<entropy + 1, "nonce">>, v)
    /\ entropy' = entropy + 1
    /\ stream' = <<>>
    /\ Reply("instantiate", "Ok", 0, 0)
    /\ UNCHANGED given

InstantiateFails ==
    /\ d = NoGenerator
    /\ \/ Refuse("instantiate", "RngError")           \* randombytes, try_fill_bytes
       \/ Refuse("instantiate", "InsufficientEntropy")
       \/ Refuse("instantiate", "HealthCheckFailed")  \* startup_test
       \/ Refuse("instantiate", "InputTooLarge")

Reseed(additional, v) ==
    /\ d # NoGenerator
    /\ additional # TooLong
    /\ ~d.health.poisoned
    /\ d' = Seeded(d, <<entropy + 1, additional>>, v)
    /\ entropy' = entropy + 1
    /\ stream' = <<>>
    /\ Reply("reseed", "Ok", 0, 0)
    /\ UNCHANGED given

ReseedFails ==
    /\ d # NoGenerator
    /\ \/ d.kind # "hacl" /\ Refuse("reseed", "RngError")
       \/ d.kind # "hacl" /\ Refuse("reseed", "InputTooLarge")
       \/ d.kind = "health" /\ Refuse("reseed", "HealthCheckFailed")

(* The blocks of a result were handed out, and the health tests saw them.  *)
HandOut(r, vs) ==
    /\ given' = given \o r.blocks
    /\ stream' = IF d.kind = "health"
                 THEN stream \o [i \in 1..(OUTLEN * Len(r.blocks)) |->
                                    vs.b[((i - 1) \div OUTLEN) + 1]
                                      [((i - 1) % OUTLEN) + 1]]
                 ELSE <<>>

Generate(n, additional, vs) ==
    /\ d # NoGenerator
    /\ d.kind \in {"hacl", "rust", "health"}
    /\ d.kind = "hacl" => n <= MAX_GENERATE_BYTES /\ additional # TooLong
    /\ LET r == generate(d, n, additional, vs, 0)
       IN  /\ d' = r.s
           /\ HandOut(r, vs)
           /\ Reply("generate", r.code, n, r.written)
    /\ UNCHANGED entropy

(* EverCrypt reseeds, with the additional input, before every generate.    *)
GenerateEverCrypt(n, additional, vs) ==
    /\ d # NoGenerator /\ d.kind = "evercrypt"
    /\ \/ /\ n > MAX_GENERATE_BYTES \/ additional = TooLong
          /\ Refuse("generate", "false")
       \/ /\ n <= MAX_GENERATE_BYTES /\ additional # TooLong
          /\ Refuse("generate", "RngError")
       \/ /\ n <= MAX_GENERATE_BYTES /\ additional # TooLong
          /\ LET s == Seeded(d, <<entropy + 1, additional>>, ZeroBlock)
                 r == generate(s, n, additional, vs, 0)
             IN  /\ d' = r.s
                 /\ HandOut(r, vs)
                 /\ Reply("generate", r.code, n, r.written)
          /\ entropy' = entropy + 1

Fill(n, vs) ==
    /\ d # NoGenerator /\ d.kind \in Rust
    /\ LET r == fill(d, n, entropy + 1, vs)
       IN  /\ d' = r.s
           /\ HandOut(r, vs)
           /\ Reply("fill", r.code, n, r.written)
    /\ entropy' = IF d.kind = "rng" THEN entropy + 1 ELSE entropy

Free == /\ d # NoGenerator
        /\ d' = NoGenerator
        /\ stream' = <<>>
        /\ Reply("free", "Ok", 0, 0)
        /\ UNCHANGED <<entropy, given>>

(* The values of the blocks of a call matter to the health tests only, and *)
(* when there are any.                                                     *)
BlockValues(n) ==
    IF d # NoGenerator /\ d.kind = "health" /\ ~d.health.poisoned
       /\ d.reseed_counter <= RESEED_INTERVAL
    THEN [u : Updated, b : [1..BlockCount(n) -> Blocks]]
    ELSE {[u |-> ZeroBlock, b |-> [i \in 1..BlockCount(n) |-> ZeroBlock]]}

DrbgNext ==
    \/ \E kind \in Kinds : \E v \in Updated :
          Instantiate(kind, v)
    \/ InstantiateFails
    \/ \E additional \in Additional : \E v \in BlockValues(0) : Reseed(additional, v.u)
    \/ ReseedFails
    \/ \E n \in Sizes, additional \in Additional : \E vs \in BlockValues(n) :
          Generate(n, additional, vs)
    \/ \E n \in Sizes, additional \in Additional : \E vs \in BlockValues(n) :
          GenerateEverCrypt(n, additional, vs)
    \/ \E n \in Sizes : \E vs \in BlockValues(n) : Fill(n, vs)
    \/ Free

DrbgSpec == DrbgInit /\ [][DrbgNext]_drbgVars

-----------------------------------------------------------------------------
(* What the forms have in common: blocks and calls of at least one byte,   *)
(* at least one call for a seed.                                           *)
DrbgParametersOk ==
    /\ OUTLEN \in Nat \ {0} /\ MAX_GENERATE_BYTES \in Nat \ {0}
    /\ RESEED_INTERVAL \in Nat \ {0}
    /\ Sizes \subseteq Nat
    /\ Empty # TooLong

ASSUME DrbgAssumption == DrbgParametersOk

(* No block is handed out twice, through reseeds, refused calls, fills     *)
(* that failed half way and a new instance; and the V that is kept is not  *)
(* one that was handed out.                                                *)
OutputsNeverRepeat ==
    /\ \A i, j \in DOMAIN given : given[i] = given[j] => i = j
    /\ d # NoGenerator => \A i \in DOMAIN given : given[i] # d.chain

(* At most RESEED_INTERVAL generate calls follow a seeding, those that a   *)
(* fill makes for its chunks counted.                                      *)
ReseedBound == d # NoGenerator => d.calls <= RESEED_INTERVAL

(* A call that reports success has filled the buffer, one that fails has   *)
(* not, and the auto-reseeding generator reaches none of the arms it calls *)
(* unreachable.                                                            *)
FilledOrRefused ==
    /\ reply.code = "Ok" => reply.written = reply.asked
    /\ reply.code # "Ok" /\ reply.asked > 0 => reply.written < reply.asked
    /\ reply.code # "panic"

(* What a generator with health tests handed out since its last seeding    *)
(* has no run of RCT_C equal bytes, no window of APT_W bytes in which the  *)
(* first recurs more than APT_C times, and no two equal blocks in a row,   *)
(* within a call or across calls.                                          *)
HealthyStream ==
    /\ \A i \in 1..(Len(stream) - RCT_C + 1) :
          \E j \in i..(i + RCT_C - 2) : stream[j] # stream[j + 1]
    /\ \A w \in 0..(Len(stream) \div APT_W) :
          LET window == {i \in DOMAIN stream : (i - 1) \div APT_W = w}
              first  == w * APT_W + 1
          IN  Cardinality({i \in window \ {first} :
                              stream[i] = stream[first]}) <= APT_C
    /\ \A i \in 1..((Len(stream) \div OUTLEN) - 1) :
          \E j \in 1..OUTLEN :
             stream[(i - 1) * OUTLEN + j] # stream[i * OUTLEN + j]
=============================================================================
