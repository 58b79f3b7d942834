# A TLA+ model of libcrux

libcrux is a library of cryptographic algorithms with a few stateful protocols
on top. This directory models the PSQ protocol (`libcrux-psq`: post-quantum
handshake, long-term sessions, transport channels), the HPKE contexts, the
objects that keep state between calls (streaming hashes, the SHA-3 XOF, the
HMAC-DRBGs), the control and the rounding arithmetic of ML-KEM and ML-DSA, and
the lock-free CPU feature detection that every other crate relies on
(`crates/sys/platform`). Paths below are relative to `src/`; paths
without a crate are under `libcrux-psq/src/`.

## The system

| Part | State | Operations | What is hard |
|---|---|---|---|
| AEAD keys (`aead.rs`) | key, 12-byte nonce, expired flag | encrypt, decrypt, single-use handshake forms, codec | nonce limit; nonce restored on failure; codec drops nonce and flag; two builds (`nonce-control`) |
| Transport (`session/transport.rs`) | send key, receive key, channel identifier | `write_message`, `read_message` | loss, repetition, reordering, damage; encryption before a write that can fail |
| Session (`session.rs`, `session/session_key.rs`) | main key, binder, channel counter, transcript | `import`, `serialize`, `deserialize`, `transport_channel`, `export_secret` | two ends acting independently; store, load and crash; binding rules |
| Key schedule (`handshake.rs`, `handshake/transcript.rs`, `handshake/dhkem.rs`) | none | K0, K1, K2, tx0, tx1, tx2 | both ends must put in the same inputs |
| Responder (`handshake/responder.rs`) | state, working ciphersuite, recent keys | `read_message`, `write_message`, `abort_handshake`, `into_session` | state taken out before it is checked; state left by failed reads; a bounded key window |
| Initiators (`handshake/initiator/*.rs`) | state with keys | the same | single-use objects, failures that lose the state |
| Ciphersuites (`handshake/ciphersuite*`, `handshake/builder.rs`) | none | `coerce_compatible`, `deserialize_encapsulation` | the suite in the header is not authenticated |
| CPU features (`crates/sys/platform`) | static atomics | `init`, `supported` | racing threads, weak memory |
| HPKE (`crates/protocols/hpke`) | configurations with a PRNG, contexts with a sequence number | `new`, `clone`, set-up in four modes, `seal`, `open`, the one-shot calls | message limit; a clone must not repeat its original's randomness; a failed `open` must not move the number |
| HMAC-DRBG (`crates/algorithms/hmac-drbg`, two C generators) | Key, V, reseed counter, health-test state | instantiate, reseed, generate, fill | chunked fills that fail half way; intervals crossed inside a call; tests that span calls |
| SHA-3 XOF (`crates/algorithms/sha3`, `crates/algorithms/kmac`) | sponge, absorb buffer, squeeze buffer | absorb, `absorb_final`, squeeze, cShake, KMAC, block interface | chunk boundaries on both sides; encodings that must keep inputs apart |
| Streaming hashes (HACL C, `crates/algorithms/blake2`) | compression state, buffer, length | malloc, reset, copy, update, digest, squeeze | the last full block waits; length limits; parameters after a reset |
| ML-KEM (`libcrux-ml-kem`) | key pairs in several forms, half-done encapsulations | key generation, encapsulation in one or two steps, decapsulation | two halves of keys and ciphertexts that may not belong together; compression error |
| ML-DSA (`libcrux-ml-dsa`) | the signing loop | key generation, sign, verify, plain and pre-hashed | rejection loop, mask counter, hints, rounding at boundaries |
| Curves, RSA, AEAD ciphers, KDFs, facades, bindings, tools | none worth modelling | | arithmetic out of TLC's reach, or no state |

A handshake goes from an initiator (query or registration) to a responder and
back. A finished registration turns both objects into a `Session`; a session
hands out `Transport` channels, numbered by a counter; both ends of a channel
exchange messages under keys that only they can derive. All of them use AEAD
keys.

## Modules

| Module | Models |
|---|---|
| `AeadKey` | `AEADKeyNonce` as operators on a record `[key, nonce, expired]`, with `NonceMax` for `NONCE_MAX` and a flag for the `nonce-control` build |
| `PsqKeys` | every KDF, transcript, DH, KEM and signature as a term that starts with its label: two terms are equal exactly when all inputs are |
| `InOrderChannel` | what a channel promises: in-order delivery without gaps |
| `PsqTransport` | the two `Transport` objects of every channel and the network between them |
| `PsqSession` | the `Session` values of the two ends of one handshake, in memory and in storage, and all channels they opened |
| `PsqHandshake` | initiators and responders, their messages, and the sessions they produce |
| `CpuFeatures` | threads running `init` and reading the feature words |
| `HpkeContext` | HPKE instances and clones, the contexts they set up, the ciphertexts on their way |
| `HashStream` | what an incremental hash promises: a digest is that of all bytes fed |
| `StreamingHash` | the buffering scheme that SHA-2, SHA-3, BLAKE2 and Poly1305 share, with their own paddings and limits |
| `Sha3Xof` | `KeccakXofState` with its two buffers, cShake and KMAC on top, the block interface |
| `HmacDrbg` | the Rust generator without and with health tests, the auto-reseeding one, HACL's and EverCrypt's |
| `MlDsaArithmetic`, `MlKemArithmetic` | rounding, hints, compression and reduction of one coefficient, with the code's constants |
| `MlDsa`, `MlKem` | key generation, signing loop, verification; encapsulation in all interfaces, decapsulation |
| `MC...` | constants, bounds and symmetries of the runs; `MCSymmetric` puts three primitives side by side |
| `...Proofs` | the theorems about the module of that name |

Conventions. Each call of the code is one action, or one action per outcome
(`RegistrationRead`, `RegistrationReadFailed`, `RegistrationReadUndecodable`,
`RegistrationReadWrongState` are the outcomes of one `read_message`).
Rust's `take` shows as a placeholder state: `InProgress` for both parties.
`into_session`, `import` and `serialize` consume their object, on errors too.
Byte strings are model values or terms. An operator defined just before
another one, with a name that says how it is wrong (`UsableOffByOne`,
`PushUnlessFull`), is a plausible bug; it is used by no specification and shows
that a property can fail.

History variables, which no guard reads: `sent`, `received`, `lost` in
`PsqTransport`; `derived` and the fields `imports`, `bound` and `loads` in
`PsqSession` (`imports` apart from its bound);
`seen`, `sealed`, `completed`, `sessions`, `answered` and `result` in
`PsqHandshake` (the key window itself is `recent`); the `log` of a context in
`HpkeContext`; `fed`, `origin`, `out` in `Sha3Xof`; `given` and `stream` in
`HmacDrbg`; `signed` and `streams` in `MlDsa` (the latter apart from its bound).

Environment. The network keeps every emitted message and may deliver it never,
once or repeatedly, in any order; it may damage messages or deliver them to
another party. These actions of the environment stand for transmission errors
the code documents (`Transport`: "failed decryption (e.g. due to transmission
errors)") and are marked external in the map. `Crash` ends the process that
holds a session; what was stored remains. So it does after a load:
`Session::deserialize` borrows the bytes, and the application may load the same
copy again, after a crash or while the session made from it is in use. Nothing
in the code prevents it and the documentation does not mention it (the warning
of `Session` is about `tls_serialize`, which does not consume the session). Such
a load goes back to the counter and the binding of the copy: channel keys
repeat, and a stripped binding comes back. `SendKeysDistinct` and
`StrippedForGood`, and the theorems about them, therefore carry the hypothesis
`LoadedOnce(e)`, that end `e` never loaded a copy twice; without it TLC refutes
both. The other properties of sessions, and that the two ends never send under
one key, hold however often a copy is loaded.

Abstractions. Ideal cryptography: a ciphertext opens only under its key, nonce
and associated data. The 8-byte binder and 32-byte identifiers do not collide.
`NonceMax` and `CounterMax` stand for 2^96 - 1 and 2^64 - 1. A short
buffer is a choice at each call, as is a failing random generator.
`write_message_external_encoding` and its counterpart are the same actions
without the buffer failure. Payload limits (65535 bytes) change no state and
are left out. In `CpuFeatures` all stores to a word write the same value, so a
word is either zero or final, and a thread either must see the store or may.
On Intel SGX `init` returns before it touches the shared state, and nothing is
modelled for it.

Compression functions, the Keccak permutation and HMAC are modelled by what
went into them, so a state is the record of its inputs and buffering errors
show as different records; the bytes and lengths that the code handles itself
(buffers, paddings, encoded lengths) are real sequences, in a small radix. The
random bytes of an HPKE configuration are a seed and a position. ML-DSA and
ML-KEM work on polynomials of two or three coefficients with the real modulus
and the real rounding. In ML-DSA matrix entries and challenges are scalars, so
that a product acts on each coefficient; in ML-KEM products are taken in the
NTT domain, coefficient by coefficient.

`RegistrationAuthentic` speaks of `Served(i, r)` and not of compatible suites:
the suite named in a message header is under no tag. If the header is damaged a
responder can accept an initiator with the same PQ KEM and another
authentication method. What the keys fix is the context, the AEAD, whether and
to which key the initiator encapsulated, and its authenticator, and that is
what the property states. Without damage only compatible pairs finish
(`OnlyCompatibleFinish`).

## Runs

| Run | Config | Bounds | Shows |
|---|---|---|---|
| `transport` | `MCPsqTransport.cfg` | 2 channels, `NonceMax` 2, 2 payloads; one stream reaches its limit, the other three write one payload each | nonces are not reused, a lost write stalls its stream, the receive key expires last, the channel implements `InOrderChannel`, payloads before the first lost one are delivered |
| `session_lifecycle` | `MCPsqSession.cfg` | 2 imports of 2 secrets, counter limit 2; both ends together 3 keys, 2 channels, 2 stored copies, 2 loads (exploration stops past these) | channel keys are unique and a stripped binding stays so unless a copy is loaded twice, channels pair exactly when histories agree, sessions are bound to the handshake or not at all, main key stays expired |
| `handshake_interop` | `PsqHandshakeInterop.cfg` | all 18 x 18 suites, both contexts, both builds, queries | exactly compatible pairs finish, with one key |
| `handshake_faults` | `PsqHandshakeFaults.cfg` | 2 initiators, a PQ responder with a window of 1, 2 responder ephemeral keys, 3 accepted keys, all faults | agreement, authenticity, cached suite, key window, nonces |
| `cpu_features` | `MCCpuFeatures.cfg` | 3 threads, the 4 words of x86 | only final values are read |
| `symmetric_primitives` | `MCSymmetric.cfg` | a rate of 3 bytes, radix 16, pieces of up to 7 bytes; 2 hash handles, 7 algorithms with blocks of 2 to 4 bytes; reseed interval 2, 3 blocks of output | `StreamingHash` implements `HashStream`; an XOF gives what one call would; encodings, initial values and paddings keep inputs apart; generators repeat nothing, obey their interval, fill or refuse |
| `hpke_contexts` | `MCHpkeContext.cfg` | 2 instances, 6 configurations, sequence numbers up to 2, 2 senders, 1 receiver, 3 ciphertexts | no key and nonce seals twice; a receiver opens a prefix of one sender's messages |
| `ml_dsa` | `MCMlDsa.cfg` | 2 matrices, 6 masks, at most 2 rounds | what is signed verifies, only as signed; masks differ; signing ends, with the first response that passes or, when the last one fails, with an error |
| `ml_kem` | `MCMlKem.cfg` | rank 2, 2 key pairs, 2 encapsulations | the sides of an encapsulation agree, in every form of the keys and only on whole ciphertexts |
| `query_second_write` | `QuerySecondWrite.cfg` | 1 initiator | finding 1 |
| `not_ready_calls` | `NotReadyCalls.cfg` | 1 initiator | finding 2 |
| `coerce_authentication` | `CoerceAuthentication.cfg` | 1 initiator | finding 3 |

Why the bounds are enough. A transport stream of two messages can lose,
reorder and repeat one against the other and run out of nonces; two channels
and two directions are what messages can be confused between. Two imports let a
stripped session be imported again, two secrets let the ends disagree, and two
values of the counter let it run out. Two loads are two loads of one copy, or
of two copies of one end or of both. In the fault run, two initiators are
enough for misrouting and for eviction from a window of one; three accepted
keys let a key return after its eviction, and two ephemeral keys let the
responder answer twice. Three threads let one publish, one read and one race
with both.

In `symmetric_primitives` the variable `subject` says which
primitive a behaviour runs: they share nothing, so interleaving them would only
multiply states. The pieces absorbed and the lengths squeezed are shorter than,
equal to and longer than a block, and the bytes in them are those that padding
and length encoding use themselves. Two handles let a copy and its original
diverge; two algorithms each of SHA-2 and of Keccak share their block size. An interval of two and fills of up to two chunks let a fill cross
the interval between chunks. The masks of the ML-DSA instance are chosen so that
every check of the loop, except that of `c * t0`, rejects some of them alone,
and the hints have no, one and two ones; the second matrix makes `c * t0` too
long. Two HPKE instances are what a clone needs, and a limit of two lets a
context run out.

Deadlock is not checked where objects are consumed or have used up what they
have (sessions, handshakes, HPKE contexts, the keys and signatures of
`ml_dsa` and `ml_kem`). It is checked for transports, CPU features and the symmetric
primitives.

Symmetry and views. Secrets, initiators and threads are interchangeable in the
runs that say so, and no liveness property is checked there. The fault run
ignores `result`, which no step and none of its properties reads; the HPKE run
ignores `last` for the same reason, and treats instances and plaintexts as
interchangeable. Hash handles are interchangeable too.

Fairness. `transport` assumes that a reader to whom an intact copy
of the next message is available reads it at last: the documentation of
`Transport` tells the application to ask for retransmission until then.
Writing is not fair. `handshake_interop` assumes that applications take the
steps open to them and that the network at last delivers a message to its
addressee; it injects no faults, because one failed read discards the
initiator's state and no handshake can then be promised. `ml_dsa`
assumes that a thread that signs keeps running; the loop itself is bounded.

## Findings

1. `query_second_write`: a `QueryInitiator` has no state that says it has
   written. A second `write_message` uses the expired K0, and the error is
   converted by `unreachable!` (`handshake.rs:62`): a panic.
2. `not_ready_calls`: `traits.rs:27-30, 39-41` promise `Ok(0)` and `Ok((0,0))`
   from a party that is not ready. Handshake parties return an error and,
   except for a responder's read, also lose their state.
3. `coerce_authentication`: `ciphersuite.rs:142-143` documents compatibility
   by PQ KEM only. The code also requires the same authentication method and
   AEAD when the initiator names a PQ KEM.

Two comments say a little less or more than the code, without a run of their
own: `power2round` in `libcrux-ml-dsa/src/simd/portable/arithmetic.rs` names an
open range for `t0`, which also takes the value 2^12 (`Power2RoundExact` states
the half-open range); `crates/algorithms/sha3/src/generic_keccak/xof.rs:320-321`
says that what exceeds a rate is ignored, which line 332 does not do.

## Proofs

`PsqTransportProofs`, for every set of channels and payloads and every
positive `NonceMax` (channel identifiers are natural numbers; nothing else is
assumed). The safety properties are not
inductive: that nonces do not repeat follows only from what nonces count. The
inductive invariant `IInv` adds to the types

- `KeysCount`: each object holds the keys of its two streams, the send nonce is
  the number of payloads encrypted, the receive nonce the number read;
- `NetworkFaithful`: a message on the network carries the payload of its
  stream at the index of its nonce, and that index was not lost;
- `ReceivedIsPrefix`: what was read is a prefix of what was encrypted and ends
  before the first lost index;
- `ReceiverExpiresLast`.

`OpenedMessage` is the key step: a message that opens is the next one of its
stream. From `IInv` follow `TypeCorrect`, `NoncesUnique`, `LostWriteStalls`,
`ReceiverNotExhausted`, and, by mapping every step to a step of
`InOrderChannel` or a stutter, `ImplementsInOrderChannel`.

`PsqSessionProofs`, for every set of secrets, every positive counter limit and
every number of imports (secrets that are accepted and secrets that are too
short are assumed disjoint). That no channel key is handed out twice is not
inductive: it needs to know where every key comes from. The invariant `IInv` says

- `DerivedGrown`: every session key ever derived is that of the handshake or
  the child of a derived one by an import. With `ImportInjective` this makes
  keys equal exactly when the histories of imports are
  (`KeysAgreeIffImportsAgree`);
- `Legit`: a session in memory or in storage has one of these keys, the
  identifier of that key, and the binder of the handshake's identities or none;
- `InMemory`, `Stored`, `Opened`: that holds for the session object, whose main
  key is expired, and for every stored copy, and channels have keys of derived
  sessions;
- `Linear`, if no copy was loaded twice (`Once`): the channels of an end are
  ordered, strictly, by number of imports and then by counter, and no unbound
  one comes before a bound one. The session object comes after all of them
  (`After`), so that the next channel is a new one, and every copy has been
  loaded; or there is no object and at most one copy not loaded yet, which comes
  after all channels.

`ImportStep`, `ChannelStep` and `DeserializeStep` are the key steps: a first load
takes the one copy that goes on from all channels, a second load leaves the
line. From `IInv` follow
`KeysFollowImports`, `MainKeyNeverUsable`, `NeverReboundElsewhere`,
`NeverRebound`, `ChannelKeysUnique`, `ChannelsPairUp` and `TypeCorrect`.

`PrimitiveProofs` has two parts. CPU features, for any set of threads and
sequence of words: the invariant says that a thread is sure of the words it has
stored, a release store carries all words, and a thread past `init` is sure of
all words. Hence `FeaturesStable` and `TypeCorrect`.

HMAC-DRBG, for every reseed interval, request size, block length and additional
input that satisfies `DrbgAssumption`, with HMAC symbolic. The invariant
`DrbgInv` says that the blocks of one seed were handed out in the order of their
chain of HMAC steps (`GivenInOrder`), that the generator is ahead of all blocks
of its own seed, its calls within the interval (`GeneratorAhead`), and that a
fill is complete or refused (`FilledOrRefused`). It is needed because
that no output repeats is a fact about the whole past, which only the order of
what was given out relates to the state of the generator. Hence `DrbgInvariant`,
`ReseedBoundAlways`, `FilledOrRefusedAlways` and `OutputsNeverRepeatAlways`.

`PsqHandshakeProofs`, for any number of initiators and responders, any
configurations (a positive window bound; an initiator registers or queries),
any bounds and any subset of the faults. None of the properties is inductive:
that two sessions agree depends on what every ciphertext under way was made
from. `IInv` ties all state to what each initiator derives from its own
configuration (`IK0`, `IK1`, `IK2`, `ITx0`, `ITx1`, `ITx2`):

- `InitiatorInv`, `ResponderInv`: a state with a key holds the key and the
  transcript of one initiator, a responder those of an initiator it serves;
  `working` is unset, without PQ, or the responder's own suite;
- `NetInv`: every ciphertext on the network is one that a party made: the first
  message of some initiator, an answer to a query, or the answer of a completed
  handshake (`Made`);
- `CompletedInv`, `SessionsInv`: completions and sessions are determined by an
  initiator and an ephemeral key of a responder;
- `SealedInv` with `HandshakeNoncesUnique`: K0 and K1 were used by an initiator
  that will not encrypt again, a K2 holds an ephemeral key already drawn;
- `WindowInv`: `recent_keys` is the newest end of the history of keys let
  through, and equal keys in it are further apart than the bound.

The argument: keys are injective in their inputs (`K0Injective`, `K1Injective`,
`K2Injective`, `KindsDiffer`), so a message that opens under a responder's K0 or
K1 is the one its initiator made (`OuterGenuine`, `InnerGenuine`), whatever the
header says, and an answer that opens is that of a completed handshake
(`AnswerGenuine`). `PushKeepsWindow` is the step of the key window. One lemma per
action then shows that it preserves `IInv`. From `IInv` follow `TypeCorrect`,
`WorkingSuiteAlwaysSet`, `ReplaysOutsideWindow`, `HandshakeNoncesFresh`,
`RegistrationsAuthentic`, `InitiatorsConfirmed` and `SessionAgreement`. The
theorems also cover what the fault run leaves out for its size: more parties,
wider windows, and every mix of suites.

`HpkeContextProofs`, for any number of instances, contexts and messages, any
inputs and any counter limit. `IInv` adds to the types: contexts agree with the
inputs they were set up from (`ContextsInv`); no two instances draw from one
seed (`SeedsInv`); two senders never go back to the same place of one PRNG
stream, and an instance is past all places its senders used (`PlacesInv`);
every ciphertext was made by one sender at its place (`WireInv`); a receiver has
opened the beginning of what one sender sealed (`ReceiversInv`). Hence
`NoncesFresh` and `ReceiversFollowOneSender`.

`MlDsaSigningProofs` and `MlDsaProofs`, for every dimension, both values of
gamma2, every beta, and any sets of matrices, secrets, masks, challenges,
contexts and messages. The assumptions are those of `MlDsa`: samples are
integers and those of `s2` at most 4 (the larger eta), lengths and counts fit a
byte, the numbering of `REJECTION_SAMPLE_BOUND_SIGN` attempts fits 16 bits, and
pre-hashed messages do not collide. The argument has four parts.

- Coefficients: the division of `decompose_element` and `power2round_element` are
  exact (`DecomposeExact`, `Power2RoundExact`), reductions keep the residue
  (`BarrettReduces`, `MontgomeryExact`), and the norm checks of the signing loop
  are enough for a hint to recover the high part (`HintRecovers`,
  `SignerHintRecovers`).
- The commitment: `Az - ct1 * 2^13` is congruent to `w - cs2 + ct0` because
  inner products are linear modulo q (`InnerProductsAreLinear`, an induction
  over the columns), so that `CommitmentRecovered` follows one coefficient at a
  time.
- The hint encoding: `serialize` writes the ones of a hint in order of row and
  column, `deserialize` refuses all but increasing indices, counts that grow,
  and zeros at the end. `HintsEncodeExactly` says that the two are inverse to
  each other, both ways. Uniqueness is an induction over the places: if two
  encodings of one hint differ, they differ in a first place.
- The loop: `SigningInv` says that the key is one that `generate_key_pair` makes,
  the loop holds what its phase has computed from it, the stream number is the
  attempt times the columns, and what was returned or read is what those phases
  gave. It is needed since `SignaturesVerify` relates a signature to the secret
  vectors and the mask that made it, which it does not contain.

Hence `SignedVerify`, `SignedOnlyAsCalled` (the bytes absorbed for a call
determine it: `PartsAreBytes` and the lemmas before it), `HintEncodingCanonical`
and `StreamsNeverReused`. `MlDsaSigningProofs` has the parts that need no
induction, with `InnerProductsLinear` and `HintCodec` as hypotheses;
`MlDsaProofs` proves these two and draws the conclusions.

`MlKemProofs`. The arithmetic, for every coefficient in the range the code
requires and for the code's constants: the division by multiplication and shift
is exact (`CompressDivides`), reductions keep the residue and their bounds
(`BarrettReduces`, `MontgomeryExact`), compression moves a coefficient by at
most half a step and a message bit survives every error from -832 to 831
(`CompressionError`, `MessageBitSurvives`).

The state machine, under the assumption `KemAssumption` of `MlKem`: rank at
most 4, any degree, the compression factors of the code, messages of bits,
samplers that give field elements and noise of at most 3. TLC evaluates it in
the run `ml_kem`. The inductive invariant `KemInv` (`KemInvariant`) says what the
properties do not mention: which seed a key came from, which message and first
half an encapsulation, and that a finished one holds the encryption to the
second half it was given, whichever that was. From it:

- `FormsAgreeAlways`. Unpacked keys hold signed coefficients, packed ones
  reduced coefficients. Inner products, hence decryption and encryption, depend
  on the residues only (`InnerProductResidues`, `DecryptResidues`,
  `EncryptResidues`), so all five forms decapsulate as the vectors of key
  generation do.
- `OnlyWholeAlways`. The secret determines message and key, these the
  ciphertext that the comparison expects.
- `SecretsAgreeAlways`. Decryption subtracts the product of `s` with `u` from
  `v`. Both contain the product of the matrix with `s` and `r`, summed in two
  orders (`SumsExchange`, an induction over the rank); what is left of it is the
  noise (`ChannelNoise`): at most 120 from the vectors and the compression of
  `u`, and 107 from `e2` and the compression of `v`, for ranks up to four. The
  sum is within the range of `MessageBitSurvives`.

In the model a product of ring elements is taken coefficient by coefficient, as
in the transformed domain. In the ring of degree 256 each coefficient of a
product adds up 256 of them, and the bound on the noise holds with overwhelming
probability instead of always: `SecretsAgreeAlways` shows that the
computation is right, and says nothing about that probability.

Only model-checked:

- the liveness properties (`EventuallyDelivered`, `CompatibleFinish`,
  `SigningEnds`): liveness under fairness is out of the prover's reach;
- `OnlyCompatibleFinish`, which holds in the run without faults only;
- `StreamingHash` as an implementation of `HashStream`, and the XOF: what
  they compute is defined by recursion over the message, and the general
  induction theorems of the library cannot be used (the inductions above are
  each made from the least element of a set of numbers);
- `HealthyStream` of `HmacDrbg`, which relates the counters of the health tests
  to windows of the whole output.

## Plan

1. Compose: a session whose two ends exchange messages over the transports they
   open, with handshake, session and transport in one specification.
2. Model HPKE's export calls, and the AES-GCM block counter.

## Not modelled

Arithmetic on field elements, polynomials and bit-sliced words; constant-time
behaviour; the generated C that repeats an algorithm per parameter set or
instruction set, beyond the copy that `MlKem`, `MlDsa`, `Sha3Xof` and
`StreamingHash` are mapped to, and assembly; the builders' missing-field errors; the
nonce setters of the `nonce-control` build, with which the caller owns the
nonces of a channel; PSQ files outside the module tree (`protocol/`,
`handshake/pqkem.rs`, `handshake/session.rs`, `handshake/signature.rs`); the
mapping from feature words to features and the macOS path of the platform
crate; HPKE's export-only calls and caller-supplied randomness; HMAC as a
one-shot function; the parallel lanes of SHA-3, whose control is that of one
lane.

By lines, most of the repository is C and Rust that is generated, vectorised or
repeated: the same algorithms extracted once per parameter set and per
instruction set, straight-line field arithmetic and bit-sliced rounds. It has no
control that a model could keep, and what it computes lies in domains of
hundreds of bits. The models here follow one copy of each algorithm, so the
share of all lines they map is small although the parts with state are
covered.
