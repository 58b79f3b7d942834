-------------------------------- MODULE MlDsa --------------------------------
(***************************************************************************)
(* ML-DSA: key generation, the rejection loop of signing, verification,    *)
(* the encoding of signatures, and the two ways a message is bound to a    *)
(* context, plainly and pre-hashed.                                        *)
(*                                                                         *)
(* A ring element is a tuple of N coefficients in the code's field, with   *)
(* the code's rounding.  Every product of the scheme has a factor from the *)
(* matrix or a challenge; these are scalars here, so a product acts on     *)
(* each coefficient, and a challenge of norm at most tau stretches a       *)
(* vector as much as one of tau signs.  What an XOF expands to is any of a *)
(* set of values; a hash of 32 bytes or more is the record of its input.   *)
(***************************************************************************)
EXTENDS MlDsaArithmetic, Sequences, FiniteSets

CONSTANTS Gamma1Exponent, Gamma2, Beta, MaxOnesInHint,
          Rows, Columns, N,
          Bound,              \* REJECTION_SAMPLE_BOUND_SIGN, 814
          SeparatorMax,       \* 2^16 - 1, of the masks' u16 counter
          CONTEXT_MAX_LEN,    \* 255
          Oid,                \* that of SHAKE-128
          Matrices,           \* what seed_for_a expands to
          Secrets,            \* pairs of vectors s1, s2
          Masks,              \* what a mask seed expands to
          Challenges,
          Contexts, Messages, PreHashes,    \* byte sequences, and a function
          Randomness,
          MaxStreams,         \* bound: streams read when the last signing starts
          None

VARIABLES key,       \* the key pair
          signing,   \* the signing loop that runs
          signed,    \* the signatures that were returned, and for what
          oracle,    \* commitment hash -> challenge, where one was sampled
          streams,   \* the mask streams that were read, and for what
          last       \* the code signing returned last

vars == <<key, signing, signed, oracle, streams, last>>

Gamma1 == 2^Gamma1Exponent

(* The number of a mask stream does not wrap within a call: Bound is       *)
(* REJECTION_SAMPLE_BOUND_SIGN and the number a u16.                       *)
ASSUME SeparatorAssumption == Bound * Columns <= SeparatorMax + 1

(* The parameter sets: counts of ones, and the length of a context, are    *)
(* written as a byte.                                                      *)
ASSUME ParametersAssumption ==
    /\ Gamma1 \in Nat \ {0} /\ Gamma2 \in GAMMA2S /\ Beta \in Nat
    /\ Rows \in Nat /\ Columns \in Nat \ {0} /\ N \in Nat
    /\ Bound \in Nat /\ SeparatorMax \in Nat
    /\ MaxOnesInHint \in 0..255 /\ CONTEXT_MAX_LEN \in 0..255

(* The hash of a pre-hashed message is as good as the message. *)
ASSUME BytesAssumption ==
    /\ Contexts \subseteq Seq(0..255) /\ Messages \subseteq Seq(0..255)
    /\ Oid \in Seq(0..255)
    /\ \A m \in Messages : PreHashes[m] \in Seq(0..255)
    /\ \A m, n \in Messages : PreHashes[m] = PreHashes[n] => m = n

(* Vectors of ring elements. *)
Vectors(dim) == [1..dim -> [1..N -> Int]]

(* What is sampled consists of integers, and those of s2 are short.        *)
ASSUME SamplesAssumption ==
    /\ \A A \in Matrices : A \in [1..Rows -> [1..Columns -> Int]]
    /\ \A s \in Secrets :
          /\ s.s1 \in Vectors(Columns) /\ s.s2 \in Vectors(Rows)
          /\ \A i \in 1..Rows, n \in 1..N : s.s2[i][n] \in -4..4
    /\ Masks \subseteq Vectors(Columns) /\ Challenges \subseteq Int

(* None stands for what is not there yet. *)
ASSUME NoneAssumption == None \notin Vectors(Columns)

-----------------------------------------------------------------------------
(* Products reduce to a representative around zero.  The code's may lie    *)
(* beyond half the modulus by a margin; neither the norm checks, whose     *)
(* bounds are far below, nor the rounding tell the difference.             *)
Reduced(x) == LET r == x % FIELD_MODULUS
              IN  IF r > (FIELD_MODULUS - 1) \div 2 THEN r - FIELD_MODULUS ELSE r

Map(vector, Op(_)) == [i \in DOMAIN vector |-> [n \in 1..N |-> Op(vector[i][n])]]

Times(c, vector) == [i \in DOMAIN vector |-> [n \in 1..N |-> Reduced(c * vector[i][n])]]

Plus(u, v) == [i \in DOMAIN u |-> [n \in 1..N |-> u[i][n] + v[i][n]]]

Minus(u, v) == [i \in DOMAIN u |-> [n \in 1..N |-> u[i][n] - v[i][n]]]

(* A row of the matrix times a vector, the products summed one by one.     *)
InnerProduct(u, v) ==
    LET sum[j \in 0..Columns] == IF j = 0 THEN 0 ELSE sum[j - 1] + u[j] * v[j]
    IN  sum[Columns]

(* compute_matrix_x_mask, and the products in the other two. *)
MatrixTimes(A, vector) ==
    [i \in 1..Rows |-> [n \in 1..N |->
        Reduced(InnerProduct(A[i], [j \in 1..Columns |-> vector[j][n]]))]]

Exceeds(vector, bound) ==
    \E i \in DOMAIN vector, n \in 1..N : NormExceeds(vector[i][n], bound)

(* The packing of a coefficient of a response in Gamma1Exponent + 1 bits,  *)
(* and of the low part of t in 13.                                         *)
Gamma1Serialize(x) == (Gamma1 - x) % (2 * Gamma1)
Gamma1Deserialize(bits) == Gamma1 - bits

ChangeT0Interval(x) == LowerPartOfT \div 2 - x

-----------------------------------------------------------------------------
(* The hint: rows of zeros and ones.  Its encoding: the indices of the     *)
(* ones, row after row, zeros up to MaxOnesInHint, then for each row how   *)
(* many indices there are up to its end.                                   *)
MakeHint(low, high) ==
    [i \in 1..Rows |-> [n \in 1..N |->
        compute_one_hint(low[i][n], high[i][n], Gamma2)]]

Ones(hint) == {x \in (1..Rows) \X (1..N) : hint[x[1]][x[2]] = 1}

OnesUpTo(hint, i) == Cardinality({x \in Ones(hint) : x[1] <= i})

OnesBefore(hint, x) ==
    Cardinality({y \in Ones(hint) : y[1] < x[1] \/ (y[1] = x[1] /\ y[2] < x[2])})

HintSerialize(hint) ==
    [p \in 1..MaxOnesInHint |->
        IF p <= OnesUpTo(hint, Rows)
        THEN (CHOOSE x \in Ones(hint) : OnesBefore(hint, x) = p - 1)[2] - 1
        ELSE 0]
      \o [i \in 1..Rows |-> OnesUpTo(hint, i) % 256]

Seen(bytes, i) == IF i = 0 THEN 0 ELSE bytes[MaxOnesInHint + i]

MalformedHintAnyTail(bytes) ==
    \E i \in 1..Rows :
        \/ Seen(bytes, i) < Seen(bytes, i - 1)
        \/ Seen(bytes, i) > MaxOnesInHint
        \/ \E p \in (Seen(bytes, i - 1) + 2)..Seen(bytes, i) :
              bytes[p] <= bytes[p - 1]

(* The checks of deserialize: the counts do not decrease or exceed the     *)
(* maximum, indices increase within a row, and the rest is zero.           *)
MalformedHint(bytes) ==
    \/ \E i \in 1..Rows :
          \/ Seen(bytes, i) < Seen(bytes, i - 1)
          \/ Seen(bytes, i) > MaxOnesInHint
          \/ \E p \in (Seen(bytes, i - 1) + 2)..Seen(bytes, i) :
                bytes[p] <= bytes[p - 1]
    \/ \E p \in (Seen(bytes, Rows) + 1)..MaxOnesInHint : bytes[p] # 0

HintDeserialize(bytes) ==
    [i \in 1..Rows |-> [n \in 1..N |->
        IF \E p \in (Seen(bytes, i - 1) + 1)..Seen(bytes, i) : bytes[p] = n - 1
        THEN 1 ELSE 0]]

-----------------------------------------------------------------------------
MessageRepresentativeNoLength(tr, call) ==
    <<tr>> \o <<IF call.prehash THEN 1 ELSE 0>> \o call.context
        \o (IF call.prehash THEN Oid \o PreHashes[call.message] ELSE call.message)

(* derive_message_representative: what is absorbed for a call. *)
MessageRepresentative(tr, call) ==
    <<tr>> \o <<IF call.prehash THEN 1 ELSE 0, Len(call.context) % 256>>
        \o call.context
        \o (IF call.prehash THEN Oid \o PreHashes[call.message] ELSE call.message)

Calls == [context : Contexts, message : Messages, prehash : BOOLEAN]

(* generate_key_pair: t = A * s1 + s2 in two parts, the low one packed.    *)
GenerateKeyPair(A, s) ==
    LET t == Plus(MatrixTimes(A, s.s1), s.s2)
    IN  /\ key = None
        /\ key' = [A |-> A, s1 |-> s.s1, s2 |-> s.s2,
                   t0 |-> Map(t, LAMBDA x : ChangeT0Interval(power2round_element(x)[1])),
                   t1 |-> Map(t, LAMBDA x : power2round_element(x)[2])]
        /\ UNCHANGED <<signing, signed, oracle, streams, last>>

TurnAnew(s) == [call |-> s.call, mu |-> s.mu, seed |-> s.seed,
                separator |-> 0, attempt |-> 0,
                mask |-> None, w0 |-> None, w1 |-> None, z |-> None, ct0 |-> None]

(* What a turn of the loop starts with. *)
Turn(s) == [call |-> s.call, mu |-> s.mu, seed |-> s.seed,
            separator |-> s.separator, attempt |-> s.attempt,
            mask |-> None, w0 |-> None, w1 |-> None, z |-> None, ct0 |-> None]

(* sign and sign_pre_hashed, up to the loop. *)
Sign(call, randomness) ==
    LET mu == MessageRepresentative(0, call)
    IN  /\ key # None /\ signing = None
        /\ IF Len(call.context) > CONTEXT_MAX_LEN
           THEN /\ last' = "ContextTooLongError"
                /\ UNCHANGED signing
           ELSE /\ signing' = Turn([call |-> call, mu |-> mu,
                                    seed |-> <<randomness, mu>>,
                                    separator |-> 0, attempt |-> 0])
                /\ UNCHANGED last
        /\ UNCHANGED <<key, signed, oracle, streams>>

(* The counter after sample_mask_vector, which reads four streams at once  *)
(* and then one for each further column.                                   *)
Separator(s, j) == (s.separator + j - 1) % (SeparatorMax + 1)

StreamsRead(s) ==
    {[seed |-> s.seed, separator |-> Separator(s, j), call |-> s.call,
      attempt |-> s.attempt + 1, column |-> j] : j \in 1..Columns}

SampleMaskVectorFourOnly(s) == [s EXCEPT !.separator = Separator(s, 5)]

SampleMaskVector(s) == [s EXCEPT !.separator = Separator(s, Columns + 1)]

(* A turn of the loop, up to the commitment: w = A * mask in two parts.    *)
SignCommit(mask) ==
    LET w == MatrixTimes(key.A, mask)
    IN  /\ signing # None /\ signing.attempt < Bound /\ signing.mask = None
        /\ streams' = streams \cup StreamsRead(signing)
        /\ signing' = [SampleMaskVector(signing) EXCEPT
                          !.attempt = @ + 1, !.mask = mask,
                          !.w0 = Map(w, LAMBDA x : decompose_element(Gamma2, x)[1]),
                          !.w1 = Map(w, LAMBDA x : decompose_element(Gamma2, x)[2])]
        /\ UNCHANGED <<key, signed, oracle, last>>

(* The challenge, which the commitment hash determines, and the response.  *)
SignRespond(challenge) ==
    LET hash == [mu |-> signing.mu, w1 |-> signing.w1]
        c    == IF hash \in DOMAIN oracle THEN oracle[hash] ELSE challenge
    IN  /\ signing # None /\ signing.mask # None /\ signing.z = None
        /\ oracle' = [h \in DOMAIN oracle \cup {hash} |->
                          IF h = hash THEN c ELSE oracle[h]]
        /\ signing' = [signing EXCEPT
                          !.z = Plus(signing.mask, Times(c, key.s1)),
                          !.w0 = Minus(@, Times(c, key.s2)),
                          !.ct0 = Times(c, Map(key.t0, ChangeT0Interval))]
        /\ UNCHANGED <<key, signed, streams, last>>

SerializeSignature(hash, z, hint) ==
    [hash |-> hash, z |-> Map(z, Gamma1Serialize), hint |-> HintSerialize(hint)]

AcceptedAnyHint(s, hint) ==
    /\ ~Exceeds(s.z, Gamma1 - Beta)
    /\ ~Exceeds(s.w0, Gamma2 - Beta)
    /\ ~Exceeds(s.ct0, Gamma2)

Accepted(s, hint) ==
    /\ ~Exceeds(s.z, Gamma1 - Beta)
    /\ ~Exceeds(s.w0, Gamma2 - Beta)
    /\ ~Exceeds(s.ct0, Gamma2)
    /\ OnesUpTo(hint, Rows) <= MaxOnesInHint

(* The norm checks and the hint: the loop ends with a signature, or turns  *)
(* again.                                                                  *)
SignCheck ==
    LET hash == [mu |-> signing.mu, w1 |-> signing.w1]
        hint == MakeHint(Plus(signing.w0, signing.ct0), signing.w1)
    IN  /\ signing # None /\ signing.z # None
        /\ \/ /\ Accepted(signing, hint)
              /\ signing' = None
              /\ signed' = signed \cup
                     {[sig |-> SerializeSignature(hash, signing.z, hint),
                       call |-> signing.call]}
              /\ last' = "Ok"
           \/ /\ ~Accepted(signing, hint)
              /\ signing' = Turn(signing)
              /\ UNCHANGED <<signed, last>>
        /\ UNCHANGED <<key, oracle, streams>>

SignGivesUp ==
    /\ signing # None /\ signing.attempt = Bound /\ signing.mask = None
    /\ signing' = None
    /\ last' = "RejectionSamplingError"
    /\ UNCHANGED <<key, signed, oracle, streams>>

-----------------------------------------------------------------------------
(* compute_w_approx and use_hint. *)
RecomputedCommitment(z, c, hint) ==
    LET t1 == Map(key.t1, LAMBDA x : barrett_reduce_element(x * LowerPartOfT))
        w  == Minus(MatrixTimes(key.A, z), Times(c, t1))
    IN  [i \in 1..Rows |-> [n \in 1..N |->
            use_one_hint(Gamma2, Reduced(w[i][n]), hint[i][n])]]

VerifyCode(call, sig) ==
    LET z  == Map(sig.z, Gamma1Deserialize)
        w1 == RecomputedCommitment(z, oracle[sig.hash], HintDeserialize(sig.hint))
    IN  IF Len(call.context) > CONTEXT_MAX_LEN THEN "VerificationContextTooLongError"
        ELSE IF MalformedHint(sig.hint) THEN "MalformedHintError"
        ELSE IF Exceeds(z, Gamma1 - Beta) THEN "SignerResponseExceedsBoundError"
        ELSE IF sig.hash = [mu |-> MessageRepresentative(0, call), w1 |-> w1]
        THEN "Ok" ELSE "CommitmentHashesDontMatchError"

Init == /\ key = None /\ signing = None /\ signed = {} /\ oracle = <<>>
        /\ streams = {} /\ last = "none"

SignStep == \/ \E mask \in Masks : SignCommit(mask)
            \/ \E c \in Challenges : SignRespond(c)
            \/ SignCheck
            \/ SignGivesUp

Next ==
    \/ \E A \in Matrices, s \in Secrets : GenerateKeyPair(A, s)
    \/ \E call \in Calls, randomness \in Randomness :
          Cardinality(streams) < MaxStreams /\ Sign(call, randomness)
    \/ SignStep

Spec == Init /\ [][Next]_vars

(* A thread that signs keeps running. *)
FairSpec == Spec /\ WF_vars(SignStep)

-----------------------------------------------------------------------------
(* Every signature that was returned verifies for the call it was made     *)
(* for: the rounding, the hint and its encoding recover the commitment     *)
(* though verification knows only the high part of t.                      *)
SignaturesVerify ==
    \A s \in signed : VerifyCode(s.call, s.sig) = "Ok"

(* A signature verifies for no other context, message or way of hashing    *)
(* than the one it was made for: the absorbed bytes tell them apart.       *)
VerifiesOnlyAsSigned ==
    \A s \in signed, call \in Calls :
        VerifyCode(call, s.sig) = "Ok" => call = s.call

(* Verification accepts one encoding of a hint: the one serialize gives.   *)
HintsCanonical ==
    \A s \in signed :
        \A indices \in [1..MaxOnesInHint -> 0..(N - 1)],
          counts \in [1..Rows -> 0..(MaxOnesInHint + 1)] :
            LET bytes == indices \o counts
            IN  VerifyCode(s.call, [s.sig EXCEPT !.hint = bytes]) = "Ok" =>
                    bytes = HintSerialize(HintDeserialize(bytes))

(* No stream of a mask seed is read for two masks: neither by two attempts *)
(* nor by two columns of one, within the u16 that numbers the streams.     *)
MasksNeverReused ==
    \A x, y \in streams :
        x.seed = y.seed /\ x.separator = y.separator =>
            x.call = y.call /\ x.attempt = y.attempt /\ x.column = y.column

(* A turn of the loop is about to check its response, and it will pass. *)
AboutToCheck == signing # None /\ signing.z # None

WillPass == Accepted(signing, MakeHint(Plus(signing.w0, signing.ct0),
                                       signing.w1))

(* Every call to sign returns, for the loop is bounded: with the signature *)
(* of the first response that passes its checks, the one of the last turn  *)
(* included, and with RejectionSamplingError when the last turn fails too. *)
SigningEnds ==
    /\ (signing # None) ~> (signing = None)
    /\ (AboutToCheck /\ WillPass) ~> (signing = None /\ last = "Ok")
    /\ (AboutToCheck /\ ~WillPass /\ signing.attempt = Bound)
          ~> (signing = None /\ last = "RejectionSamplingError")
=============================================================================
