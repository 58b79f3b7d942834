---------------------------- MODULE PsqHandshake ----------------------------
(***************************************************************************)
(* The PSQ handshake of libcrux-psq: registration and query initiators     *)
(* (handshake/initiator/), responders (handshake/responder.rs) and the     *)
(* ciphersuite rules they share (handshake/ciphersuite.rs), over a network *)
(* that loses, repeats and reorders messages.                              *)
(*                                                                         *)
(* A message on the network is the HandshakeMessage in an envelope with    *)
(* the key of the addressee.  Its ct is None when the ciphertext no longer *)
(* opens under any key.                                                    *)
(***************************************************************************)
EXTENDS AeadKey, PsqKeys, FiniteSets

CONSTANTS
    Initiators, Responders,
    InitiatorConfigs,   \* [mode, peer, suite, identity, context, nc]
    ResponderConfigs,   \* [suite, context, nc, bound]
    Faults,             \* what may go wrong, see AllFaults
    MaxEphemeral,       \* bound on the messages a responder writes
    MaxSeen             \* bound on the new keys a responder sees

AllFaults == {"corrupt",   \* messages damaged on the network
              "misroute",  \* messages delivered to the wrong party
              "short",     \* the caller's output buffer is too short
              "misuse",    \* read or write called in the wrong state
              "rng",       \* the random number generator fails
              "abort"}     \* abort_handshake at any time

ASSUME FaultsAssumption == Faults \subseteq AllFaults

ASSUME BoundsAssumption == MaxEphemeral \in Nat /\ MaxSeen \in Nat

(* recent_keys_upper_bound is at least one: the builder sees to it. *)
ASSUME ResponderConfigsAssumption ==
    \A c \in ResponderConfigs : c.bound \in Nat \ {0}

(* An initiator is built to register or to query. *)
ASSUME InitiatorConfigsAssumption ==
    \A c \in InitiatorConfigs : c.mode \in {"registration", "query"}

Suites == [pq : {"NONE", "MLKEM768", "CLASSICMCELIECE"},
           auth : {"X25519", "ED25519", "MLDSA65"},
           aead : {"CHACHA20POLY1305", "AESGCM128"}]

QuerySuite ==
    [pq |-> "NONE", auth |-> "X25519", aead |-> "CHACHA20POLY1305"]

CoerceCompatible(initiator, responder) ==
    IF initiator.pq = "NONE" \/ initiator = responder
    THEN Some(initiator)
    ELSE None

(* A suite without PQ KEM ignores the bytes; any other decodes an optional *)
(* encapsulation.                                                          *)
DeserializeEncapsulation(suite, encaps) ==
    IF suite.pq = "NONE" THEN None ELSE encaps

-----------------------------------------------------------------------------
(* Key pairs, named after their owners. *)
Ephemeral(i) == <<"initiator ephemeral", i>>

LongTerm(r) == <<"responder long-term", r>>

ResponderEphemeral(r, n) == <<"responder ephemeral", r, n>>

PqKey(r, suite) ==
    IF suite.pq = "NONE" THEN None ELSE Some(<<"pq key", r, suite.pq>>)

VARIABLES
    icfg, rcfg,    \* the builders' choices, which never change
    ist, rst,      \* the states of initiators and responders
    working,       \* responder -> optional working_ciphersuite
    recent,        \* responder -> recent_keys, newest first
    neph,          \* responder -> ephemeral keys generated
    net,           \* messages ever sent
    result,        \* what the last call returned
    seen,          \* responder -> every key put into recent_keys, in order
    sealed,        \* every encryption made, and by whom
    completed,     \* registrations the responders answered
    sessions,      \* what into_session returned
    answered       \* query initiators that read an answer

config == <<icfg, rcfg>>

vars == <<icfg, rcfg, ist, rst, working, recent, neph, net, result, seen,
          sealed, completed, sessions, answered>>

Authenticator(i) == <<icfg[i].suite.auth, icfg[i].identity>>

InitiatorSuite(c) == IF c.mode = "query" THEN QuerySuite ELSE c.suite

InitiatorTx0(i, c) == Tx0(c.context, LongTerm(c.peer), Ephemeral(i))

InitiatorK0(i, c) ==
    NewKey(K0(DHSharedSecret(Ephemeral(i), LongTerm(c.peer)),
              InitiatorTx0(i, c), InitiatorSuite(c).aead))

NewInitiator(i, c) ==
    [state |-> IF c.mode = "query" THEN "Query" ELSE "Initial",
     tx |-> InitiatorTx0(i, c), k |-> Some(InitiatorK0(i, c))]

Placeholder == [state |-> "InProgress", tx |-> None, k |-> None]

NewResponder ==
    [state |-> "Initial", tx |-> None, k |-> None, ipk |-> None,
     auth |-> None, pq |-> FALSE]

ResponderPlaceholder == [NewResponder EXCEPT !.state = "InProgress"]

Init ==
    /\ icfg \in [Initiators -> InitiatorConfigs]
    /\ rcfg \in [Responders -> ResponderConfigs]
    /\ ist = [i \in Initiators |-> NewInitiator(i, icfg[i])]
    /\ rst = [r \in Responders |-> NewResponder]
    /\ working = [r \in Responders |-> None]
    /\ recent = [r \in Responders |-> <<>>]
    /\ neph = [r \in Responders |-> 0]
    /\ net = {}
    /\ result = "Ok"
    /\ seen = [r \in Responders |-> <<>>]
    /\ sealed = {}
    /\ completed = {}
    /\ sessions = {}
    /\ answered = {}

-----------------------------------------------------------------------------
(* K1 and K2 of the registration, as each side derives them: auth is both  *)
(* the authenticator and, for X25519, the Diffie-Hellman key.              *)
DeriveK1(k0, auth, signature, responder_pk, pq_secret, tx1, aead) ==
    IF auth[1] = "X25519"
    THEN K1Dh(k0, DHSharedSecret(auth, responder_pk), pq_secret, tx1, aead)
    ELSE K1Sig(k0, pq_secret, tx1, signature, aead)

DeriveK2(k1, auth, initiator_pk, responder_eph, tx2, aead) ==
    LET g_xy == DHSharedSecret(initiator_pk, responder_eph)
    IN  IF auth[1] = "X25519"
        THEN K2RegistrationDh(k1, DHSharedSecret(auth, responder_eph),
                              g_xy, tx2, aead)
        ELSE K2RegistrationSig(k1, g_xy, tx2, aead)

(* An encryption, numbered among those of its author; skip counts the ones *)
(* made earlier in the same step.                                          *)
Sealing(author, skip, ct) ==
    [key |-> ct.key, nonce |-> ct.nonce,
     by |-> <<author,
              Cardinality({s \in sealed : s.by[1] = author}) + skip>>]

Damaged(m) ==
    {[m EXCEPT !.ct = None], [m EXCEPT !.pk = <<"damaged">>]}
        \cup {[m EXCEPT !.suite = s] :
                s \in {InitiatorSuite(c) : c \in InitiatorConfigs}
                        \cup {c.suite : c \in ResponderConfigs}}

(* What the network may deliver to the holder of key pk. *)
Arriving(pk) ==
    LET addressed == {m \in net : m.to = pk \/ "misroute" \in Faults}
    IN  addressed \cup (IF "corrupt" \in Faults
                        THEN UNION {Damaged(m) : m \in addressed} ELSE {})

-----------------------------------------------------------------------------
(* The registration initiator.  Every read and write takes the state out   *)
(* first, so any error leaves the placeholder InProgress.                  *)
InitiatorEncaps(i) ==
    LET pk == PqKey(icfg[i].peer, icfg[i].suite)
    IN  IF pk = None THEN None ELSE Some(PqEncaps(pk[1], i))

PqSharedSecret(pk, encaps) ==
    IF encaps = None THEN None ELSE Some(PqSecret(pk, encaps[1]))

InitiatorTx1(i) ==
    Tx1(ist[i].tx, Authenticator(i), PqKey(icfg[i].peer, icfg[i].suite),
        InitiatorEncaps(i))

SignTx1(i) ==
    IF icfg[i].suite.auth = "X25519"
    THEN None
    ELSE Some(Signature(Authenticator(i), InitiatorTx1(i)))

InitiatorK1(i) ==
    NewKey(DeriveK1(ist[i].k[1].key, Authenticator(i), SignTx1(i),
                    LongTerm(icfg[i].peer),
                    PqSharedSecret(PqKey(icfg[i].peer, icfg[i].suite),
                                   InitiatorEncaps(i)),
                    InitiatorTx1(i), icfg[i].suite.aead))

InnerCiphertext(i) ==
    HandshakeSeal(InitiatorK1(i), icfg[i].nc, <<"payload">>)

OuterCiphertext(i) ==
    HandshakeSeal(ist[i].k[1], icfg[i].nc,
                  <<"registration", [ct |-> InnerCiphertext(i),
                                     auth |-> Authenticator(i),
                                     signature |-> SignTx1(i),
                                     encaps |-> InitiatorEncaps(i)]>>)

InitiatorSeals(i) ==
    sealed' = sealed \cup {Sealing(i, 0, InnerCiphertext(i)),
                           Sealing(i, 1, OuterCiphertext(i))}

InitiatorOnly ==
    UNCHANGED <<config, rst, working, recent, neph, seen, completed>>

RegistrationWrite(i) ==
    /\ ist[i].state = "Initial"
    /\ net' = net \cup {[to |-> LongTerm(icfg[i].peer),
                         pk |-> Ephemeral(i),
                         ct |-> Some(OuterCiphertext(i)),
                         suite |-> icfg[i].suite]}
    /\ ist' = [ist EXCEPT ![i] =
                  [state |-> "Waiting", tx |-> InitiatorTx1(i),
                   k |-> Some(HandshakeUsed(InitiatorK1(i), icfg[i].nc))]]
    /\ InitiatorSeals(i)
    /\ result' = "Ok"
    /\ InitiatorOnly /\ UNCHANGED <<sessions, answered>>

RegistrationWriteShort(i) ==
    /\ "short" \in Faults
    /\ ist[i].state = "Initial"
    /\ ist' = [ist EXCEPT ![i] = Placeholder]
    /\ InitiatorSeals(i)
    /\ result' = "Serialize"
    /\ InitiatorOnly /\ UNCHANGED <<net, sessions, answered>>

(* An error before anything is encrypted: no randomness for the            *)
(* encapsulation or an ML-DSA signature, or a call in the wrong state.     *)
InitiatorFails(i, error) ==
    /\ ist' = [ist EXCEPT ![i] = Placeholder]
    /\ result' = error
    /\ InitiatorOnly /\ UNCHANGED <<net, sealed, sessions, answered>>

RegistrationWriteNoRandomness(i) ==
    /\ "rng" \in Faults
    /\ ist[i].state = "Initial"
    /\ icfg[i].suite.pq # "NONE" \/ icfg[i].suite.auth = "MLDSA65"
    /\ InitiatorFails(i, "InsufficientRandomness")

RegistrationWriteWrongState(i) ==
    /\ "misuse" \in Faults
    /\ ist[i].state \in {"InProgress", "Waiting", "ToTransport"}
    /\ InitiatorFails(i, "InitiatorState")

InitiatorTx2(i, m) == Tx2(ist[i].tx, m.pk)

InitiatorK2(i, m) ==
    NewKey(DeriveK2(ist[i].k[1].key, Authenticator(i), Ephemeral(i), m.pk,
                    InitiatorTx2(i, m), icfg[i].suite.aead))

InitiatorAcceptsAny(i, m) == m.ct # None

InitiatorAccepts(i, m) ==
    /\ m.ct # None
    /\ HandshakeOpens(InitiatorK2(i, m), icfg[i].nc, m.ct[1])

(* The state is set before the payload is copied out: a short buffer is    *)
(* reported after the handshake has finished.                              *)
RegistrationRead(i, m) ==
    /\ ist[i].state = "Waiting"
    /\ InitiatorAccepts(i, m)
    /\ ist' = [ist EXCEPT ![i] =
                  [state |-> "ToTransport", tx |-> InitiatorTx2(i, m),
                   k |-> Some(HandshakeUsed(InitiatorK2(i, m), icfg[i].nc))]]
    /\ \/ result' = "Ok"
       \/ "short" \in Faults /\ result' = "OutputBufferShort"
    /\ InitiatorOnly /\ UNCHANGED <<net, sealed, sessions, answered>>

RegistrationReadFailed(i, m) ==
    /\ ist[i].state = "Waiting"
    /\ ~InitiatorAccepts(i, m)
    /\ InitiatorFails(i, "CryptoError")

RegistrationReadUndecodable(i) ==
    /\ "corrupt" \in Faults
    /\ ist[i].state = "Waiting"
    /\ InitiatorFails(i, "Deserialize")

RegistrationReadWrongState(i) ==
    /\ "misuse" \in Faults
    /\ ist[i].state \in {"InProgress", "Initial", "ToTransport"}
    /\ InitiatorFails(i, "InitiatorState")

Binding(auth, responder_pk, pq_pk) ==
    [authenticator |-> auth, responder_ecdh_pk |-> responder_pk,
     responder_pq_pk |-> pq_pk]

(* into_session consumes the initiator, whatever its state. *)
InitiatorIntoSession(i) ==
    /\ ist[i].state = "ToTransport"
    /\ sessions' = sessions \cup
          {[role |-> "initiator", owner |-> i,
            key |-> DeriveSessionKey(ist[i].k[1].key, ist[i].tx),
            transcript |-> ist[i].tx,
            aead |-> icfg[i].suite.aead,
            binding |-> Binding(Authenticator(i), LongTerm(icfg[i].peer),
                                PqKey(icfg[i].peer, icfg[i].suite))]}
    /\ ist' = [ist EXCEPT ![i].state = "Consumed"]
    /\ result' = "Ok"
    /\ InitiatorOnly /\ UNCHANGED <<net, sealed, answered>>

InitiatorIntoSessionFailed(i) ==
    /\ "misuse" \in Faults
    /\ ist[i].state \in {"InProgress", "Initial", "Waiting"}
    /\ ist' = [ist EXCEPT ![i] = [Placeholder EXCEPT !.state = "Consumed"]]
    /\ result' = "IntoSession"
    /\ InitiatorOnly /\ UNCHANGED <<net, sealed, sessions, answered>>

-----------------------------------------------------------------------------
(* The query initiator.  It has no states but the use of its K0.           *)
QueryCiphertext(i) == HandshakeSeal(ist[i].k[1], icfg[i].nc, <<"query">>)

QueryWrite(i) ==
    /\ ist[i].state = "Query"
    /\ Usable(HandshakeKey(ist[i].k[1], icfg[i].nc), icfg[i].nc)
    /\ sealed' = sealed \cup {Sealing(i, 0, QueryCiphertext(i))}
    /\ ist' = [ist EXCEPT ![i].k[1] = HandshakeUsed(@, icfg[i].nc)]
    /\ \/ /\ net' = net \cup {[to |-> LongTerm(icfg[i].peer),
                               pk |-> Ephemeral(i),
                               ct |-> Some(QueryCiphertext(i)),
                               suite |-> QuerySuite]}
          /\ result' = "Ok"
       \/ /\ "short" \in Faults
          /\ result' = "Serialize"
          /\ UNCHANGED net
    /\ InitiatorOnly /\ UNCHANGED <<sessions, answered>>

(* A second write meets the expired K0; converting KeyExpired into a       *)
(* HandshakeError is marked unreachable!, and panics.                      *)
QueryWriteAgain(i) ==
    /\ "misuse" \in Faults
    /\ ist[i].state = "Query"
    /\ ~Usable(HandshakeKey(ist[i].k[1], icfg[i].nc), icfg[i].nc)
    /\ ist' = [ist EXCEPT ![i] = [Placeholder EXCEPT !.state = "Panicked"]]
    /\ result' = "Panic"
    /\ InitiatorOnly /\ UNCHANGED <<net, sealed, sessions, answered>>

QueryK2(i, m) ==
    NewKey(K2Query(ist[i].k[1].key,
                   DHSharedSecret(Ephemeral(i), LongTerm(icfg[i].peer)),
                   DHSharedSecret(Ephemeral(i), m.pk),
                   Tx2(ist[i].tx, m.pk)))

QueryOpens(i, m) ==
    m.ct # None /\ HandshakeOpens(QueryK2(i, m), icfg[i].nc, m.ct[1])

QueryRead(i, m) ==
    /\ ist[i].state = "Query"
    /\ \/ /\ QueryOpens(i, m)
          /\ answered' = answered \cup {i}
          /\ result' = "Ok"
       \/ /\ QueryOpens(i, m)
          /\ "short" \in Faults
          /\ result' = "OutputBufferShort"
          /\ UNCHANGED answered
       \/ /\ ~QueryOpens(i, m)
          /\ result' = "CryptoError"
          /\ UNCHANGED answered
    /\ InitiatorOnly /\ UNCHANGED <<ist, net, sealed, sessions>>

-----------------------------------------------------------------------------
(* The responder reads only in its Initial state.  The first message with  *)
(* a new key fills recent_keys whatever becomes of it later.               *)
ResponderOnly == UNCHANGED <<config, ist, sessions, answered>>

ReadUnchanged ==
    /\ ResponderOnly
    /\ UNCHANGED <<rst, working, recent, seen, neph, net, sealed, completed>>

ReadNotInitial(r) ==
    /\ rst[r].state \notin {"Initial", "Consumed"}
    /\ Arriving(LongTerm(r)) # {}
    /\ result' = "ResponderState"
    /\ ReadUnchanged

ReadUndecodable(r) ==
    /\ "corrupt" \in Faults
    /\ rst[r].state = "Initial"
    /\ result' = "Deserialize"
    /\ ReadUnchanged

Contains(keys, pk) == \E n \in DOMAIN keys : keys[n] = pk

RateLimited(r, m) == Contains(recent[r], m.pk)

ReadRateLimited(r, m) ==
    /\ rst[r].state = "Initial"
    /\ RateLimited(r, m)
    /\ result' = "RateLimit"
    /\ ReadUnchanged

PushUnbounded(keys, bound, pk) == <<pk>> \o keys

PushUnlessFull(keys, bound, pk) ==
    IF Len(keys) = bound THEN SubSeq(keys, 1, bound - 1) ELSE <<pk>> \o keys

Push(keys, bound, pk) ==
    <<pk>> \o (IF Len(keys) = bound THEN SubSeq(keys, 1, bound - 1)
               ELSE keys)

(* check_rate_limit passes, and remembers the key. *)
CheckRateLimit(r, m) ==
    /\ rst[r].state = "Initial"
    /\ ~RateLimited(r, m)
    /\ Len(seen[r]) < MaxSeen
    /\ recent' = [recent EXCEPT ![r] = Push(@, rcfg[r].bound, m.pk)]
    /\ seen' = [seen EXCEPT ![r] = Append(@, m.pk)]
    /\ ResponderOnly /\ UNCHANGED <<neph, net, sealed, completed>>

Coerced(r, m) == CoerceCompatible(m.suite, rcfg[r].suite)

ReadUnsupported(r, m) ==
    /\ CheckRateLimit(r, m)
    /\ Coerced(r, m) = None
    /\ result' = "UnsupportedCiphersuite"
    /\ UNCHANGED <<rst, working>>

SetWorking(r, m) ==
    /\ CheckRateLimit(r, m)
    /\ Coerced(r, m) # None
    /\ working' = [working EXCEPT ![r] = Coerced(r, m)]

ResponderTx0(r, m) == Tx0(rcfg[r].context, LongTerm(r), m.pk)

ResponderK0(r, m) ==
    NewKey(K0(DHSharedSecret(LongTerm(r), m.pk), ResponderTx0(r, m),
              rcfg[r].suite.aead))

OuterOpens(r, m) ==
    m.ct # None /\ HandshakeOpens(ResponderK0(r, m), rcfg[r].nc, m.ct[1])

IsQuery(r, m) == OuterOpens(r, m) /\ m.ct[1].pt[1] = "query"

IsRegistration(r, m) == OuterOpens(r, m) /\ m.ct[1].pt[1] = "registration"

Inner(m) == m.ct[1].pt[2]

(* decrypt_inner_message, under the working ciphersuite the header set. *)
Encapsulation(r, m) ==
    DeserializeEncapsulation(Coerced(r, m)[1], Inner(m).encaps)

ResponderTx1(r, m) ==
    Tx1(ResponderTx0(r, m), Inner(m).auth,
        IF Encapsulation(r, m) # None THEN PqKey(r, rcfg[r].suite) ELSE None,
        Inner(m).encaps)

SignatureVerifies(r, m) ==
    Inner(m).signature # None =>
        Inner(m).signature = Some(Signature(Inner(m).auth,
                                            ResponderTx1(r, m)))

ResponderK1(r, m) ==
    NewKey(DeriveK1(ResponderK0(r, m).key, Inner(m).auth, Inner(m).signature,
                    LongTerm(r),
                    PqSharedSecret(PqKey(r, rcfg[r].suite),
                                   Encapsulation(r, m)),
                    ResponderTx1(r, m), rcfg[r].suite.aead))

InnerOpens(r, m) ==
    /\ SignatureVerifies(r, m)
    /\ HandshakeOpens(ResponderK1(r, m), rcfg[r].nc, Inner(m).ct)

PqFromHeader(r, m) == Coerced(r, m)[1].pq # "NONE"

IsPq(r, m) == Encapsulation(r, m) # None

ReadUndecryptable(r, m) ==
    /\ SetWorking(r, m)
    /\ OuterOpens(r, m) => IsRegistration(r, m) /\ ~InnerOpens(r, m)
    /\ result' = "CryptoError"
    /\ UNCHANGED rst

(* The state is set before the payload is copied out. *)
ReadResult == \/ result' = "Ok"
              \/ "short" \in Faults /\ result' = "OutputBufferShort"

ReadQuery(r, m) ==
    /\ SetWorking(r, m)
    /\ IsQuery(r, m)
    /\ rst' = [rst EXCEPT ![r] =
                  [state |-> "RespondQuery", tx |-> ResponderTx0(r, m),
                   k |-> Some(HandshakeUsed(ResponderK0(r, m), rcfg[r].nc)),
                   ipk |-> m.pk, auth |-> None, pq |-> FALSE]]
    /\ ReadResult

ReadRegistration(r, m) ==
    /\ SetWorking(r, m)
    /\ IsRegistration(r, m)
    /\ InnerOpens(r, m)
    /\ rst' = [rst EXCEPT ![r] =
                  [state |-> "RespondRegistration", tx |-> ResponderTx1(r, m),
                   k |-> Some(HandshakeUsed(ResponderK1(r, m), rcfg[r].nc)),
                   ipk |-> m.pk, auth |-> Some(Inner(m).auth),
                   pq |-> IsPq(r, m)]]
    /\ ReadResult

-----------------------------------------------------------------------------
(* The responder writes with a fresh ephemeral key.  The state is taken    *)
(* out before the key is generated, and set again before the message is    *)
(* serialized: without randomness, or in the wrong state, the placeholder  *)
(* remains; with a short buffer the answer is lost but the state advanced. *)
NextEphemeralReused(r) == ResponderEphemeral(r, 0)

NextEphemeral(r) == ResponderEphemeral(r, neph[r])

Respond(r, suite, ct) ==
    /\ neph[r] < MaxEphemeral
    /\ neph' = [neph EXCEPT ![r] = @ + 1]
    /\ sealed' = sealed \cup {Sealing(r, 0, ct)}
    /\ \/ /\ net' = net \cup {[to |-> rst[r].ipk, pk |-> NextEphemeral(r),
                               ct |-> Some(ct), suite |-> suite]}
          /\ result' = "Ok"
       \/ /\ "short" \in Faults
          /\ result' = "Serialize"
          /\ UNCHANGED net
    /\ ResponderOnly /\ UNCHANGED <<working, recent, seen>>

ResponderQueryK2(r) ==
    NewKey(K2Query(rst[r].k[1].key,
                   DHSharedSecret(LongTerm(r), rst[r].ipk),
                   DHSharedSecret(NextEphemeral(r), rst[r].ipk),
                   Tx2(rst[r].tx, NextEphemeral(r))))

RespondQuery(r) ==
    /\ rst[r].state = "RespondQuery"
    /\ Respond(r, QuerySuite,
               HandshakeSeal(ResponderQueryK2(r), rcfg[r].nc, <<"answer">>))
    /\ rst' = [rst EXCEPT ![r] = NewResponder]
    /\ UNCHANGED completed

ResponderTx2(r) == Tx2(rst[r].tx, NextEphemeral(r))

ResponderK2(r) ==
    NewKey(DeriveK2(rst[r].k[1].key, rst[r].auth[1], rst[r].ipk,
                    NextEphemeral(r), ResponderTx2(r), rcfg[r].suite.aead))

RespondRegistration(r) ==
    /\ rst[r].state = "RespondRegistration"
    /\ Respond(r, working[r][1],
               HandshakeSeal(ResponderK2(r), rcfg[r].nc, <<"answer">>))
    /\ rst' = [rst EXCEPT ![r] =
                  [state |-> "ToTransport", tx |-> ResponderTx2(r),
                   k |-> Some(HandshakeUsed(ResponderK2(r), rcfg[r].nc)),
                   ipk |-> rst[r].ipk, auth |-> rst[r].auth,
                   pq |-> rst[r].pq]]
    /\ completed' = completed \cup
          {[responder |-> r, ipk |-> rst[r].ipk, auth |-> rst[r].auth,
            pq |-> rst[r].pq, tx2 |-> ResponderTx2(r),
            k2 |-> ResponderK2(r).key]}

ResponderFails(r, error) ==
    /\ rst' = [rst EXCEPT ![r] = ResponderPlaceholder]
    /\ result' = error
    /\ ResponderOnly
    /\ UNCHANGED <<working, recent, seen, neph, net, sealed, completed>>

ResponderWriteNoRandomness(r) ==
    /\ "rng" \in Faults
    /\ rst[r].state # "Consumed"
    /\ ResponderFails(r, "InsufficientRandomness")

ResponderWriteWrongState(r) ==
    /\ "misuse" \in Faults
    /\ rst[r].state \in {"InProgress", "Initial", "ToTransport"}
    /\ ResponderFails(r, "ResponderState")

AbortKeepsState(r) ==
    /\ "abort" \in Faults
    /\ rst[r].state # "Consumed"
    /\ working' = [working EXCEPT ![r] = None]
    /\ result' = "Ok"
    /\ ResponderOnly
    /\ UNCHANGED <<rst, recent, seen, neph, net, sealed, completed>>

AbortHandshake(r) ==
    /\ "abort" \in Faults
    /\ rst[r].state # "Consumed"
    /\ rst' = [rst EXCEPT ![r] = NewResponder]
    /\ working' = [working EXCEPT ![r] = None]
    /\ result' = "Ok"
    /\ ResponderOnly
    /\ UNCHANGED <<recent, seen, neph, net, sealed, completed>>

ResponderBindingIgnoresPq(r) ==
    Binding(rst[r].auth[1], LongTerm(r), PqKey(r, rcfg[r].suite))

ResponderBinding(r) ==
    Binding(rst[r].auth[1], LongTerm(r),
            IF rst[r].pq THEN PqKey(r, rcfg[r].suite) ELSE None)

ResponderConsumed(r) ==
    /\ rst' = [rst EXCEPT ![r] = [NewResponder EXCEPT !.state = "Consumed"]]
    /\ UNCHANGED <<config, ist, answered, working, recent, seen, neph, net,
                   sealed, completed>>

ResponderIntoSession(r) ==
    /\ rst[r].state = "ToTransport"
    /\ sessions' = sessions \cup
          {[role |-> "responder", owner |-> r,
            key |-> DeriveSessionKey(rst[r].k[1].key, rst[r].tx),
            transcript |-> rst[r].tx, aead |-> rcfg[r].suite.aead,
            binding |-> ResponderBinding(r)]}
    /\ result' = "Ok"
    /\ ResponderConsumed(r)

ResponderIntoSessionFailed(r) ==
    /\ "misuse" \in Faults
    /\ rst[r].state \notin {"ToTransport", "Consumed"}
    /\ result' = "IntoSession"
    /\ ResponderConsumed(r)
    /\ UNCHANGED sessions

-----------------------------------------------------------------------------
InitiatorReads(i, m) ==
    \/ RegistrationRead(i, m)
    \/ RegistrationReadFailed(i, m)
    \/ QueryRead(i, m)

InitiatorStep(i) ==
    \/ RegistrationWrite(i)
    \/ RegistrationWriteShort(i)
    \/ RegistrationWriteNoRandomness(i)
    \/ RegistrationWriteWrongState(i)
    \/ RegistrationReadUndecodable(i)
    \/ RegistrationReadWrongState(i)
    \/ InitiatorIntoSession(i)
    \/ InitiatorIntoSessionFailed(i)
    \/ QueryWrite(i)
    \/ QueryWriteAgain(i)
    \/ \E m \in Arriving(Ephemeral(i)) : InitiatorReads(i, m)

ResponderReads(r, m) ==
    \/ ReadRateLimited(r, m)
    \/ ReadUnsupported(r, m)
    \/ ReadUndecryptable(r, m)
    \/ ReadQuery(r, m)
    \/ ReadRegistration(r, m)

ResponderStep(r) ==
    \/ ReadNotInitial(r)
    \/ ReadUndecodable(r)
    \/ RespondQuery(r)
    \/ RespondRegistration(r)
    \/ ResponderWriteNoRandomness(r)
    \/ ResponderWriteWrongState(r)
    \/ AbortHandshake(r)
    \/ ResponderIntoSession(r)
    \/ ResponderIntoSessionFailed(r)
    \/ \E m \in Arriving(LongTerm(r)) : ResponderReads(r, m)

Next == \/ \E i \in Initiators : InitiatorStep(i)
        \/ \E r \in Responders : ResponderStep(r)

Spec == Init /\ [][Next]_vars

(* Without faults everyone takes the steps open to them: an application    *)
(* calls write_message and into_session when it can, and the network       *)
(* delivers a message at last to the party it is addressed to.             *)
FairSpec ==
    /\ Spec
    /\ \A i \in Initiators :
          /\ WF_vars(RegistrationWrite(i))
          /\ WF_vars(QueryWrite(i))
          /\ WF_vars(\E m \in net : /\ m.to = Ephemeral(i)
                                    /\ RegistrationRead(i, m))
          /\ WF_vars(\E m \in net : /\ m.to = Ephemeral(i)
                                    /\ QueryOpens(i, m)
                                    /\ QueryRead(i, m))
          /\ WF_vars(InitiatorIntoSession(i))
    /\ \A r \in Responders :
          /\ WF_vars(\E m \in net : /\ m.to = LongTerm(r)
                                    /\ ReadQuery(r, m))
          /\ WF_vars(\E m \in net : /\ m.to = LongTerm(r)
                                    /\ ReadRegistration(r, m))
          /\ WF_vars(RespondQuery(r))
          /\ WF_vars(RespondRegistration(r))
          /\ WF_vars(ResponderIntoSession(r))

-----------------------------------------------------------------------------
InitiatorStates ==
    {"Initial", "Waiting", "ToTransport", "InProgress", "Consumed", "Query",
     "Panicked"}

ResponderStates ==
    {"Initial", "RespondQuery", "RespondRegistration", "ToTransport",
     "InProgress", "Consumed"}

(* Types: the states of the two enums, a bounded recent_keys without       *)
(* repetition, and working ciphersuites the responder can be coerced into. *)
TypeOK ==
    /\ \A i \in Initiators :
          /\ ist[i].state \in InitiatorStates
          /\ ist[i].state \in {"Initial", "Waiting", "ToTransport", "Query"}
                => Len(ist[i].k) = 1
    /\ \A r \in Responders :
          /\ rst[r].state \in ResponderStates
          /\ Len(recent[r]) <= rcfg[r].bound
          /\ \A m, n \in DOMAIN recent[r] :
                recent[r][m] = recent[r][n] => m = n
          /\ working[r] = None \/ working[r][1].pq = "NONE"
                               \/ working[r] = Some(rcfg[r].suite)
          /\ neph[r] \in 0..MaxEphemeral

(* The two can finish: the suites can be coerced, and context and AEAD     *)
(* agree.  Queries use ChaCha20Poly1305 whatever the responder's suite.    *)
Compatible(i) ==
    LET r == icfg[i].peer
        suite == InitiatorSuite(icfg[i])
    IN  /\ CoerceCompatible(suite, rcfg[r].suite) # None
        /\ suite.aead = rcfg[r].suite.aead
        /\ icfg[i].context = rcfg[r].context

(* Sessions with the same key are the two ends of one handshake, at most   *)
(* one of each role, and agree on the transcript, the AEAD and the public  *)
(* keys they are bound to: a PQ responder that was coerced into a non-PQ   *)
(* suite binds without its PQ key (into_session on both sides).            *)
SessionsAgree ==
    \A s, t \in sessions :
        s.key = t.key /\ s # t =>
            /\ s.role # t.role
            /\ s.transcript = t.transcript
            /\ s.aead = t.aead
            /\ s.binding = t.binding

(* An initiator whose registration finished knows that the intended        *)
(* responder answered it, with the same K2 and tx2, under the initiator's  *)
(* own authenticator and with PQ exactly when its suite has a PQ KEM       *)
(* (registration.rs, read_decoded_message).                                *)
InitiatorConfirmed ==
    \A i \in Initiators : ist[i].state = "ToTransport" =>
        [responder |-> icfg[i].peer, ipk |-> Ephemeral(i),
         auth |-> Some(Authenticator(i)), pq |-> icfg[i].suite.pq # "NONE",
         tx2 |-> ist[i].tx, k2 |-> ist[i].k[1].key] \in completed

(* What a responder checks of an initiator with these choices, however its *)
(* message travels: context, AEAD and PQ KEM.  The header that names the   *)
(* suite is not authenticated, so the authentication method is not.        *)
Served(i, r) ==
    /\ icfg[i].context = rcfg[r].context
    /\ icfg[i].suite.aead = rcfg[r].suite.aead
    /\ icfg[i].suite.pq \in {"NONE", rcfg[r].suite.pq}

(* A responder that accepted a registration serves an initiator that meant *)
(* it, under its authenticator, context and AEAD and with PQ exactly when  *)
(* that initiator encapsulated, then under the responder's own PQ KEM,     *)
(* whatever ciphersuite the unauthenticated header named on arrival        *)
(* (responder.rs, read_message_contents).                                  *)
RegistrationAuthentic ==
    \A r \in Responders :
        rst[r].state \in {"RespondRegistration", "ToTransport"} =>
            \E i \in Initiators :
                /\ icfg[i].mode = "registration"
                /\ icfg[i].peer = r
                /\ rst[r].ipk = Ephemeral(i)
                /\ rst[r].auth = Some(Authenticator(i))
                /\ rst[r].pq <=> icfg[i].suite.pq # "NONE"
                /\ Served(i, r)

(* registration() never meets a missing working_ciphersuite, its error     *)
(* after K2 was used: a responder about to answer has one, which has a PQ  *)
(* KEM if the state says so, whatever failed or was aborted before.        *)
WorkingSuiteSet ==
    \A r \in Responders :
        rst[r].state = "RespondRegistration" =>
            /\ working[r] # None
            /\ rst[r].pq => working[r] = Some(rcfg[r].suite)

(* A key that was let through check_rate_limit is let through again only   *)
(* after recent_keys_upper_bound other new keys.                           *)
ReplayWindow ==
    \A r \in Responders : \A m, n \in DOMAIN seen[r] :
        m < n /\ seen[r][m] = seen[r][n] => n - m > rcfg[r].bound

(* No handshake key encrypts twice at a nonce, by one party or by two, in  *)
(* builds with and without nonce-control, through repeated messages,       *)
(* aborts and failed writes (aead.rs, handshake_encrypt).                  *)
HandshakeNoncesUnique ==
    \A a, b \in sealed : a.key = b.key /\ a.nonce = b.nonce => a = b

(* Only compatible parties finish. *)
OnlyCompatibleFinish ==
    \A i \in Initiators :
        i \in answered \/ ist[i].state = "ToTransport" => Compatible(i)

HaveSessions(i) ==
    \E s, t \in sessions : /\ s.role = "initiator" /\ s.owner = i
                           /\ t.role = "responder"
                           /\ t.owner = icfg[i].peer
                           /\ s.key = t.key

(* A compatible initiator alone with its responder and a network that      *)
(* delivers gets its answer, or both get sessions with one key, in any mix *)
(* of suites and of builds with and without nonce-control.                 *)
CompatibleFinish ==
    \A i \in Initiators :
        Compatible(i) ~> IF icfg[i].mode = "query" THEN i \in answered
                         ELSE HaveSessions(i)

-----------------------------------------------------------------------------
(* handshake.rs on KeyExpired: "this really should not happen and          *)
(* indicates a fatal bug in the handshake protocol".                       *)
NeverPanics == result # "Panic"

(* traits.rs: "If the internal state is not ready to write a message,      *)
(* nothing is written to `out` and `Ok(0)` is returned", and likewise for  *)
(* reading: calling early or late is no error.                             *)
NotReadyIsNoError == result \notin {"ResponderState", "InitiatorState"}

(* ciphersuite.rs: "A compatible ciphersuite exists, if the PQ KEMs of     *)
(* both ciphersuites agree, or if the initiator side does not specify a PQ *)
(* KEM": a responder refuses a suite only for its PQ KEM.                  *)
RefusesOnlyForPqKem ==
    [][\A r \in Responders : \A m \in net :
          ReadUnsupported(r, m) => /\ m.suite.pq # "NONE"
                                   /\ m.suite.pq # rcfg[r].suite.pq]_vars
=============================================================================
