------------------------- MODULE PsqHandshakeProofs -------------------------
(***************************************************************************)
(* The safety properties of the handshake, for any number of initiators    *)
(* and responders, all configurations and all faults.                      *)
(***************************************************************************)
EXTENDS PsqHandshake, TLAPS

-----------------------------------------------------------------------------
(* What an initiator derives, as terms over its configuration alone. *)
ITx0(i) == InitiatorTx0(i, icfg[i])

IK0(i) == K0(DHSharedSecret(Ephemeral(i), LongTerm(icfg[i].peer)), ITx0(i),
             InitiatorSuite(icfg[i]).aead)

IPq(i) == PqKey(icfg[i].peer, icfg[i].suite)

ITx1(i) == Tx1(ITx0(i), Authenticator(i), IPq(i), InitiatorEncaps(i))

ISignature(i) == IF icfg[i].suite.auth = "X25519" THEN None
                 ELSE Some(Signature(Authenticator(i), ITx1(i)))

IK1(i) == DeriveK1(IK0(i), Authenticator(i), ISignature(i),
                   LongTerm(icfg[i].peer),
                   PqSharedSecret(IPq(i), InitiatorEncaps(i)),
                   ITx1(i), icfg[i].suite.aead)

IInner(i) == [ct |-> HandshakeSeal(NewKey(IK1(i)), icfg[i].nc, <<"payload">>),
              auth |-> Authenticator(i), signature |-> ISignature(i),
              encaps |-> InitiatorEncaps(i)]

ITx2(i, eph) == Tx2(ITx1(i), eph)

IK2(i, eph) == DeriveK2(IK1(i), Authenticator(i), Ephemeral(i), eph,
                        ITx2(i, eph), icfg[i].suite.aead)

IsPqInitiator(i) == icfg[i].suite.pq # "NONE"

(* What responder and session hold once initiator i was answered with eph. *)
Completion(i, eph) ==
    [responder |-> icfg[i].peer, ipk |-> Ephemeral(i),
     auth |-> Some(Authenticator(i)), pq |-> IsPqInitiator(i),
     tx2 |-> ITx2(i, eph), k2 |-> IK2(i, eph)]

SessionOf(role, owner, i, eph) ==
    [role |-> role, owner |-> owner,
     key |-> DeriveSessionKey(IK2(i, eph), ITx2(i, eph)),
     transcript |-> ITx2(i, eph), aead |-> icfg[i].suite.aead,
     binding |-> Binding(Authenticator(i), LongTerm(icfg[i].peer), IPq(i))]

ResponderState(state, tx, key, nc, i) ==
    [state |-> state, tx |-> tx, k |-> Some(HandshakeUsed(NewKey(key), nc)),
     ipk |-> Ephemeral(i), auth |-> Some(Authenticator(i)),
     pq |-> IsPqInitiator(i)]

(* Public keys that travel. *)
Ephs == {ResponderEphemeral(r, n) : r \in Responders, n \in Nat}

PublicKeys == {Ephemeral(i) : i \in Initiators} \cup Ephs \cup {<<"damaged">>}

-----------------------------------------------------------------------------
(* Initiator i meant responder r, which serves it. *)
Registers(i, r) == /\ icfg[i].mode = "registration"
                   /\ icfg[i].peer = r
                   /\ Served(i, r)

ConfigInv ==
    /\ icfg \in [Initiators -> InitiatorConfigs]
    /\ rcfg \in [Responders -> ResponderConfigs]
    /\ ist = [i \in Initiators |-> ist[i]]
    /\ rst = [r \in Responders |-> rst[r]]
    /\ working = [r \in Responders |-> working[r]]
    /\ recent = [r \in Responders |-> recent[r]]
    /\ seen = [r \in Responders |-> seen[r]]
    /\ neph \in [Responders -> 0..MaxEphemeral]

(* The state of an initiator agrees with what it derives. *)
InitiatorInv(i) ==
    /\ ist[i] = [state |-> ist[i].state, tx |-> ist[i].tx, k |-> ist[i].k]
    /\ ist[i].state \in InitiatorStates
    /\ ist[i].state = "Initial" =>
          /\ icfg[i].mode = "registration"
          /\ ist[i].tx = ITx0(i)
          /\ ist[i].k = Some(NewKey(IK0(i)))
    /\ ist[i].state = "Query" =>
          /\ icfg[i].mode = "query"
          /\ ist[i].tx = ITx0(i)
          /\ ist[i].k = Some(ist[i].k[1])
          /\ ist[i].k[1] \in {NewKey(IK0(i)),
                              HandshakeUsed(NewKey(IK0(i)), icfg[i].nc)}
    /\ ist[i].state = "Waiting" =>
          /\ icfg[i].mode = "registration"
          /\ ist[i].tx = ITx1(i)
          /\ ist[i].k = Some(HandshakeUsed(NewKey(IK1(i)), icfg[i].nc))
    /\ ist[i].state = "ToTransport" =>
          \E eph \in Ephs :
              /\ ist[i].tx = ITx2(i, eph)
              /\ ist[i].k = Some(HandshakeUsed(NewKey(IK2(i, eph)), icfg[i].nc))
              /\ Completion(i, eph) \in completed

(* So does that of a responder with what the initiator it serves derives. *)
ResponderInv(r) ==
    /\ rst[r].state \in ResponderStates
    /\ rst[r].state = "RespondRegistration" =>
          \E i \in Initiators :
              /\ Registers(i, r)
              /\ rst[r] = ResponderState("RespondRegistration", ITx1(i),
                                         IK1(i), rcfg[r].nc, i)
              /\ working[r] # None
              /\ rst[r].pq => working[r] = Some(rcfg[r].suite)
    /\ rst[r].state = "ToTransport" =>
          \E i \in Initiators, eph \in Ephs :
              /\ Registers(i, r)
              /\ rst[r] = ResponderState("ToTransport", ITx2(i, eph),
                                         IK2(i, eph), rcfg[r].nc, i)
    /\ \/ working[r] = None
       \/ working[r][1].pq = "NONE"
       \/ working[r] = Some(rcfg[r].suite)

(* Where ciphertexts come from. *)
Made(c) ==
    \/ \E i \in Initiators :
          /\ c.key = IK0(i)
          /\ \/ /\ icfg[i].mode = "registration"
                /\ c.pt = <<"registration", IInner(i)>>
             \/ /\ icfg[i].mode = "query"
                /\ c.pt = <<"query">>
    \/ c.key[1] = "K2 query"
    \/ \E i \in Initiators, eph \in Ephs :
          c.key = IK2(i, eph) /\ Completion(i, eph) \in completed

Genuine(m) == /\ m.pk \in PublicKeys
              /\ m.ct # None => m.ct = Some(m.ct[1]) /\ Made(m.ct[1])

Shaped(m) == m = [to |-> m.to, pk |-> m.pk, ct |-> m.ct, suite |-> m.suite]

NetInv == \A m \in net : Shaped(m) /\ Genuine(m)

CompletedInv ==
    \A c \in completed : \E i \in Initiators, eph \in Ephs : c = Completion(i, eph)

(* An initiator that has encrypted will not do so again. *)
Spent(i) == /\ ist[i].state # "Initial"
            /\ ist[i].state = "Query" => ist[i].k[1].expired

EphemeralIn(key) == IF key[1] = "K2 sig" THEN key[4][3] ELSE key[5][3]

IsK2(key) == key[1] \in {"K2 query", "K2 dh", "K2 sig"}

SealedInv ==
    \A s \in sealed :
        \/ \E i \in Initiators : s.key \in {IK0(i), IK1(i)} /\ Spent(i)
        \/ /\ IsK2(s.key)
           /\ \E r \in Responders : \E n \in 0 .. neph[r] - 1 :
                 EphemeralIn(s.key) = ResponderEphemeral(r, n)

SessionsInv ==
    \A s \in sessions : \E i \in Initiators, eph \in Ephs :
        \/ s = SessionOf("initiator", i, i, eph)
        \/ s = SessionOf("responder", icfg[i].peer, i, eph)

(* recent_keys holds the last keys let through, newest first, and a key is *)
(* let through again only when it has left the window.                     *)
Window(keys, log, bound) ==
    /\ keys \in Seq(PublicKeys) /\ log \in Seq(PublicKeys)
    /\ Len(keys) = IF Len(log) < bound THEN Len(log) ELSE bound
    /\ \A k \in 1 .. Len(keys) : keys[k] = log[Len(log) + 1 - k]
    /\ \A m, n \in 1 .. Len(log) :
          m < n /\ log[m] = log[n] => n - m > bound

WindowInv(r) == Window(recent[r], seen[r], rcfg[r].bound)

IInv == /\ ConfigInv
        /\ \A i \in Initiators : InitiatorInv(i)
        /\ \A r \in Responders : ResponderInv(r)
        /\ NetInv /\ CompletedInv
        /\ SealedInv /\ HandshakeNoncesUnique
        /\ SessionsInv
        /\ \A r \in Responders : WindowInv(r)
-----------------------------------------------------------------------------
(* Terms of different kinds and of different initiators differ. *)
LEMMA K0Injective ==
    ASSUME NEW i, NEW j, IK0(i) = IK0(j)
    PROVE  i = j
  BY Zenon DEF IK0, ITx0, InitiatorTx0, K0, Tx0, Ephemeral

(* The second component of K1 is K0, whatever the authentication. *)
LEMMA K1Injective ==
    ASSUME NEW i, NEW j, IK1(i) = IK1(j)
    PROVE  i = j
<1>1. IK1(i)[2] = IK0(i) /\ IK1(j)[2] = IK0(j)
  BY Zenon DEF IK1, DeriveK1, K1Dh, K1Sig
<1> QED
  BY <1>1, K0Injective, Zenon

(* The second component of K2 is K1, and its transcript holds the          *)
(* responder's ephemeral key.                                              *)
LEMMA K2Parts ==
    ASSUME NEW i, NEW eph
    PROVE  /\ IK2(i, eph)[2] = IK1(i)
           /\ IK2(i, eph)[1] \in {"K2 dh", "K2 sig"}
           /\ IsK2(IK2(i, eph)) /\ EphemeralIn(IK2(i, eph)) = eph
  BY Zenon DEF IK2, DeriveK2, K2RegistrationDh, K2RegistrationSig, ITx2, Tx2, IsK2,
         EphemeralIn

(* Hence one K2 belongs to one initiator and one ephemeral key. *)
LEMMA K2Injective ==
    ASSUME NEW i, NEW j, NEW e, NEW f, IK2(i, e) = IK2(j, f)
    PROVE  i = j /\ e = f
<1>1. /\ IK2(i, e)[2] = IK1(i) /\ EphemeralIn(IK2(i, e)) = e
      /\ IK2(j, f)[2] = IK1(j) /\ EphemeralIn(IK2(j, f)) = f
  BY K2Parts, Zenon
<1>2. IK1(i) = IK1(j) /\ e = f
  BY <1>1, Zenon
<1> QED
  BY <1>2, K1Injective, Zenon

(* K0, K1 and K2 are told apart by their labels. *)
LEMMA KindsDiffer ==
    ASSUME NEW i, NEW j
    PROVE  /\ IK0(i)[1] = "K0"
           /\ IK1(i)[1] \in {"K1 dh", "K1 sig"}
           /\ IK0(i) # IK1(j)
           /\ ~IsK2(IK0(i)) /\ ~IsK2(IK1(i))
<1>1. IK0(i)[1] = "K0"
  BY Zenon DEF IK0, K0
<1>2. \A n \in {i, j} : IK1(n)[1] \in {"K1 dh", "K1 sig"}
  BY Zenon DEF IK1, DeriveK1, K1Dh, K1Sig
<1> QED
  BY <1>1, <1>2, Zenon DEF IsK2

(* A fresh handshake key. *)
LEMMA NewKeyParts ==
    ASSUME NEW x
    PROVE  NewKey(x).key = x /\ NewKey(x).expired = FALSE
  BY Zenon DEF NewKey

(* A key object. *)
IsKey(h) == h = [key |-> h.key, nonce |-> h.nonce, expired |-> h.expired]

(* A key object with another nonce, and expired. *)
LEMMA KeyEdits ==
    ASSUME NEW h, NEW u, IsKey(h)
    PROVE  /\ \A n : u = [h EXCEPT !.nonce = n] =>
                    IsKey(u) /\ u.key = h.key /\ u.expired = h.expired
           /\ u = Expire(h) => IsKey(u) /\ u.key = h.key /\ u.expired = TRUE
  BY Zenon DEF IsKey, Expire

(* A fresh handshake key before and after its nonce is incremented. *)
LEMMA FreshKey ==
    ASSUME NEW x, NEW nc, NEW h, h = HandshakeKey(NewKey(x), nc),
           NEW u, u = IncrementNonce(h, nc)
    PROVE  h.key = x /\ IsKey(u) /\ u.key = x
<1>1. PICK k : k = NewKey(x)
  BY Zenon
<1>2. IsKey(k) /\ k.key = x
  BY <1>1, Zenon DEF NewKey, IsKey
<1>3. h = k \/ \E n : h = [k EXCEPT !.nonce = n]
  BY <1>1, Zenon DEF HandshakeKey
<1>4. IsKey(h) /\ h.key = x
  BY <1>2, <1>3, KeyEdits, ZenonT(30)
<1>5. u = h \/ \E n : u = [h EXCEPT !.nonce = n]
  BY Zenon DEF IncrementNonce
<1>6. IsKey(u) /\ u.key = x
  <2>1. CASE u = h
    BY <1>4, <2>1, Zenon
  <2>2. CASE \E n : u = [h EXCEPT !.nonce = n]
    <3>1. PICK n : u = [h EXCEPT !.nonce = n]
      BY <2>2, Zenon
    <3>2. IsKey(u) /\ u.key = h.key
      BY <1>4, <3>1, KeyEdits, Zenon
    <3> QED
      BY <1>4, <3>2, Zenon
  <2> QED
    BY <1>5, <2>1, <2>2, Zenon
<1> QED
  BY <1>4, <1>6, Zenon

(* A ciphertext of plaintext p under key material x. *)
SealedAs(c, x, p) == c.key = x /\ c.pt = p

(* What a fresh handshake key seals. *)
LEMMA FreshSeal ==
    ASSUME NEW x, NEW nc, NEW p, NEW c, c = HandshakeSeal(NewKey(x), nc, p)
    PROVE  SealedAs(c, x, p)
<1>1. PICK h : h = HandshakeKey(NewKey(x), nc)
  BY Zenon
<1>2. h.key = x
  BY <1>1, FreshKey, Zenon
<1> QED
  BY <1>1, <1>2, Zenon DEF HandshakeSeal, Seal, SealedAs

(* What a fresh handshake key leaves behind when it is used. *)
LEMMA FreshUsed ==
    ASSUME NEW x, NEW nc, NEW c, c = HandshakeUsed(NewKey(x), nc)
    PROVE  IsKey(c) /\ c.key = x /\ c.expired = TRUE
<1>1. PICK h : h = HandshakeKey(NewKey(x), nc)
  BY Zenon
<1>2. PICK u : u = IncrementNonce(h, nc)
  BY Zenon
<1>3. IsKey(u) /\ u.key = x
  BY <1>1, <1>2, FreshKey, Zenon
<1>4. c = Expire(u)
  BY <1>1, <1>2, Zenon DEF HandshakeUsed
<1> QED
  BY <1>3, <1>4, KeyEdits, Zenon

(* The same, of the term itself. *)
LEMMA UsedParts ==
    ASSUME NEW x, NEW nc
    PROVE  /\ IsKey(HandshakeUsed(NewKey(x), nc))
           /\ HandshakeUsed(NewKey(x), nc).key = x
           /\ HandshakeUsed(NewKey(x), nc).expired = TRUE
<1>1. PICK c : c = HandshakeUsed(NewKey(x), nc)
  BY Zenon
<1>2. IsKey(c) /\ c.key = x /\ c.expired = TRUE
  BY <1>1, FreshUsed, Zenon
<1> QED
  BY <1>1, <1>2, Zenon

(* What a fresh handshake key opens was made under its key material. *)
LEMMA FreshOpens ==
    ASSUME NEW x, NEW nc, NEW c, HandshakeOpens(NewKey(x), nc, c)
    PROVE  c.key = x
<1>1. PICK h : h = HandshakeKey(NewKey(x), nc)
  BY Zenon
<1>2. h.key = x
  BY <1>1, FreshKey, Zenon
<1> QED
  BY <1>1, <1>2, Zenon DEF HandshakeOpens, Opens

-----------------------------------------------------------------------------
(* What the records of the handshake hold. *)
LEMMA SomeParts ==
    ASSUME NEW x, NEW a, x = Some(a)
    PROVE  x[1] = a /\ x = Some(x[1]) /\ x # None
  BY Zenon DEF Some, None

(* An initiator in a state with a transcript and a key. *)
InitiatorAt(y, st, tx, k) == y.state = st /\ y.tx = tx /\ y.k = k

(* What such an initiator holds. *)
LEMMA InitiatorRecord ==
    ASSUME NEW y, NEW st, NEW tx, NEW k, y = [state |-> st, tx |-> tx, k |-> k]
    PROVE  InitiatorAt(y, st, tx, k)
  BY Zenon DEF InitiatorAt

(* A responder that serves initiator i. *)
Serves(y, st, tx, key, nc, i) ==
    /\ y.state = st /\ y.tx = tx
    /\ y.k[1] = HandshakeUsed(NewKey(key), nc) /\ y.k[1].key = key
    /\ y.ipk = Ephemeral(i)
    /\ y.auth = Some(Authenticator(i)) /\ y.auth[1] = Authenticator(i)
    /\ y.pq = IsPqInitiator(i)

(* What such a responder holds. *)
LEMMA ResponderStateParts ==
    ASSUME NEW y, NEW st, NEW tx, NEW key, NEW nc, NEW i,
           y = ResponderState(st, tx, key, nc, i)
    PROVE  Serves(y, st, tx, key, nc, i)
<1>1. PICK h : h = HandshakeUsed(NewKey(key), nc)
  BY Zenon
<1>2. PICK a : a = Authenticator(i)
  BY Zenon
<1>3. PICK p : p = IsPqInitiator(i)
  BY Zenon
<1>4. PICK e : e = Ephemeral(i)
  BY Zenon
<1>5. PICK sh, sa : sh = Some(h) /\ sa = Some(a)
  BY Zenon
<1>6. y = [state |-> st, tx |-> tx, k |-> sh, ipk |-> e, auth |-> sa, pq |-> p]
  BY <1>1, <1>2, <1>3, <1>4, <1>5, Zenon DEF ResponderState
<1>7. /\ y.state = st /\ y.tx = tx /\ y.k = sh /\ y.ipk = e /\ y.auth = sa
      /\ y.pq = p
  BY <1>6
<1>8. y.k[1] = h /\ y.auth[1] = a
  BY <1>5, <1>7, SomeParts, Zenon
<1>9. h.key = key
  BY <1>1, FreshUsed, Zenon
<1> QED
  BY <1>1, <1>2, <1>3, <1>4, <1>5, <1>7, <1>8, <1>9, Zenon DEF Serves

(* A session of initiator i. *)
BoundTo(s, role, i, eph) ==
    /\ s.role = role /\ s.transcript = ITx2(i, eph)
    /\ s.key = DeriveSessionKey(IK2(i, eph), ITx2(i, eph))
    /\ s.aead = icfg[i].suite.aead
    /\ s.binding = Binding(Authenticator(i), LongTerm(icfg[i].peer), IPq(i))

(* What such a session holds. *)
LEMMA SessionOfParts ==
    ASSUME NEW s, NEW role, NEW owner, NEW i, NEW eph,
           s = SessionOf(role, owner, i, eph)
    PROVE  BoundTo(s, role, i, eph)
<1>1. PICK k, tx : /\ k = DeriveSessionKey(IK2(i, eph), ITx2(i, eph))
                   /\ tx = ITx2(i, eph)
  BY Zenon
<1>2. PICK b : b = Binding(Authenticator(i), LongTerm(icfg[i].peer), IPq(i))
  BY Zenon
<1>3. PICK a : a = icfg[i].suite.aead
  BY Zenon
<1>4. s = [role |-> role, owner |-> owner, key |-> k, transcript |-> tx,
           aead |-> a, binding |-> b]
  BY <1>1, <1>2, <1>3, Zenon DEF SessionOf
<1>5. /\ s.role = role /\ s.transcript = tx /\ s.key = k /\ s.aead = a
      /\ s.binding = b
  BY <1>4
<1> QED
  BY <1>1, <1>2, <1>3, <1>5, Zenon DEF BoundTo

(* What a registration encrypts under K0. *)
LEMMA InnerParts ==
    ASSUME NEW y, NEW i, y = IInner(i)
    PROVE  /\ y.auth = Authenticator(i) /\ y.signature = ISignature(i)
           /\ y.encaps = InitiatorEncaps(i) /\ y.ct.key = IK1(i)
<1>1. PICK c : c = HandshakeSeal(NewKey(IK1(i)), icfg[i].nc, <<"payload">>)
  BY Zenon
<1>2. PICK a, g, e : /\ a = Authenticator(i) /\ g = ISignature(i)
                     /\ e = InitiatorEncaps(i)
  BY Zenon
<1>3. y = [ct |-> c, auth |-> a, signature |-> g, encaps |-> e]
  BY <1>1, <1>2, Zenon DEF IInner
<1>4. y.ct = c /\ y.auth = a /\ y.signature = g /\ y.encaps = e
  BY <1>3
<1>5. c.key = IK1(i)
  BY <1>1, FreshSeal DEF SealedAs
<1> QED
  BY <1>2, <1>4, <1>5, Zenon

(* A message with a ciphertext. *)
Carrying(m, pk, c) ==
    Shaped(m) /\ m.pk = pk /\ m.ct = Some(m.ct[1]) /\ m.ct[1] = c

(* What such a message holds. *)
LEMMA MessageParts ==
    ASSUME NEW m, NEW to, NEW pk, NEW c, NEW suite,
           m = [to |-> to, pk |-> pk, ct |-> Some(c), suite |-> suite]
    PROVE  Carrying(m, pk, c)
<1>1. PICK sc : sc = Some(c)
  BY Zenon
<1>2. m = [to |-> to, pk |-> pk, ct |-> sc, suite |-> suite]
  BY <1>1, Zenon
<1>3. m.to = to /\ m.pk = pk /\ m.ct = sc /\ m.suite = suite
  BY <1>2, SMT
<1>4. Shaped(m)
  BY <1>2, <1>3, Zenon DEF Shaped
<1> QED
  BY <1>1, <1>3, <1>4, SomeParts, Zenon DEF Carrying

-----------------------------------------------------------------------------
(* The derived terms depend on the configurations alone. *)
LEMMA Stable ==
    ASSUME UNCHANGED config
    PROVE  /\ icfg' = icfg /\ rcfg' = rcfg
           /\ \A i : /\ ITx0(i)' = ITx0(i) /\ IK0(i)' = IK0(i)
                     /\ ITx1(i)' = ITx1(i) /\ IK1(i)' = IK1(i)
                     /\ IInner(i)' = IInner(i)
                     /\ IsPqInitiator(i)' = IsPqInitiator(i)
                     /\ Authenticator(i)' = Authenticator(i)
           /\ \A i, eph : /\ ITx2(i, eph)' = ITx2(i, eph)
                          /\ IK2(i, eph)' = IK2(i, eph)
                          /\ Completion(i, eph)' = Completion(i, eph)
           /\ \A i, eph, o, w :
                 SessionOf(o, w, i, eph)' = SessionOf(o, w, i, eph)
           /\ \A i, r : Registers(i, r)' <=> Registers(i, r)
           /\ \A i, st, tx, key, nc :
                 ResponderState(st, tx, key, nc, i)'
                    = ResponderState(st, tx, key, nc, i)
<1>1. icfg' = icfg /\ rcfg' = rcfg
  BY Zenon DEF config
<1>2. \A i : /\ ITx0(i)' = ITx0(i) /\ IPq(i)' = IPq(i)
             /\ Authenticator(i)' = Authenticator(i)
             /\ InitiatorEncaps(i)' = InitiatorEncaps(i)
             /\ IsPqInitiator(i)' = IsPqInitiator(i)
  BY <1>1, Zenon DEF ITx0, IPq, Authenticator, InitiatorEncaps, IsPqInitiator
<1>3. \A i : IK0(i)' = IK0(i)
  BY <1>1, <1>2, Zenon DEF IK0
<1>4. \A i : ITx1(i)' = ITx1(i)
  BY <1>2, Zenon DEF ITx1
<1>5. \A i : ISignature(i)' = ISignature(i)
  BY <1>1, <1>2, <1>4, Zenon DEF ISignature
<1>6. \A i : IK1(i)' = IK1(i)
  BY <1>1, <1>2, <1>3, <1>4, <1>5, Zenon DEF IK1
<1>7. \A i : IInner(i)' = IInner(i)
  BY <1>1, <1>2, <1>5, <1>6, Zenon DEF IInner
<1>8. \A i, eph : ITx2(i, eph)' = ITx2(i, eph)
  BY <1>4, Zenon DEF ITx2
<1>9. \A i, eph : IK2(i, eph)' = IK2(i, eph)
  BY <1>1, <1>2, <1>6, <1>8, Zenon DEF IK2
<1>10. \A i, eph : Completion(i, eph)' = Completion(i, eph)
  BY <1>1, <1>2, <1>8, <1>9, Zenon DEF Completion
<1>11. \A i, eph, o, w : SessionOf(o, w, i, eph)' = SessionOf(o, w, i, eph)
  BY <1>1, <1>2, <1>8, <1>9, Zenon DEF SessionOf
<1>12. \A i, r : Registers(i, r)' <=> Registers(i, r)
  BY <1>1, Zenon DEF Registers, Served
<1>13. \A i, st, tx, key, nc :
          ResponderState(st, tx, key, nc, i)'
             = ResponderState(st, tx, key, nc, i)
  BY <1>2, Zenon DEF ResponderState
<1> QED
  BY <1>1, <1>2, <1>3, <1>4, <1>6, <1>7, <1>8, <1>9, <1>10, <1>11, <1>12,
     <1>13, Zenon

(* A step that leaves a party alone keeps what is known of it. *)
LEMMA InitiatorFrame ==
    ASSUME UNCHANGED config, completed \subseteq completed',
           NEW i, InitiatorInv(i), ist'[i] = ist[i]
    PROVE  InitiatorInv(i)'
  BY Stable, Zenon DEF InitiatorInv

(* Likewise for a responder and its working ciphersuite. *)
LEMMA ResponderFrame ==
    ASSUME UNCHANGED config,
           NEW r, ResponderInv(r), rst'[r] = rst[r], working'[r] = working[r]
    PROVE  ResponderInv(r)'
  BY Stable, SMT DEF ResponderInv

(* What was made remains so. *)
LEMMA GenuineFrame ==
    ASSUME UNCHANGED config, completed \subseteq completed',
           NEW m, Genuine(m)
    PROVE  Genuine(m)'
<1>1. ASSUME NEW c, Made(c)
      PROVE  Made(c)'
  BY <1>1, Stable, Zenon DEF Made
<1> QED
  BY <1>1, Zenon DEF Genuine

(* A network that gains at most a genuine message. *)
LEMMA NetFrame ==
    ASSUME UNCHANGED config, completed \subseteq completed', NetInv,
           NEW m, net' \subseteq net \cup {m}, Shaped(m), Genuine(m)'
    PROVE  NetInv'
<1>1. \A n \in net : Shaped(n) /\ Genuine(n)'
  BY GenuineFrame, Zenon DEF NetInv
<1>2. \A n \in net' : Shaped(n) /\ Genuine(n)'
  BY <1>1, Zenon
<1> QED
  BY <1>2, Zenon DEF NetInv, Shaped

(* A network that gains nothing. *)
LEMMA SameNet ==
    ASSUME UNCHANGED config, completed \subseteq completed', NetInv, net' = net
    PROVE  NetInv'
<1>1. \A m \in net : Shaped(m) /\ Genuine(m)'
  BY GenuineFrame, Zenon DEF NetInv
<1> QED
  BY <1>1, Zenon DEF NetInv, Shaped

(* Nothing is encrypted, and nobody unspends a key. *)
LEMMA SealedFrame ==
    ASSUME UNCHANGED config, SealedInv, HandshakeNoncesUnique,
           sealed' = sealed,
           \A i \in Initiators : Spent(i) => Spent(i)',
           \A r \in Responders : neph[r] \in Nat /\ neph'[r] \in Nat
                                                 /\ neph'[r] >= neph[r]
    PROVE  SealedInv' /\ HandshakeNoncesUnique'
<1>1. ASSUME NEW s \in sealed
      PROVE  \/ \E i \in Initiators : s.key \in {IK0(i)', IK1(i)'} /\ Spent(i)'
             \/ /\ IsK2(s.key)
                /\ \E r \in Responders : \E n \in 0 .. neph'[r] - 1 :
                      EphemeralIn(s.key) = ResponderEphemeral(r, n)
  BY <1>1, Stable, SMT DEF SealedInv
<1> QED
  BY <1>1, Zenon DEF SealedInv, HandshakeNoncesUnique

(* Completed registrations stay what they are. *)
LEMMA CompletedFrame ==
    ASSUME UNCHANGED config, CompletedInv, completed' = completed
    PROVE  CompletedInv'
  BY Stable DEF CompletedInv

(* Sessions are only added to by those that finished a handshake. *)
LEMMA SessionsFrame ==
    ASSUME UNCHANGED config, SessionsInv, NEW new,
           sessions' = sessions \cup {new},
           NEW i \in Initiators, NEW eph \in Ephs,
           \/ new = SessionOf("initiator", i, i, eph)
           \/ new = SessionOf("responder", icfg[i].peer, i, eph)
    PROVE  SessionsInv'
  BY Stable, SMT DEF SessionsInv

(* A step that leaves recent_keys alone keeps the window. *)
LEMMA WindowFrame ==
    ASSUME UNCHANGED config, NEW r, WindowInv(r),
           recent'[r] = recent[r], seen'[r] = seen[r]
    PROVE  WindowInv(r)'
  BY Stable, Zenon DEF WindowInv

(* The network may damage a message, not make one. *)
LEMMA ArrivingGenuine ==
    ASSUME NetInv, NEW pk, NEW m \in Arriving(pk)
    PROVE  Genuine(m)
<1>1. ASSUME NEW n \in net, m \in Damaged(n)
      PROVE  Genuine(m)
  <2>1. Shaped(n) /\ Genuine(n)
    BY <1>1, Zenon DEF NetInv
  <2>2. CASE m = [n EXCEPT !.ct = None]
    <3>1. m.pk = n.pk /\ m.ct = None
      BY <2>1, <2>2, Zenon DEF Shaped
    <3> QED
      BY <2>1, <3>1, Zenon DEF Genuine
  <2>3. CASE m = [n EXCEPT !.pk = <<"damaged">>]
    <3>1. m.pk = <<"damaged">> /\ m.ct = n.ct
      BY <2>1, <2>3, Zenon DEF Shaped
    <3> QED
      BY <2>1, <3>1, Zenon DEF Genuine, PublicKeys
  <2>4. CASE \E s : m = [n EXCEPT !.suite = s]
    <3>1. m.pk = n.pk /\ m.ct = n.ct
      BY <2>1, <2>4, Zenon DEF Shaped
    <3> QED
      BY <2>1, <3>1, Zenon DEF Genuine
  <2> QED
    BY <1>1, <2>2, <2>3, <2>4, Zenon DEF Damaged
<1>2. m \in net \/ \E n \in net : m \in Damaged(n)
  BY Zenon DEF Arriving
<1> QED
  BY <1>1, <1>2, Zenon DEF NetInv

-----------------------------------------------------------------------------
(* A step of initiator i: what it has to establish itself. *)
LEMMA InitiatorStepFrame ==
    ASSUME IInv, NEW i \in Initiators, NEW x, InitiatorOnly,
           ist' = [ist EXCEPT ![i] = x],
           InitiatorInv(i)', NetInv', SealedInv', HandshakeNoncesUnique',
           SessionsInv'
    PROVE  IInv'
<1> USE DEF IInv
<1>1. UNCHANGED config /\ completed \subseteq completed'
  BY Zenon DEF InitiatorOnly
<1>2. ConfigInv'
  BY Stable, <1>1, Zenon DEF ConfigInv, InitiatorOnly
<1>3. ASSUME NEW j \in Initiators
      PROVE  InitiatorInv(j)'
  <2>1. CASE j = i
    BY <2>1, Zenon
  <2>2. CASE j # i
    <3>1. ist'[j] = ist[j]
      BY <2>2, Zenon DEF ConfigInv
    <3> QED
      BY <1>1, <3>1, InitiatorFrame, Zenon
  <2> QED
    BY <2>1, <2>2, Zenon
<1>4. \A r \in Responders : ResponderInv(r)'
  BY <1>1, ResponderFrame, Zenon DEF InitiatorOnly
<1>5. CompletedInv'
  BY <1>1, CompletedFrame, Zenon DEF InitiatorOnly
<1>6. \A r \in Responders : WindowInv(r)'
  BY <1>1, WindowFrame, Zenon DEF InitiatorOnly
<1> QED
  BY <1>2, <1>3, <1>4, <1>5, <1>6, Zenon

(* A step of initiator i that sends and encrypts nothing. *)
LEMMA InitiatorQuietStep ==
    ASSUME IInv, NEW i \in Initiators, NEW x, InitiatorOnly,
           ist' = [ist EXCEPT ![i] = x],
           InitiatorInv(i)', Spent(i) => Spent(i)',
           net' = net, sealed' = sealed, SessionsInv'
    PROVE  IInv'
<1>1. UNCHANGED config /\ completed \subseteq completed'
  BY Zenon DEF InitiatorOnly
<1>2. NetInv'
  BY <1>1, SameNet, Zenon DEF IInv
<1>3. ASSUME NEW j \in Initiators, Spent(j)
      PROVE  Spent(j)'
  <2>1. CASE j = i
    BY <1>3, <2>1, Zenon
  <2>2. CASE j # i
    <3>1. ist'[j] = ist[j]
      BY <2>2, Zenon DEF IInv, ConfigInv
    <3> QED
      BY <1>3, <3>1, Zenon DEF Spent
  <2> QED
    BY <2>1, <2>2, Zenon
<1>4. \A r \in Responders : neph[r] \in Nat /\ neph'[r] \in Nat
                                            /\ neph'[r] >= neph[r]
  BY BoundsAssumption, SMT DEF InitiatorOnly, IInv, ConfigInv
<1>5. SealedInv' /\ HandshakeNoncesUnique'
  BY <1>1, <1>3, <1>4, SealedFrame, Zenon DEF IInv
<1> QED
  BY <1>2, <1>5, InitiatorStepFrame, Zenon

(* The initiator is left in a state that holds nothing. *)
LEMMA InitiatorStops ==
    ASSUME IInv, NEW i \in Initiators, InitiatorOnly,
           NEW st \in {"InProgress", "Consumed", "Panicked"}, NEW tx, NEW k,
           ist' = [ist EXCEPT ![i] = [state |-> st, tx |-> tx, k |-> k]],
           net' = net, sealed' = sealed, SessionsInv'
    PROVE  IInv'
<1>1. ist'[i] = [state |-> st, tx |-> tx, k |-> k]
  BY Zenon DEF IInv, ConfigInv
<1>2. ist'[i].state = st
  BY <1>1, SMT
<1>3. InitiatorInv(i)'
  BY <1>1, <1>2, Zenon DEF InitiatorInv, InitiatorStates
<1>4. Spent(i)'
  BY <1>2, Zenon DEF Spent
<1> QED
  BY <1>3, <1>4, InitiatorQuietStep, Zenon

(* No session is added. *)
LEMMA SameSessions ==
    ASSUME IInv, UNCHANGED config, sessions' = sessions
    PROVE  SessionsInv'
  BY Stable, SMT DEF IInv, SessionsInv

(* Failed calls of an initiator, and the panic of a second query. *)
LEMMA InitiatorFailsSafe ==
    ASSUME IInv, NEW i \in Initiators,
           \/ \E error : InitiatorFails(i, error)
           \/ InitiatorIntoSessionFailed(i)
           \/ QueryWriteAgain(i)
    PROVE  IInv'
<1>1. UNCHANGED config /\ InitiatorOnly /\ sessions' = sessions
      /\ net' = net /\ sealed' = sealed
  BY Zenon DEF InitiatorFails, InitiatorIntoSessionFailed, QueryWriteAgain,
         InitiatorOnly
<1>2. PICK st \in {"InProgress", "Consumed", "Panicked"} :
          ist' = [ist EXCEPT ![i] = [state |-> st, tx |-> None, k |-> None]]
  <2>1. CASE \E error : InitiatorFails(i, error)
    BY <2>1, Zenon DEF InitiatorFails, Placeholder
  <2>a. \A st : [Placeholder EXCEPT !.state = st]
                 = [state |-> st, tx |-> None, k |-> None]
    <3>1. PICK p : p = Placeholder
      BY Zenon
    <3>2. \A st : [p EXCEPT !.state = st]
                    = [state |-> st, tx |-> None, k |-> None]
      BY <3>1 DEF Placeholder
    <3> QED
      BY <3>1, <3>2, Zenon
  <2>2. CASE InitiatorIntoSessionFailed(i)
    BY <2>2, <2>a, Zenon DEF InitiatorIntoSessionFailed
  <2>3. CASE QueryWriteAgain(i)
    BY <2>3, <2>a, Zenon DEF QueryWriteAgain
  <2> QED
    BY <2>1, <2>2, <2>3, Zenon
<1>3. SessionsInv'
  BY <1>1, SameSessions, Zenon
<1> QED
  BY <1>1, <1>2, <1>3, InitiatorStops, Zenon

-----------------------------------------------------------------------------
(* What initiator i encrypts for the first time is under its own K0 and    *)
(* K1, which have encrypted nothing so far.                                *)
LEMMA InitiatorSealsSafe ==
    ASSUME IInv, NEW i \in Initiators, NEW x, InitiatorOnly, ~Spent(i),
           ist' = [ist EXCEPT ![i] = x], Spent(i)',
           NEW new, sealed' = sealed \cup new,
           \A s \in new : s.key \in {IK0(i), IK1(i)},
           \A a, b \in new : a.key = b.key => a = b
    PROVE  SealedInv' /\ HandshakeNoncesUnique'
<1>1. UNCHANGED config /\ neph' = neph
  BY Zenon DEF InitiatorOnly
<1>2. ASSUME NEW j \in Initiators, Spent(j)
      PROVE  Spent(j)'
  <2>1. CASE j = i
    BY <2>1, Zenon
  <2>2. CASE j # i
    <3>1. ist'[j] = ist[j]
      BY <2>2, Zenon DEF IInv, ConfigInv
    <3> QED
      BY <1>2, <3>1, Zenon DEF Spent
  <2> QED
    BY <2>1, <2>2, Zenon
<1>3. SealedInv'
  <2> SUFFICES ASSUME NEW s \in sealed'
               PROVE  \/ \E j \in Initiators :
                            s.key \in {IK0(j), IK1(j)} /\ Spent(j)'
                      \/ /\ IsK2(s.key)
                         /\ \E r \in Responders : \E n \in 0 .. neph[r] - 1 :
                               EphemeralIn(s.key) = ResponderEphemeral(r, n)
    BY <1>1, Stable, Zenon DEF SealedInv
  <2>1. CASE s \in new
    BY <2>1, Zenon
  <2>2. CASE s \in sealed
    BY <1>2, <2>2, Zenon DEF IInv, SealedInv
  <2> QED
    BY <2>1, <2>2, Zenon
<1>4. ASSUME NEW s \in sealed
      PROVE  s.key \notin {IK0(i), IK1(i)}
  <2>1. CASE IsK2(s.key)
    BY <2>1, KindsDiffer, Zenon
  <2>2. CASE \E j \in Initiators : s.key \in {IK0(j), IK1(j)} /\ Spent(j)
    <3>1. PICK j \in Initiators : s.key \in {IK0(j), IK1(j)} /\ Spent(j)
      BY <2>2, Zenon
    <3>2. j # i
      BY <3>1, Zenon
    <3>3. IK0(j) # IK0(i) /\ IK1(j) # IK1(i) /\ IK0(j) # IK1(i)
          /\ IK0(i) # IK1(j)
      BY <3>2, K0Injective, K1Injective, KindsDiffer, Zenon
    <3> QED
      BY <3>1, <3>3, Zenon
  <2> QED
    BY <1>4, <2>1, <2>2, Zenon DEF IInv, SealedInv
<1>5. HandshakeNoncesUnique'
  BY <1>4, Zenon DEF IInv, HandshakeNoncesUnique
<1> QED
  BY <1>3, <1>5, Zenon

(* What a registration initiator derives before its first message. *)
LEMMA RegistrationTerms ==
    ASSUME IInv, NEW i \in Initiators, ist[i].state = "Initial"
    PROVE  /\ icfg[i].mode = "registration" /\ ~Spent(i)
           /\ InitiatorTx1(i) = ITx1(i) /\ InitiatorK1(i) = NewKey(IK1(i))
           /\ InnerCiphertext(i).key = IK1(i)
           /\ OuterCiphertext(i).key = IK0(i)
           /\ OuterCiphertext(i).pt = <<"registration", IInner(i)>>
<1>1. /\ icfg[i].mode = "registration" /\ ist[i].tx = ITx0(i)
      /\ ist[i].k = Some(NewKey(IK0(i)))
  BY Zenon DEF IInv, InitiatorInv
<1>a. ist[i].k[1] = NewKey(IK0(i))
  BY <1>1, SomeParts, Zenon
<1>b. NewKey(IK0(i)).key = IK0(i)
  BY NewKeyParts, Zenon
<1>2. ist[i].k[1] = NewKey(IK0(i)) /\ ist[i].k[1].key = IK0(i)
  BY <1>a, <1>b, Zenon
<1>3. InitiatorTx1(i) = ITx1(i)
  BY <1>1, Zenon DEF InitiatorTx1, ITx1, IPq
<1>4. SignTx1(i) = ISignature(i)
  BY <1>3, Zenon DEF SignTx1, ISignature
<1>5. InitiatorK1(i) = NewKey(IK1(i))
  BY <1>2, <1>3, <1>4, Zenon DEF InitiatorK1, IK1, IPq
<1>6. InnerCiphertext(i) = HandshakeSeal(NewKey(IK1(i)), icfg[i].nc,
                                         <<"payload">>)
  BY <1>5, Zenon DEF InnerCiphertext
<1>7. OuterCiphertext(i) = HandshakeSeal(NewKey(IK0(i)), icfg[i].nc,
                                         <<"registration", IInner(i)>>)
  BY <1>2, <1>4, <1>6, Zenon DEF OuterCiphertext, IInner
<1>8. InnerCiphertext(i).key = IK1(i)
  <2>1. SealedAs(InnerCiphertext(i), IK1(i), <<"payload">>)
    BY <1>6, FreshSeal, Zenon
  <2> QED
    BY <2>1, Zenon DEF SealedAs
<1>9. /\ OuterCiphertext(i).key = IK0(i)
      /\ OuterCiphertext(i).pt = <<"registration", IInner(i)>>
  <2>1. SealedAs(OuterCiphertext(i), IK0(i), <<"registration", IInner(i)>>)
    BY <1>7, FreshSeal, Zenon
  <2> QED
    BY <2>1, Zenon DEF SealedAs
<1> QED
  BY <1>1, <1>3, <1>5, <1>8, <1>9, Zenon DEF Spent

(* The two encryptions of a registration are under fresh keys. *)
LEMMA RegistrationSealsSafe ==
    ASSUME IInv, NEW i \in Initiators, NEW x, InitiatorOnly,
           ist[i].state = "Initial", InitiatorSeals(i),
           ist' = [ist EXCEPT ![i] = x], Spent(i)'
    PROVE  SealedInv' /\ HandshakeNoncesUnique'
<1> DEFINE a == Sealing(i, 0, InnerCiphertext(i))
           b == Sealing(i, 1, OuterCiphertext(i))
           new == {a, b}
<1>1. a.key = IK1(i) /\ b.key = IK0(i)
  BY RegistrationTerms, Zenon DEF Sealing
<1>2. IK0(i) # IK1(i)
  BY KindsDiffer, Zenon
<1> HIDE DEF a, b
<1>3. \A s \in new : s.key \in {IK0(i), IK1(i)}
  BY <1>1, Zenon
<1>4. \A s, t \in new : s.key = t.key => s = t
  BY <1>1, <1>2, Zenon
<1>5. sealed' = sealed \cup new
  BY Zenon DEF InitiatorSeals, a, b
<1>6. ~Spent(i)
  BY RegistrationTerms, Zenon
<1> HIDE DEF new
<1> QED
  BY <1>3, <1>4, <1>5, <1>6, InitiatorSealsSafe, Zenon

(* A registration is written and sent. *)
LEMMA RegistrationWriteSafe ==
    ASSUME IInv, NEW i \in Initiators, RegistrationWrite(i)
    PROVE  IInv'
<1> DEFINE x == [state |-> "Waiting", tx |-> InitiatorTx1(i),
                 k |-> Some(HandshakeUsed(InitiatorK1(i), icfg[i].nc))]
<1>0. PICK m : m = [to |-> LongTerm(icfg[i].peer), pk |-> Ephemeral(i),
                    ct |-> Some(OuterCiphertext(i)), suite |-> icfg[i].suite]
  BY Zenon
<1>1. /\ ist[i].state = "Initial" /\ ist' = [ist EXCEPT ![i] = x]
      /\ InitiatorOnly /\ InitiatorSeals(i) /\ UNCHANGED sessions
      /\ net' = net \cup {m}
  BY <1>0, Zenon DEF RegistrationWrite
<1>2. UNCHANGED config /\ completed' = completed
  BY <1>1, Zenon DEF InitiatorOnly
<1>3. /\ x.state = "Waiting" /\ x.tx = ITx1(i)
      /\ x.k = Some(HandshakeUsed(NewKey(IK1(i)), icfg[i].nc))
      /\ x = [state |-> x.state, tx |-> x.tx, k |-> x.k]
      /\ icfg[i].mode = "registration"
  BY <1>1, RegistrationTerms, Zenon
<1>4. /\ Shaped(m) /\ m.pk = Ephemeral(i) /\ m.ct = Some(m.ct[1])
      /\ m.ct[1].key = IK0(i) /\ m.ct[1].pt = <<"registration", IInner(i)>>
  <2>1. /\ Shaped(m) /\ m.pk = Ephemeral(i) /\ m.ct = Some(m.ct[1])
        /\ m.ct[1] = OuterCiphertext(i)
    <3>1. Carrying(m, Ephemeral(i), OuterCiphertext(i))
      BY <1>0, MessageParts, Zenon
    <3> QED
      BY <3>1, Zenon DEF Carrying
  <2> QED
    BY <1>1, <2>1, RegistrationTerms, Zenon
<1> HIDE DEF x
<1>5. ist'[i] = x
  BY <1>1, Zenon DEF IInv, ConfigInv
<1>6. InitiatorInv(i)'
  BY <1>2, <1>3, <1>5, Stable, Zenon DEF InitiatorInv, InitiatorStates
<1>7. Spent(i)'
  BY <1>3, <1>5, Zenon DEF Spent
<1>8. SealedInv' /\ HandshakeNoncesUnique'
  BY <1>1, <1>7, RegistrationSealsSafe, Zenon
<1>9. Genuine(m)
  <2>1. Made(m.ct[1])
    BY <1>3, <1>4, Zenon DEF Made
  <2> QED
    BY <1>4, <2>1, Zenon DEF Genuine, PublicKeys
<1>10. Genuine(m)'
  BY <1>2, <1>9, GenuineFrame, Zenon
<1>11. NetInv'
  BY <1>1, <1>2, <1>4, <1>10, NetFrame, Zenon DEF IInv
<1>12. SessionsInv'
  BY <1>1, <1>2, SameSessions, Zenon
<1> QED
  BY <1>1, <1>6, <1>8, <1>11, <1>12, InitiatorStepFrame, Zenon

(* Without a buffer for it, only the encryptions were made. *)
LEMMA RegistrationWriteShortSafe ==
    ASSUME IInv, NEW i \in Initiators, RegistrationWriteShort(i)
    PROVE  IInv'
<1>1. /\ ist[i].state = "Initial" /\ ist' = [ist EXCEPT ![i] = Placeholder]
      /\ InitiatorOnly /\ InitiatorSeals(i) /\ sessions' = sessions
      /\ net' = net
  BY Zenon DEF RegistrationWriteShort
<1>2. UNCHANGED config /\ completed' = completed
  BY <1>1, Zenon DEF InitiatorOnly
<1>3. ist'[i] = Placeholder
  BY <1>1, Zenon DEF IInv, ConfigInv
<1>4. InitiatorInv(i)' /\ Spent(i)'
  <2>1. PICK y : y = Placeholder
    BY Zenon
  <2>2. y.state = "InProgress" /\ y = [state |-> y.state, tx |-> y.tx, k |-> y.k]
    BY <2>1, Zenon DEF Placeholder
  <2>3. ist'[i] = y
    BY <1>3, <2>1, Zenon
  <2> QED
    BY <2>2, <2>3, Zenon DEF InitiatorInv, InitiatorStates, Spent
<1>5. SealedInv' /\ HandshakeNoncesUnique'
  BY <1>1, <1>4, RegistrationSealsSafe, Zenon
<1>6. NetInv' /\ SessionsInv'
  BY <1>1, <1>2, SameNet, SameSessions, Zenon DEF IInv
<1> QED
  BY <1>1, <1>4, <1>5, <1>6, InitiatorStepFrame, Zenon

-----------------------------------------------------------------------------
(* An answer that opens under the K2 of initiator i was made for i by the  *)
(* responder whose ephemeral key it carries.                               *)
LEMMA AnswerGenuine ==
    ASSUME NEW i, NEW m, Genuine(m), m.ct # None,
           m.ct[1].key = IK2(i, m.pk)
    PROVE  m.pk \in Ephs /\ Completion(i, m.pk) \in completed
<1>1. Made(m.ct[1])
  BY Zenon DEF Genuine
<1>2. ASSUME NEW j
      PROVE  m.ct[1].key # IK0(j)
  <2>1. IK0(j)[1] = "K0" /\ IK2(i, m.pk)[1] \in {"K2 dh", "K2 sig"}
    BY KindsDiffer, K2Parts, Zenon
  <2> QED
    BY <2>1, Zenon
<1>3. m.ct[1].key[1] # "K2 query"
  BY K2Parts, Zenon
<1>4. PICK j \in Initiators, eph \in Ephs :
          m.ct[1].key = IK2(j, eph) /\ Completion(j, eph) \in completed
  BY <1>1, <1>2, <1>3, Zenon DEF Made
<1>5. j = i /\ eph = m.pk
  BY <1>4, K2Injective, Zenon
<1> QED
  BY <1>4, <1>5, Zenon

(* An accepted answer takes the initiator to ToTransport. *)
LEMMA RegistrationReadSafe ==
    ASSUME IInv, NEW i \in Initiators, NEW m \in Arriving(Ephemeral(i)),
           RegistrationRead(i, m)
    PROVE  IInv'
<1> DEFINE x == [state |-> "ToTransport", tx |-> InitiatorTx2(i, m),
                 k |-> Some(HandshakeUsed(InitiatorK2(i, m), icfg[i].nc))]
<1>1. /\ ist[i].state = "Waiting" /\ InitiatorAccepts(i, m)
      /\ ist' = [ist EXCEPT ![i] = x]
      /\ InitiatorOnly /\ net' = net /\ sealed' = sealed
      /\ sessions' = sessions
  BY Zenon DEF RegistrationRead
<1>2. UNCHANGED config /\ completed' = completed
  BY <1>1, Zenon DEF InitiatorOnly
<1>a. /\ ist[i].tx = ITx1(i)
      /\ ist[i].k = Some(HandshakeUsed(NewKey(IK1(i)), icfg[i].nc))
  BY <1>1, Zenon DEF IInv, InitiatorInv
<1>3. /\ ist[i].tx = ITx1(i)
      /\ ist[i].k[1] = HandshakeUsed(NewKey(IK1(i)), icfg[i].nc)
  BY <1>a, SomeParts, Zenon
<1>4. ist[i].k[1].key = IK1(i)
  BY <1>3, FreshUsed, Zenon
<1>5. InitiatorTx2(i, m) = ITx2(i, m.pk)
  BY <1>3, Zenon DEF InitiatorTx2, ITx2
<1>6. InitiatorK2(i, m) = NewKey(IK2(i, m.pk))
  BY <1>4, <1>5, Zenon DEF InitiatorK2, IK2
<1>7. m.ct # None /\ m.ct[1].key = IK2(i, m.pk)
  BY <1>1, <1>6, FreshOpens, Zenon DEF InitiatorAccepts
<1>8. m.pk \in Ephs /\ Completion(i, m.pk) \in completed
  BY <1>7, ArrivingGenuine, AnswerGenuine, Zenon DEF IInv
<1>9. /\ x = [state |-> x.state, tx |-> x.tx, k |-> x.k]
      /\ x.state = "ToTransport" /\ x.tx = ITx2(i, m.pk)
      /\ x.k = Some(HandshakeUsed(NewKey(IK2(i, m.pk)), icfg[i].nc))
  BY <1>5, <1>6, Zenon
<1> HIDE DEF x
<1>10. ist'[i] = x
  BY <1>1, Zenon DEF IInv, ConfigInv
<1>11. InitiatorInv(i)'
  BY <1>2, <1>8, <1>9, <1>10, Stable, Zenon DEF InitiatorInv, InitiatorStates
<1>12. Spent(i)'
  BY <1>9, <1>10, Zenon DEF Spent
<1>13. SessionsInv'
  BY <1>1, <1>2, SameSessions, Zenon
<1> QED
  BY <1>1, <1>11, <1>12, <1>13, InitiatorQuietStep, Zenon

(* The session of an initiator is that of its handshake. *)
LEMMA InitiatorIntoSessionSafe ==
    ASSUME IInv, NEW i \in Initiators, InitiatorIntoSession(i)
    PROVE  IInv'
<1>1. /\ ist[i].state = "ToTransport"
      /\ ist' = [ist EXCEPT ![i] = [ist[i] EXCEPT !.state = "Consumed"]]
      /\ InitiatorOnly /\ net' = net /\ sealed' = sealed
  BY Zenon DEF InitiatorIntoSession
<1>2. UNCHANGED config
  BY <1>1, Zenon DEF InitiatorOnly
<1>3. PICK eph \in Ephs :
          /\ ist[i].tx = ITx2(i, eph)
          /\ ist[i].k = Some(HandshakeUsed(NewKey(IK2(i, eph)), icfg[i].nc))
  BY <1>1, Zenon DEF IInv, InitiatorInv
<1>a. ist[i].k[1] = HandshakeUsed(NewKey(IK2(i, eph)), icfg[i].nc)
  BY <1>3, SomeParts, Zenon
<1>4. ist[i].k[1].key = IK2(i, eph)
  <2>1. HandshakeUsed(NewKey(IK2(i, eph)), icfg[i].nc).key = IK2(i, eph)
    BY UsedParts, Zenon
  <2> QED
    BY <1>a, <2>1, Zenon
<1>5. sessions' = sessions \cup {SessionOf("initiator", i, i, eph)}
  BY <1>3, <1>4, Zenon DEF InitiatorIntoSession, SessionOf, IPq
<1>6. SessionsInv'
  <2>1. PICK new : new = SessionOf("initiator", i, i, eph)
    BY Zenon
  <2> QED
    BY <1>2, <1>5, <2>1, SessionsFrame, Zenon DEF IInv
<1>7. PICK y : y = ist[i]
  BY Zenon
<1>8. y = [state |-> y.state, tx |-> y.tx, k |-> y.k]
  BY <1>7, Zenon DEF IInv, InitiatorInv
<1>9. [y EXCEPT !.state = "Consumed"]
         = [state |-> "Consumed", tx |-> y.tx, k |-> y.k]
  BY <1>8
<1>10. ist' = [ist EXCEPT ![i] = [state |-> "Consumed", tx |-> y.tx,
                                  k |-> y.k]]
  BY <1>1, <1>7, <1>9, Zenon
<1> QED
  BY <1>1, <1>6, <1>10, InitiatorStops, ZenonT(30)

-----------------------------------------------------------------------------
(* A query initiator whose K0 is still usable has not used it. *)
LEMMA QueryTerms ==
    ASSUME IInv, NEW i \in Initiators, ist[i].state = "Query",
           Usable(HandshakeKey(ist[i].k[1], icfg[i].nc), icfg[i].nc)
    PROVE  /\ icfg[i].mode = "query" /\ ist[i].tx = ITx0(i)
           /\ ist[i].k = Some(NewKey(IK0(i))) /\ ist[i].k[1] = NewKey(IK0(i))
           /\ ~Spent(i)
<1>1. /\ icfg[i].mode = "query" /\ ist[i].tx = ITx0(i)
      /\ ist[i].k = Some(ist[i].k[1])
      /\ ist[i].k[1] \in {NewKey(IK0(i)),
                          HandshakeUsed(NewKey(IK0(i)), icfg[i].nc)}
  BY Zenon DEF IInv, InitiatorInv
<1>2. PICK k : k = ist[i].k[1]
  BY Zenon
<1>3. ASSUME k = HandshakeUsed(NewKey(IK0(i)), icfg[i].nc)
      PROVE  FALSE
  <2>1. IsKey(k) /\ k.expired = TRUE
    <3>1. LET u == HandshakeUsed(NewKey(IK0(i)), icfg[i].nc)
          IN  IsKey(u) /\ u.expired = TRUE
      BY UsedParts, Zenon
    <3> QED
      BY <1>3, <3>1, Zenon
  <2>2. PICK h : h = HandshakeKey(k, icfg[i].nc)
    BY Zenon
  <2>3. h = k \/ \E n : h = [k EXCEPT !.nonce = n]
    BY <2>2, Zenon DEF HandshakeKey
  <2>4. h.expired = k.expired
    BY <2>1, <2>3, KeyEdits, Zenon
  <2> QED
    BY <1>2, <2>1, <2>2, <2>4, Zenon DEF Usable
<1>4. ist[i].k[1] = NewKey(IK0(i))
  BY <1>1, <1>2, <1>3, Zenon
<1>5. NewKey(IK0(i)).expired = FALSE
  BY NewKeyParts, Zenon
<1> QED
  BY <1>1, <1>4, <1>5, Zenon DEF Spent

(* An optional value with another content, an initiator with another key. *)
LEMMA KeyReplaced ==
    ASSUME NEW y, y = [state |-> y.state, tx |-> y.tx, k |-> y.k],
           NEW a, y.k = Some(a), NEW b
    PROVE  [y EXCEPT !.k = [y.k EXCEPT ![1] = b]]
             = [state |-> y.state, tx |-> y.tx, k |-> Some(b)]
<1>1. PICK l : l = y.k
  BY Zenon
<1>2. [l EXCEPT ![1] = b] = <<b>>
  BY <1>1, SMT DEF Some
<1>3. [y EXCEPT !.k = <<b>>] = [state |-> y.state, tx |-> y.tx, k |-> <<b>>]
  BY SMT
<1> QED
  BY <1>1, <1>2, <1>3, Zenon DEF Some

(* A query is written once, under a fresh key. *)
LEMMA QueryWriteSafe ==
    ASSUME IInv, NEW i \in Initiators, QueryWrite(i)
    PROVE  IInv'
<1> DEFINE used == HandshakeUsed(NewKey(IK0(i)), icfg[i].nc)
           x == [state |-> "Query", tx |-> ITx0(i), k |-> Some(used)]
           s == Sealing(i, 0, QueryCiphertext(i))
           new == {s}
<1>0. PICK m : m = [to |-> LongTerm(icfg[i].peer), pk |-> Ephemeral(i),
                    ct |-> Some(QueryCiphertext(i)), suite |-> QuerySuite]
  BY Zenon
<1>1. /\ ist[i].state = "Query"
      /\ Usable(HandshakeKey(ist[i].k[1], icfg[i].nc), icfg[i].nc)
      /\ sealed' = sealed \cup new
      /\ ist' = [ist EXCEPT ![i] =
                    [ist[i] EXCEPT !.k =
                        [ist[i].k EXCEPT ![1] =
                            HandshakeUsed(ist[i].k[1], icfg[i].nc)]]]
      /\ net' \subseteq net \cup {m}
      /\ InitiatorOnly /\ sessions' = sessions
  BY <1>0, Zenon DEF QueryWrite
<1>2. UNCHANGED config /\ completed' = completed
  BY <1>1, Zenon DEF InitiatorOnly
<1>3. /\ icfg[i].mode = "query" /\ ist[i].tx = ITx0(i)
      /\ ist[i].k = Some(NewKey(IK0(i))) /\ ist[i].k[1] = NewKey(IK0(i))
      /\ ~Spent(i)
  BY <1>1, QueryTerms, Zenon
<1>4. /\ QueryCiphertext(i).key = IK0(i) /\ QueryCiphertext(i).pt = <<"query">>
  <2>1. SealedAs(QueryCiphertext(i), IK0(i), <<"query">>)
    BY <1>3, FreshSeal, Zenon DEF QueryCiphertext
  <2> QED
    BY <2>1, Zenon DEF SealedAs
<1>5. used.expired = TRUE
  BY UsedParts, Zenon
<1> HIDE DEF used
<1>6. ist' = [ist EXCEPT ![i] = x]
  <2>1. PICK y : y = ist[i]
    BY Zenon
  <2>2. y = [state |-> y.state, tx |-> y.tx, k |-> y.k]
    BY <2>1, Zenon DEF IInv, InitiatorInv
  <2>3. [y EXCEPT !.k = [y.k EXCEPT ![1] = used]] = x
    BY <1>1, <1>3, <2>1, <2>2, KeyReplaced
  <2> QED
    BY <1>1, <1>3, <2>1, <2>3, Zenon DEF used
<1>7. ist'[i] = x
  BY <1>6, Zenon DEF IInv, ConfigInv
<1>8. /\ x = [state |-> x.state, tx |-> x.tx, k |-> x.k]
      /\ x.state = "Query" /\ x.tx = ITx0(i) /\ x.k = Some(x.k[1])
      /\ x.k[1] = used
  BY Zenon DEF Some
<1> HIDE DEF x
<1>9. InitiatorInv(i)'
  BY <1>2, <1>3, <1>7, <1>8, Stable, Zenon DEF InitiatorInv, InitiatorStates, used
<1>10. Spent(i)'
  BY <1>5, <1>7, <1>8, Zenon DEF Spent
<1>11. s.key = IK0(i)
  BY <1>4, Zenon DEF Sealing
<1> HIDE DEF s
<1>12. /\ \A a \in new : a.key \in {IK0(i), IK1(i)}
       /\ \A a, b \in new : a.key = b.key => a = b
  BY <1>11, Zenon
<1> HIDE DEF new
<1>13. SealedInv' /\ HandshakeNoncesUnique'
  BY <1>1, <1>3, <1>6, <1>10, <1>12, InitiatorSealsSafe, ZenonT(30)
<1>14. Shaped(m) /\ m.pk = Ephemeral(i) /\ m.ct = Some(m.ct[1])
       /\ m.ct[1] = QueryCiphertext(i)
  <2>1. Carrying(m, Ephemeral(i), QueryCiphertext(i))
    BY <1>0, MessageParts, Zenon
  <2> QED
    BY <2>1, Zenon DEF Carrying
<1>15. Genuine(m)
  <2>1. Made(m.ct[1])
    BY <1>3, <1>4, <1>14, Zenon DEF Made
  <2> QED
    BY <1>14, <2>1, Zenon DEF Genuine, PublicKeys
<1>16. Genuine(m)'
  BY <1>2, <1>15, GenuineFrame, Zenon
<1>17. NetInv'
  BY <1>1, <1>2, <1>14, <1>16, NetFrame, Zenon DEF IInv
<1>18. SessionsInv'
  BY <1>1, <1>2, SameSessions, Zenon
<1> QED
  BY <1>1, <1>6, <1>9, <1>13, <1>17, <1>18, InitiatorStepFrame, Zenon

(* Reading an answer leaves a query initiator as it is. *)
LEMMA QueryReadSafe ==
    ASSUME IInv, NEW i \in Initiators, NEW m, QueryRead(i, m)
    PROVE  IInv'
<1>1. /\ InitiatorOnly /\ ist' = ist /\ net' = net /\ sealed' = sealed
      /\ sessions' = sessions
  BY Zenon DEF QueryRead
<1>2. UNCHANGED config /\ completed' = completed
  BY <1>1, Zenon DEF InitiatorOnly
<1>3. InitiatorInv(i)' /\ (Spent(i) => Spent(i)')
  BY <1>1, <1>2, InitiatorFrame, Zenon DEF IInv, Spent
<1>4. ist' = [ist EXCEPT ![i] = ist[i]]
  BY <1>1, Zenon DEF IInv, ConfigInv
<1>5. SessionsInv'
  BY <1>1, <1>2, SameSessions, Zenon
<1> QED
  BY <1>1, <1>3, <1>4, <1>5, InitiatorQuietStep, Zenon

(* Every step of an initiator. *)
LEMMA InitiatorStepSafe ==
    ASSUME IInv, NEW i \in Initiators, InitiatorStep(i)
    PROVE  IInv'
<1>1. CASE RegistrationWrite(i)
  BY <1>1, RegistrationWriteSafe, Zenon
<1>2. CASE RegistrationWriteShort(i)
  BY <1>2, RegistrationWriteShortSafe, Zenon
<1>3. CASE \/ RegistrationWriteNoRandomness(i)
           \/ RegistrationWriteWrongState(i)
           \/ RegistrationReadUndecodable(i)
           \/ RegistrationReadWrongState(i)
  <2>1. \E error : InitiatorFails(i, error)
    BY <1>3, Zenon DEF RegistrationWriteNoRandomness, RegistrationWriteWrongState,
                RegistrationReadUndecodable, RegistrationReadWrongState
  <2> QED
    BY <2>1, InitiatorFailsSafe, Zenon
<1>4. CASE InitiatorIntoSession(i)
  BY <1>4, InitiatorIntoSessionSafe, Zenon
<1>5. CASE InitiatorIntoSessionFailed(i) \/ QueryWriteAgain(i)
  BY <1>5, InitiatorFailsSafe, Zenon
<1>6. CASE QueryWrite(i)
  BY <1>6, QueryWriteSafe, Zenon
<1>7. ASSUME NEW m \in Arriving(Ephemeral(i)), InitiatorReads(i, m)
      PROVE  IInv'
  <2>1. CASE RegistrationRead(i, m)
    BY <2>1, RegistrationReadSafe, Zenon
  <2>2. CASE RegistrationReadFailed(i, m)
    <3>1. \E error : InitiatorFails(i, error)
      BY <2>2, Zenon DEF RegistrationReadFailed
    <3> QED
      BY <3>1, InitiatorFailsSafe, Zenon
  <2>3. CASE QueryRead(i, m)
    BY <2>3, QueryReadSafe, Zenon
  <2> QED
    BY <1>7, <2>1, <2>2, <2>3, Zenon DEF InitiatorReads
<1> QED
  BY <1>1, <1>2, <1>3, <1>4, <1>5, <1>6, <1>7, Zenon DEF InitiatorStep

-----------------------------------------------------------------------------
(* check_rate_limit lets a key through and remembers it. *)
LEMMA PushKeepsWindow ==
    ASSUME NEW keys, NEW log, NEW bound \in Nat \ {0},
           Window(keys, log, bound),
           NEW pk \in PublicKeys, ~Contains(keys, pk)
    PROVE  Window(Push(keys, bound, pk), Append(log, pk), bound)
<1> DEFINE L == Len(log)
           rest == IF Len(keys) = bound THEN SubSeq(keys, 1, bound - 1)
                   ELSE keys
           kept == Len(rest)
<1>1. /\ keys \in Seq(PublicKeys) /\ log \in Seq(PublicKeys)
      /\ L \in Nat /\ Len(keys) \in Nat
      /\ Len(keys) = IF L < bound THEN L ELSE bound
      /\ \A k \in 1 .. Len(keys) : keys[k] = log[L + 1 - k]
      /\ \A m, n \in 1 .. L : m < n /\ log[m] = log[n] => n - m > bound
  <2>1. keys \in Seq(PublicKeys) /\ log \in Seq(PublicKeys)
    BY Zenon DEF Window
  <2>2. L \in Nat /\ Len(keys) \in Nat
    BY <2>1
  <2> QED
    BY <2>1, <2>2, Zenon DEF Window
<1>2. /\ rest \in Seq(PublicKeys)
      /\ kept = IF L < bound THEN L ELSE bound - 1
      /\ \A k \in 1 .. kept : rest[k] = keys[k]
  <2>1. CASE Len(keys) = bound
    <3>1. /\ SubSeq(keys, 1, bound - 1) \in Seq(PublicKeys)
          /\ Len(SubSeq(keys, 1, bound - 1)) = bound - 1
          /\ \A k \in 1 .. bound - 1 : SubSeq(keys, 1, bound - 1)[k] = keys[k]
      BY <1>1, <2>1
    <3>2. ~(L < bound)
      BY <1>1, <2>1, SMT
    <3> QED
      BY <2>1, <3>1, <3>2, Zenon
  <2>2. CASE Len(keys) # bound
    BY <1>1, <2>2, Zenon
  <2> QED
    BY <2>1, <2>2, Zenon
<1>3. kept \in Nat
  BY <1>1, <1>2, SMT
<1> HIDE DEF rest
<1>4. PICK new : new = <<pk>> \o rest
  BY Zenon
<1>5. /\ new \in Seq(PublicKeys) /\ Len(new) = kept + 1
      /\ new[1] = pk
      /\ \A k \in 2 .. kept + 1 : new[k] = rest[k - 1]
  BY <1>2, <1>4
<1>6. PICK book : book = Append(log, pk)
  BY Zenon
<1>7. /\ book \in Seq(PublicKeys) /\ Len(book) = L + 1
      /\ book[L + 1] = pk
      /\ \A k \in 1 .. L : book[k] = log[k]
  BY <1>1, <1>6, SMT
<1>8. Len(new) = IF Len(book) < bound THEN Len(book) ELSE bound
  BY <1>1, <1>2, <1>5, <1>7
<1>9. ASSUME NEW k \in 1 .. Len(new)
      PROVE  new[k] = book[Len(book) + 1 - k]
  <2>1. CASE k = 1
    BY <1>1, <1>5, <1>7, <2>1, SMT
  <2>2. CASE k # 1
    <3>1. k - 1 \in 1 .. kept /\ k - 1 \in 1 .. Len(keys)
      BY <1>1, <1>2, <1>3, <1>5, <1>9, <2>2
    <3>2. new[k] = log[L + 1 - (k - 1)]
      <4>1. k \in 2 .. kept + 1
        BY <1>3, <1>5, <1>9, <2>2
      <4>2. new[k] = rest[k - 1]
        BY <1>5, <4>1, Zenon
      <4>3. rest[k - 1] = keys[k - 1]
        BY <1>2, <3>1, Zenon
      <4>4. keys[k - 1] = log[L + 1 - (k - 1)]
        BY <1>1, <3>1, Zenon
      <4> QED
        BY <4>2, <4>3, <4>4, Zenon
    <3>3. L + 1 - (k - 1) = Len(book) + 1 - k /\ Len(book) + 1 - k \in 1 .. L
      BY <1>1, <1>7, <3>1, SMT
    <3> QED
      BY <1>7, <3>2, <3>3, Zenon
  <2> QED
    BY <2>1, <2>2, Zenon
<1>10. ASSUME NEW m \in 1 .. Len(book), NEW n \in 1 .. Len(book),
              m < n, book[m] = book[n]
       PROVE  n - m > bound
  <2>1. CASE n \in 1 .. L
    BY <1>1, <1>7, <1>10, <2>1, SMTT(30)
  <2>2. CASE n = L + 1
    <3>1. m \in 1 .. L /\ log[m] = pk
      BY <1>1, <1>7, <1>10, <2>2, SMT
    <3>2. SUFFICES ASSUME n - m <= bound
                   PROVE  FALSE
      BY <1>1, <2>2, <3>1
    <3>3. L + 1 - m \in 1 .. Len(keys)
      BY <1>1, <2>2, <3>1, <3>2, SMT
    <3>4. keys[L + 1 - m] = log[L + 1 - (L + 1 - m)]
      BY <1>1, <3>3, Zenon
    <3>5. L + 1 - (L + 1 - m) = m
      BY <1>1, <3>1, SMT
    <3>6. keys[L + 1 - m] = pk
      BY <3>1, <3>4, <3>5, Zenon
    <3> QED
      BY <1>1, <3>3, <3>6, SMT DEF Contains
  <2> QED
    BY <1>1, <1>7, <2>1, <2>2, SMT
<1>11. Push(keys, bound, pk) = new
  BY <1>4, Zenon DEF Push, rest
<1> QED
  BY <1>5, <1>6, <1>7, <1>8, <1>9, <1>10, <1>11, Zenon DEF Window

-----------------------------------------------------------------------------
(* g differs from f at r at most. *)
SameBut(f, g, r) == /\ g = [q \in Responders |-> g[q]]
                    /\ \A q \in Responders : q # r => g[q] = f[q]

(* An update at r changes nothing else. *)
LEMMA SameButExcept ==
    ASSUME NEW f, f = [q \in Responders |-> f[q]], NEW r \in Responders,
           NEW x, NEW g, g = [f EXCEPT ![r] = x]
    PROVE  SameBut(f, g, r) /\ g[r] = x
  BY Zenon DEF SameBut

(* Neither does no update. *)
LEMMA SameButSame ==
    ASSUME NEW f, f = [q \in Responders |-> f[q]], NEW r \in Responders,
           NEW g, g = f
    PROVE  SameBut(f, g, r)
  BY Zenon DEF SameBut

(* A step of responder r: what it has to establish itself. *)
LEMMA ResponderStepFrame ==
    ASSUME IInv, NEW r \in Responders, UNCHANGED config, ist' = ist,
           SameBut(rst, rst', r), SameBut(working, working', r),
           SameBut(recent, recent', r), SameBut(seen, seen', r),
           neph' \in [Responders -> 0..MaxEphemeral],
           completed \subseteq completed',
           ResponderInv(r)', WindowInv(r)', NetInv', CompletedInv',
           SealedInv', HandshakeNoncesUnique', SessionsInv'
    PROVE  IInv'
<1>1. ConfigInv'
  BY Stable, Zenon DEF IInv, ConfigInv, SameBut
<1>2. \A i \in Initiators : InitiatorInv(i)'
  BY InitiatorFrame, Zenon DEF IInv
<1>3. ASSUME NEW q \in Responders
      PROVE  ResponderInv(q)' /\ WindowInv(q)'
  <2>1. CASE q = r
    BY <2>1, Zenon
  <2>2. CASE q # r
    <3>1. /\ rst'[q] = rst[q] /\ working'[q] = working[q]
          /\ recent'[q] = recent[q] /\ seen'[q] = seen[q]
      BY <2>2, Zenon DEF SameBut
    <3> QED
      BY <3>1, ResponderFrame, WindowFrame, Zenon DEF IInv
  <2> QED
    BY <2>1, <2>2, Zenon
<1> QED
  BY <1>1, <1>2, <1>3, Zenon DEF IInv

(* A step of responder r that sends and encrypts nothing. *)
LEMMA ResponderQuietStep ==
    ASSUME IInv, NEW r \in Responders, UNCHANGED config, ist' = ist,
           SameBut(rst, rst', r), SameBut(working, working', r),
           SameBut(recent, recent', r), SameBut(seen, seen', r),
           neph' = neph, net' = net, sealed' = sealed, completed' = completed,
           ResponderInv(r)', WindowInv(r)', SessionsInv'
    PROVE  IInv'
<1>1. neph' \in [Responders -> 0..MaxEphemeral]
  BY Zenon DEF IInv, ConfigInv
<1>2. NetInv' /\ CompletedInv'
  BY SameNet, CompletedFrame, Zenon DEF IInv
<1>3. /\ \A i \in Initiators : Spent(i) => Spent(i)'
      /\ \A q \in Responders : neph[q] \in Nat /\ neph'[q] \in Nat
                                               /\ neph'[q] >= neph[q]
  BY BoundsAssumption, SMT DEF IInv, ConfigInv, Spent
<1>4. SealedInv' /\ HandshakeNoncesUnique'
  BY <1>3, SealedFrame, Zenon DEF IInv
<1> QED
  BY <1>1, <1>2, <1>4, ResponderStepFrame, Zenon

(* Nothing but the result changes. *)
LEMMA NothingChanges ==
    ASSUME IInv,
           UNCHANGED <<config, ist, rst, working, recent, seen, neph, net,
                       sealed, completed, sessions>>
    PROVE  IInv'
<1>1. ConfigInv'
  BY Stable, Zenon DEF IInv, ConfigInv
<1>2. \A i \in Initiators : InitiatorInv(i)'
  BY InitiatorFrame, Zenon DEF IInv
<1>3. \A r \in Responders : ResponderInv(r)' /\ WindowInv(r)'
  BY ResponderFrame, WindowFrame, Zenon DEF IInv
<1>4. NetInv' /\ CompletedInv' /\ SessionsInv'
  BY SameNet, CompletedFrame, SameSessions, Zenon DEF IInv
<1>5. /\ \A i \in Initiators : Spent(i) => Spent(i)'
      /\ \A q \in Responders : neph[q] \in Nat /\ neph'[q] \in Nat
                                               /\ neph'[q] >= neph[q]
  BY BoundsAssumption, SMT DEF IInv, ConfigInv, Spent
<1>6. SealedInv' /\ HandshakeNoncesUnique'
  BY <1>5, SealedFrame, Zenon DEF IInv
<1> QED
  BY <1>1, <1>2, <1>3, <1>4, <1>6, Zenon DEF IInv

(* A responder is left in a state that serves nobody. *)
LEMMA ResponderIdle ==
    ASSUME IInv, NEW r \in Responders, UNCHANGED config,
           rst'[r].state \in {"Initial", "InProgress", "Consumed",
                              "RespondQuery"},
           \/ working'[r] = None
           \/ working'[r] = working[r]
           \/ working'[r][1].pq = "NONE"
           \/ working'[r] = Some(rcfg[r].suite)
    PROVE  ResponderInv(r)'
<1>1. \/ working'[r] = None
      \/ working'[r][1].pq = "NONE"
      \/ working'[r] = Some(rcfg[r].suite)
  BY Zenon DEF IInv, ResponderInv
<1>2. rcfg' = rcfg
  BY Stable, Zenon
<1> QED
  BY <1>1, <1>2, Zenon DEF ResponderInv, ResponderStates

(* The placeholders of a responder. *)
LEMMA ResponderEdits ==
    /\ NewResponder.state = "Initial"
    /\ ResponderPlaceholder.state = "InProgress"
    /\ [NewResponder EXCEPT !.state = "Consumed"].state = "Consumed"
<1>1. PICK y : y = NewResponder
  BY Zenon
<1>2. /\ y.state = "Initial"
      /\ \A st : [y EXCEPT !.state = st].state = st
  BY <1>1, Zenon DEF NewResponder
<1> QED
  BY <1>1, <1>2, Zenon DEF ResponderPlaceholder

(* A failed write, or abort_handshake. *)
LEMMA ResponderStopsSafe ==
    ASSUME IInv, NEW r \in Responders,
           (\E error : ResponderFails(r, error)) \/ AbortHandshake(r)
    PROVE  IInv'
<1>1. /\ UNCHANGED config /\ ist' = ist /\ sessions' = sessions
      /\ recent' = recent /\ seen' = seen
      /\ neph' = neph /\ net' = net /\ sealed' = sealed
      /\ completed' = completed
  BY Zenon DEF ResponderFails, AbortHandshake, ResponderOnly
<1>2. /\ SameBut(rst, rst', r) /\ rst'[r].state \in {"Initial", "InProgress"}
      /\ SameBut(working, working', r)
      /\ working'[r] = working[r] \/ working'[r] = None
  <2>1. CASE \E error : ResponderFails(r, error)
    <3>1. rst' = [rst EXCEPT ![r] = ResponderPlaceholder]
          /\ working' = working
      BY <2>1, Zenon DEF ResponderFails
    <3> QED
      BY <3>1, SameButExcept, SameButSame, ResponderEdits, Zenon DEF IInv, ConfigInv
  <2>2. CASE AbortHandshake(r)
    <3>1. rst' = [rst EXCEPT ![r] = NewResponder]
          /\ working' = [working EXCEPT ![r] = None]
      BY <2>2, Zenon DEF AbortHandshake
    <3> QED
      BY <3>1, SameButExcept, ResponderEdits, Zenon DEF IInv, ConfigInv
  <2> QED
    BY <2>1, <2>2, Zenon
<1>3. SameBut(recent, recent', r) /\ SameBut(seen, seen', r)
  BY <1>1, SameButSame, Zenon DEF IInv, ConfigInv
<1>4. ResponderInv(r)'
  BY <1>1, <1>2, ResponderIdle, Zenon
<1>5. WindowInv(r)' /\ SessionsInv'
  BY <1>1, WindowFrame, SameSessions, Zenon DEF IInv
<1> QED
  BY <1>1, <1>2, <1>3, <1>4, <1>5, ResponderQuietStep, Zenon

-----------------------------------------------------------------------------
(* into_session consumes the responder. *)
LEMMA ResponderConsumedSafe ==
    ASSUME IInv, NEW r \in Responders, ResponderConsumed(r), SessionsInv'
    PROVE  IInv'
<1>1. /\ UNCHANGED config /\ ist' = ist /\ working' = working
      /\ recent' = recent /\ seen' = seen
      /\ neph' = neph /\ net' = net /\ sealed' = sealed
      /\ completed' = completed
      /\ rst' = [rst EXCEPT ![r] = [NewResponder EXCEPT !.state = "Consumed"]]
  BY Zenon DEF ResponderConsumed
<1>2. SameBut(rst, rst', r) /\ rst'[r].state = "Consumed"
  BY <1>1, SameButExcept, ResponderEdits, Zenon DEF IInv, ConfigInv
<1>3. /\ SameBut(recent, recent', r) /\ SameBut(seen, seen', r)
      /\ SameBut(working, working', r)
  BY <1>1, SameButSame, Zenon DEF IInv, ConfigInv
<1>4. ResponderInv(r)'
  BY <1>1, <1>2, ResponderIdle, Zenon
<1>5. WindowInv(r)'
  BY <1>1, WindowFrame, Zenon DEF IInv
<1> QED
  BY <1>1, <1>2, <1>3, <1>4, <1>5, ResponderQuietStep, Zenon

(* The public keys a responder binds its session to are those of the       *)
(* initiator it serves.                                                    *)
LEMMA ResponderIntoSessionSafe ==
    ASSUME IInv, NEW r \in Responders, ResponderIntoSession(r)
    PROVE  IInv'
<1>1. UNCHANGED config /\ ResponderConsumed(r) /\ rst[r].state = "ToTransport"
  BY Zenon DEF ResponderIntoSession, ResponderConsumed
<1>2. PICK i \in Initiators, eph \in Ephs :
          /\ Registers(i, r)
          /\ rst[r] = ResponderState("ToTransport", ITx2(i, eph), IK2(i, eph),
                                     rcfg[r].nc, i)
  BY <1>1, Zenon DEF IInv, ResponderInv
<1>3. /\ rst[r].tx = ITx2(i, eph)
      /\ rst[r].k[1] = HandshakeUsed(NewKey(IK2(i, eph)), rcfg[r].nc)
      /\ rst[r].k[1].key = IK2(i, eph)
      /\ rst[r].auth[1] = Authenticator(i)
      /\ rst[r].pq = IsPqInitiator(i)
  <2>1. Serves(rst[r], "ToTransport", ITx2(i, eph), IK2(i, eph), rcfg[r].nc, i)
    BY <1>2, ResponderStateParts, Zenon
  <2> QED
    BY <2>1, Zenon DEF Serves
<1>4. rst[r].k[1].key = IK2(i, eph)
  BY <1>3, Zenon
<1>5. icfg[i].peer = r /\ icfg[i].suite.aead = rcfg[r].suite.aead
  BY <1>2, Zenon DEF Registers, Served
<1>6. ResponderBinding(r) = Binding(Authenticator(i), LongTerm(r), IPq(i))
  <2>1. (IF rst[r].pq THEN PqKey(r, rcfg[r].suite) ELSE None) = IPq(i)
    BY <1>2, <1>3, <1>5, Zenon DEF IsPqInitiator, Registers, Served, PqKey, IPq
  <2> QED
    BY <1>3, <2>1, Zenon DEF ResponderBinding
<1>7. sessions' = sessions \cup
                    {SessionOf("responder", icfg[i].peer, i, eph)}
  BY <1>3, <1>4, <1>5, <1>6, Zenon DEF ResponderIntoSession, SessionOf
<1>8. SessionsInv'
  <2>1. PICK new : new = SessionOf("responder", icfg[i].peer, i, eph)
    BY Zenon
  <2> QED
    BY <1>1, <1>7, <2>1, SessionsFrame, Zenon DEF IInv
<1> QED
  BY <1>1, <1>8, ResponderConsumedSafe, Zenon

(* A failed into_session adds no session. *)
LEMMA ResponderIntoSessionFailedSafe ==
    ASSUME IInv, NEW r \in Responders, ResponderIntoSessionFailed(r)
    PROVE  IInv'
<1>1. UNCHANGED config /\ ResponderConsumed(r) /\ sessions' = sessions
  BY Zenon DEF ResponderIntoSessionFailed, ResponderConsumed
<1> QED
  BY <1>1, SameSessions, ResponderConsumedSafe, Zenon

-----------------------------------------------------------------------------
(* A read that passes check_rate_limit. *)
LEMMA CheckRateLimitSafe ==
    ASSUME IInv, NEW r \in Responders, NEW m \in Arriving(LongTerm(r)),
           CheckRateLimit(r, m),
           SameBut(rst, rst', r), SameBut(working, working', r),
           ResponderInv(r)'
    PROVE  IInv'
<1>1. /\ UNCHANGED config /\ ist' = ist /\ sessions' = sessions
      /\ neph' = neph /\ net' = net /\ sealed' = sealed
      /\ completed' = completed
      /\ ~Contains(recent[r], m.pk)
      /\ recent' = [recent EXCEPT ![r] = Push(recent[r], rcfg[r].bound, m.pk)]
      /\ seen' = [seen EXCEPT ![r] = Append(seen[r], m.pk)]
  BY Zenon DEF CheckRateLimit, ResponderOnly, RateLimited
<1>2. /\ SameBut(recent, recent', r) /\ SameBut(seen, seen', r)
      /\ recent'[r] = Push(recent[r], rcfg[r].bound, m.pk)
      /\ seen'[r] = Append(seen[r], m.pk)
  BY <1>1, SameButExcept, Zenon DEF IInv, ConfigInv
<1>3. m.pk \in PublicKeys
  BY ArrivingGenuine, Zenon DEF IInv, Genuine
<1>4. rcfg[r].bound \in Nat \ {0}
  BY ResponderConfigsAssumption, Zenon DEF IInv, ConfigInv
<1>5. Window(Push(recent[r], rcfg[r].bound, m.pk), Append(seen[r], m.pk),
             rcfg[r].bound)
  BY <1>1, <1>3, <1>4, PushKeepsWindow, Zenon DEF IInv, WindowInv
<1>6. WindowInv(r)'
  BY <1>1, <1>2, <1>5, Stable, Zenon DEF WindowInv, Window
<1>7. SessionsInv'
  BY <1>1, SameSessions, Zenon
<1> QED
  BY <1>1, <1>2, <1>6, <1>7, ResponderQuietStep, Zenon

(* The working ciphersuite is the responder's or has no PQ KEM. *)
LEMMA SetWorkingSuite ==
    ASSUME IInv, NEW r \in Responders, NEW m, SetWorking(r, m)
    PROVE  /\ SameBut(working, working', r)
           /\ working'[r] = Coerced(r, m) /\ working'[r] # None
           /\ working'[r][1].pq = "NONE" \/ working'[r] = Some(rcfg[r].suite)
<1>1. SameBut(working, working', r) /\ working'[r] = Coerced(r, m)
  BY SameButExcept, Zenon DEF SetWorking, IInv, ConfigInv
<1>2. \/ Coerced(r, m) = Some(m.suite) /\ m.suite.pq = "NONE"
      \/ Coerced(r, m) = Some(m.suite) /\ m.suite = rcfg[r].suite
  BY Zenon DEF SetWorking, Coerced, CoerceCompatible
<1>3. Coerced(r, m)[1] = m.suite
  BY <1>2, SomeParts, Zenon
<1> QED
  BY <1>1, <1>2, <1>3, Zenon DEF SetWorking

(* Reads that fail after the key was remembered. *)
LEMMA ReadFailsSafe ==
    ASSUME IInv, NEW r \in Responders, NEW m \in Arriving(LongTerm(r)),
           ReadUnsupported(r, m) \/ ReadUndecryptable(r, m)
    PROVE  IInv'
<1>1. /\ CheckRateLimit(r, m) /\ rst' = rst /\ UNCHANGED config
      /\ rst[r].state = "Initial"
  BY Zenon DEF ReadUnsupported, ReadUndecryptable, SetWorking, CheckRateLimit,
         ResponderOnly
<1>2. SameBut(rst, rst', r)
  BY <1>1, SameButSame, Zenon DEF IInv, ConfigInv
<1>3. /\ SameBut(working, working', r)
      /\ \/ working'[r] = working[r]
         \/ working'[r][1].pq = "NONE"
         \/ working'[r] = Some(rcfg[r].suite)
  <2>1. CASE ReadUnsupported(r, m)
    <3>1. working' = working
      BY <2>1, Zenon DEF ReadUnsupported
    <3> QED
      BY <3>1, SameButSame, Zenon DEF IInv, ConfigInv
  <2>2. CASE ReadUndecryptable(r, m)
    BY <2>2, SetWorkingSuite, Zenon DEF ReadUndecryptable
  <2> QED
    BY <2>1, <2>2, Zenon
<1>4. ResponderInv(r)'
  BY <1>1, <1>3, ResponderIdle, Zenon
<1> QED
  BY <1>1, <1>2, <1>3, <1>4, CheckRateLimitSafe, Zenon

(* A query is read. *)
LEMMA ReadQuerySafe ==
    ASSUME IInv, NEW r \in Responders, NEW m \in Arriving(LongTerm(r)),
           ReadQuery(r, m)
    PROVE  IInv'
<1> DEFINE x == [state |-> "RespondQuery", tx |-> ResponderTx0(r, m),
                 k |-> Some(HandshakeUsed(ResponderK0(r, m), rcfg[r].nc)),
                 ipk |-> m.pk, auth |-> None, pq |-> FALSE]
<1>1. /\ CheckRateLimit(r, m) /\ SetWorking(r, m) /\ UNCHANGED config
      /\ rst' = [rst EXCEPT ![r] = x]
  BY Zenon DEF ReadQuery, SetWorking, CheckRateLimit, ResponderOnly
<1>2. x.state = "RespondQuery"
  BY Zenon
<1> HIDE DEF x
<1>3. SameBut(rst, rst', r) /\ rst'[r].state = "RespondQuery"
  BY <1>1, <1>2, SameButExcept, Zenon DEF IInv, ConfigInv
<1>4. ResponderInv(r)'
  BY <1>1, <1>3, SetWorkingSuite, ResponderIdle, Zenon
<1> QED
  BY <1>1, <1>3, <1>4, SetWorkingSuite, CheckRateLimitSafe, Zenon

-----------------------------------------------------------------------------
(* A message that opens under K0 of responder r was written by an          *)
(* initiator that meant r, with its context and AEAD, and under the public *)
(* key it still carries.                                                   *)
LEMMA OuterGenuine ==
    ASSUME IInv, NEW r \in Responders, NEW m \in Arriving(LongTerm(r)),
           OuterOpens(r, m)
    PROVE  \E i \in Initiators :
              /\ icfg[i].peer = r /\ icfg[i].context = rcfg[r].context
              /\ InitiatorSuite(icfg[i]).aead = rcfg[r].suite.aead
              /\ m.pk = Ephemeral(i)
              /\ ResponderTx0(r, m) = ITx0(i)
              /\ ResponderK0(r, m) = NewKey(IK0(i))
              /\ \/ /\ icfg[i].mode = "registration"
                    /\ m.ct[1].pt = <<"registration", IInner(i)>>
                 \/ m.ct[1].pt = <<"query">>
<1> DEFINE key == K0(DHSharedSecret(LongTerm(r), m.pk), ResponderTx0(r, m),
                     rcfg[r].suite.aead)
<1>1. m.ct # None /\ m.ct[1].key = key
  <2>1. m.ct # None /\ HandshakeOpens(NewKey(key), rcfg[r].nc, m.ct[1])
    BY Zenon DEF OuterOpens, ResponderK0
  <2> HIDE DEF key
  <2> QED
    BY <2>1, FreshOpens, Zenon
<1>2. Made(m.ct[1])
  BY <1>1, ArrivingGenuine, Zenon DEF IInv, Genuine
<1>3. m.ct[1].key[1] = "K0"
  BY <1>1, SMT DEF K0
<1>4. m.ct[1].key[1] # "K2 query"
  BY <1>3, Zenon
<1>5. ASSUME NEW i, NEW eph
      PROVE  m.ct[1].key # IK2(i, eph)
  BY <1>3, K2Parts, Zenon
<1>6. PICK i \in Initiators :
          /\ m.ct[1].key = IK0(i)
          /\ \/ /\ icfg[i].mode = "registration"
                /\ m.ct[1].pt = <<"registration", IInner(i)>>
             \/ m.ct[1].pt = <<"query">>
  BY <1>2, <1>4, <1>5, Zenon DEF Made
<1>7. key = IK0(i)
  BY <1>1, <1>6, Zenon
<1>8. /\ ResponderTx0(r, m) = ITx0(i)
      /\ rcfg[r].suite.aead = InitiatorSuite(icfg[i]).aead
  BY <1>7, Zenon DEF IK0, K0
<1>9. /\ icfg[i].peer = r /\ icfg[i].context = rcfg[r].context
      /\ m.pk = Ephemeral(i)
  BY <1>8, Zenon DEF ResponderTx0, ITx0, InitiatorTx0, Tx0, LongTerm
<1>10. ResponderK0(r, m) = NewKey(IK0(i))
  BY <1>7, Zenon DEF ResponderK0
<1> QED
  BY <1>6, <1>8, <1>9, <1>10, Zenon

(* The inner message fixes the PQ key as well, since K1 depends on tx1:    *)
(* the header cannot talk the responder out of an encapsulation.           *)
LEMMA InnerGenuine ==
    ASSUME IInv, NEW r \in Responders, NEW m \in Arriving(LongTerm(r)),
           SetWorking(r, m), IsRegistration(r, m), InnerOpens(r, m)
    PROVE  \E i \in Initiators :
              /\ Registers(i, r) /\ m.pk = Ephemeral(i)
              /\ Inner(m).auth = Authenticator(i)
              /\ ResponderTx1(r, m) = ITx1(i)
              /\ ResponderK1(r, m) = NewKey(IK1(i))
              /\ IsPq(r, m) = IsPqInitiator(i)
              /\ IsPq(r, m) => Coerced(r, m) = Some(rcfg[r].suite)
<1>1. PICK i \in Initiators :
          /\ icfg[i].peer = r /\ icfg[i].context = rcfg[r].context
          /\ InitiatorSuite(icfg[i]).aead = rcfg[r].suite.aead
          /\ m.pk = Ephemeral(i)
          /\ ResponderTx0(r, m) = ITx0(i)
          /\ ResponderK0(r, m) = NewKey(IK0(i))
          /\ \/ /\ icfg[i].mode = "registration"
                /\ m.ct[1].pt = <<"registration", IInner(i)>>
             \/ m.ct[1].pt = <<"query">>
  BY OuterGenuine, Zenon DEF IsRegistration
<1>2. icfg[i].mode = "registration" /\ Inner(m) = IInner(i)
  <2>1. m.ct[1].pt[1] = "registration"
    BY Zenon DEF IsRegistration
  <2>2. m.ct[1].pt # <<"query">>
    BY <2>1, SMT
  <2>3. PICK y : y = IInner(i)
    BY Zenon
  <2>4. icfg[i].mode = "registration" /\ m.ct[1].pt = <<"registration", y>>
    BY <1>1, <2>2, <2>3, Zenon
  <2>5. m.ct[1].pt[2] = y
    BY <2>4, SMT
  <2> QED
    BY <2>3, <2>4, <2>5, Zenon DEF Inner
<1>3. icfg[i].suite.aead = rcfg[r].suite.aead
  BY <1>1, <1>2, Zenon DEF InitiatorSuite
<1>4. /\ Inner(m).auth = Authenticator(i)
      /\ Inner(m).signature = ISignature(i)
      /\ Inner(m).encaps = InitiatorEncaps(i)
      /\ Inner(m).ct.key = IK1(i)
  BY <1>2, InnerParts, Zenon
<1>5. Inner(m).ct.key = IK1(i)
  BY <1>4, Zenon
<1> DEFINE secret == PqSharedSecret(PqKey(r, rcfg[r].suite),
                                    Encapsulation(r, m))
           key == DeriveK1(ResponderK0(r, m).key, Inner(m).auth,
                           Inner(m).signature, LongTerm(r), secret,
                           ResponderTx1(r, m), rcfg[r].suite.aead)
<1>6. ResponderK1(r, m) = NewKey(key)
  BY Zenon DEF ResponderK1
<1>7. key = IK1(i)
  <2>1. HandshakeOpens(NewKey(key), rcfg[r].nc, Inner(m).ct)
    BY <1>6, Zenon DEF InnerOpens
  <2> HIDE DEF key
  <2> QED
    BY <1>5, <2>1, FreshOpens, Zenon
<1>8. ResponderTx1(r, m) = ITx1(i)
  <2> HIDE DEF secret
  <2>1. DeriveK1(ResponderK0(r, m).key, Authenticator(i), ISignature(i),
                 LongTerm(r), secret, ResponderTx1(r, m), rcfg[r].suite.aead)
          = DeriveK1(IK0(i), Authenticator(i), ISignature(i),
                     LongTerm(icfg[i].peer),
                     PqSharedSecret(IPq(i), InitiatorEncaps(i)), ITx1(i),
                     icfg[i].suite.aead)
    BY <1>4, <1>7, Zenon DEF IK1
  <2> QED
    BY <2>1, Zenon DEF DeriveK1, K1Dh, K1Sig
<1>9. (IF Encapsulation(r, m) # None THEN PqKey(r, rcfg[r].suite) ELSE None)
         = IPq(i)
  BY <1>8, Zenon DEF ResponderTx1, ITx1, Tx1
<1>10. IsPqInitiator(i) => Encapsulation(r, m) # None
  BY <1>9, Zenon DEF IsPqInitiator, IPq, PqKey, None, Some
<1>11. ~IsPqInitiator(i) => Encapsulation(r, m) = None
  BY <1>4, Zenon DEF IsPqInitiator, InitiatorEncaps, PqKey, Encapsulation,
              DeserializeEncapsulation
<1>12. IsPq(r, m) = IsPqInitiator(i)
  BY <1>10, <1>11, Zenon DEF IsPq, IsPqInitiator
<1>13. icfg[i].suite.pq \in {"NONE", rcfg[r].suite.pq}
  BY <1>1, <1>9, <1>10, Zenon DEF IsPqInitiator, IPq, PqKey, None, Some
<1>14. IsPq(r, m) => Coerced(r, m) = Some(rcfg[r].suite)
  <2>1. \/ Coerced(r, m) = Some(m.suite) /\ m.suite.pq = "NONE"
        \/ Coerced(r, m) = Some(m.suite) /\ m.suite = rcfg[r].suite
    BY Zenon DEF SetWorking, Coerced, CoerceCompatible
  <2>2. CASE Coerced(r, m) = Some(m.suite) /\ m.suite.pq = "NONE"
    <3>1. Coerced(r, m)[1].pq = "NONE"
      BY <2>2, SomeParts, Zenon
    <3> QED
      BY <3>1, Zenon DEF IsPq, Encapsulation, DeserializeEncapsulation
  <2> QED
    BY <2>1, <2>2, Zenon
<1>15. Registers(i, r)
  BY <1>1, <1>2, <1>3, <1>13, Zenon DEF Registers, Served
<1> QED
  BY <1>1, <1>4, <1>6, <1>7, <1>8, <1>12, <1>14, <1>15, Zenon

(* A registration is read: the responder serves the initiator it names. *)
LEMMA ReadRegistrationSafe ==
    ASSUME IInv, NEW r \in Responders, NEW m \in Arriving(LongTerm(r)),
           ReadRegistration(r, m)
    PROVE  IInv'
<1> DEFINE x == [state |-> "RespondRegistration", tx |-> ResponderTx1(r, m),
                 k |-> Some(HandshakeUsed(ResponderK1(r, m), rcfg[r].nc)),
                 ipk |-> m.pk, auth |-> Some(Inner(m).auth), pq |-> IsPq(r, m)]
<1>1. /\ CheckRateLimit(r, m) /\ SetWorking(r, m) /\ UNCHANGED config
      /\ IsRegistration(r, m) /\ InnerOpens(r, m)
      /\ rst' = [rst EXCEPT ![r] = x]
  BY Zenon DEF ReadRegistration, SetWorking, CheckRateLimit, ResponderOnly
<1>2. PICK i \in Initiators :
          /\ Registers(i, r) /\ m.pk = Ephemeral(i)
          /\ Inner(m).auth = Authenticator(i)
          /\ ResponderTx1(r, m) = ITx1(i)
          /\ ResponderK1(r, m) = NewKey(IK1(i))
          /\ IsPq(r, m) = IsPqInitiator(i)
          /\ IsPq(r, m) => Coerced(r, m) = Some(rcfg[r].suite)
  BY <1>1, InnerGenuine, Zenon
<1>3. x = ResponderState("RespondRegistration", ITx1(i), IK1(i), rcfg[r].nc, i)
  BY <1>2, Zenon DEF ResponderState
<1>4. x.state = "RespondRegistration" /\ x.pq = IsPq(r, m)
  BY Zenon
<1> HIDE DEF x
<1>5. SameBut(rst, rst', r) /\ rst'[r] = x
  BY <1>1, SameButExcept, Zenon DEF IInv, ConfigInv
<1>6. /\ SameBut(working, working', r)
      /\ working'[r] = Coerced(r, m) /\ working'[r] # None
      /\ working'[r][1].pq = "NONE" \/ working'[r] = Some(rcfg[r].suite)
  BY <1>1, SetWorkingSuite, Zenon
<1>7. rst'[r].pq => working'[r] = Some(rcfg[r].suite)
  BY <1>2, <1>4, <1>5, <1>6, Zenon
<1>8. ResponderInv(r)'
  <2>1. rst'[r].state = "RespondRegistration"
    BY <1>4, <1>5, Zenon
  <2>2. /\ Registers(i, r)' /\ rcfg' = rcfg
        /\ rst'[r] = ResponderState("RespondRegistration", ITx1(i), IK1(i),
                                    rcfg[r].nc, i)'
    BY <1>1, <1>2, <1>3, <1>5, Stable, ZenonT(30)
  <2> QED
    BY <1>6, <1>7, <2>1, <2>2, Zenon DEF ResponderInv, ResponderStates
<1> QED
  BY <1>1, <1>5, <1>6, <1>8, CheckRateLimitSafe, Zenon

-----------------------------------------------------------------------------
(* An answer is encrypted under a K2 of a fresh ephemeral key, and hence   *)
(* under a key that has encrypted nothing so far.                          *)
LEMMA RespondSafe ==
    ASSUME IInv, NEW r \in Responders, NEW suite, NEW ct,
           Respond(r, suite, ct),
           IsK2(ct.key), EphemeralIn(ct.key) = NextEphemeral(r), Made(ct)',
           SameBut(rst, rst', r), ResponderInv(r)',
           completed \subseteq completed', CompletedInv'
    PROVE  IInv'
<1> DEFINE s == Sealing(r, 0, ct)
<1>0. PICK m : m = [to |-> rst[r].ipk, pk |-> NextEphemeral(r),
                    ct |-> Some(ct), suite |-> suite]
  BY Zenon
<1>1. /\ neph[r] < MaxEphemeral /\ neph' = [neph EXCEPT ![r] = neph[r] + 1]
      /\ sealed' = sealed \cup {s}
      /\ net' \subseteq net \cup {m}
      /\ UNCHANGED config /\ ist' = ist /\ sessions' = sessions
      /\ working' = working /\ recent' = recent /\ seen' = seen
  BY <1>0, Zenon DEF Respond, ResponderOnly
<1>2. s.key = ct.key
  BY Zenon DEF Sealing
<1> HIDE DEF s
<1>3. /\ neph \in [Responders -> 0..MaxEphemeral]
      /\ neph' \in [Responders -> 0..MaxEphemeral]
      /\ neph'[r] = neph[r] + 1
      /\ \A q \in Responders : neph[q] \in Nat /\ neph'[q] \in Nat
                                               /\ neph'[q] >= neph[q]
  BY <1>1, BoundsAssumption, SMT DEF IInv, ConfigInv
<1>4. SealedInv'
  <2> SUFFICES ASSUME NEW t \in sealed'
               PROVE  \/ \E i \in Initiators :
                            t.key \in {IK0(i), IK1(i)} /\ Spent(i)'
                      \/ /\ IsK2(t.key)
                         /\ \E q \in Responders : \E n \in 0 .. neph'[q] - 1 :
                               EphemeralIn(t.key) = ResponderEphemeral(q, n)
    BY <1>1, Stable, Zenon DEF SealedInv
  <2>1. CASE t = s
    <3>1. neph[r] \in 0 .. neph'[r] - 1
      BY <1>3, SMT
    <3> QED
      BY <1>2, <2>1, <3>1, Zenon DEF NextEphemeral
  <2>2. CASE t \in sealed
    <3>1. \A i \in Initiators : Spent(i) => Spent(i)'
      BY <1>1, Zenon DEF Spent
    <3>2. \A q \in Responders : 0 .. neph[q] - 1 \subseteq 0 .. neph'[q] - 1
      BY <1>3, SMT
    <3> QED
      BY <2>2, <3>1, <3>2, Zenon DEF IInv, SealedInv
  <2> QED
    BY <1>1, <2>1, <2>2, Zenon
<1>5. ASSUME NEW t \in sealed
      PROVE  t.key # s.key
  <2>1. CASE \E i \in Initiators : t.key \in {IK0(i), IK1(i)}
    <3>1. ~IsK2(t.key)
      BY <2>1, KindsDiffer, Zenon
    <3> QED
      BY <1>2, <3>1, Zenon
  <2>2. CASE \E q \in Responders : \E n \in 0 .. neph[q] - 1 :
                EphemeralIn(t.key) = ResponderEphemeral(q, n)
    <3>0. PICK q \in Responders : \E n \in 0 .. neph[q] - 1 :
              EphemeralIn(t.key) = ResponderEphemeral(q, n)
      BY <2>2, Zenon
    <3>1. PICK n \in 0 .. neph[q] - 1 :
              EphemeralIn(t.key) = ResponderEphemeral(q, n)
      BY <3>0, Zenon
    <3>2. ResponderEphemeral(q, n) # ResponderEphemeral(r, neph[r])
      BY <1>3, SMT DEF ResponderEphemeral
    <3> QED
      BY <1>2, <3>1, <3>2, Zenon DEF NextEphemeral
  <2> QED
    BY <2>1, <2>2, Zenon DEF IInv, SealedInv
<1>6. HandshakeNoncesUnique'
  BY <1>1, <1>5, ZenonT(30) DEF IInv, HandshakeNoncesUnique
<1>7. NetInv'
  <2>1. Shaped(m) /\ m.pk = NextEphemeral(r) /\ m.ct = Some(m.ct[1])
        /\ m.ct[1] = ct
    <3>1. Carrying(m, NextEphemeral(r), ct)
      BY <1>0, MessageParts, Zenon
    <3> QED
      BY <3>1, Zenon DEF Carrying
  <2>2. NextEphemeral(r) \in Ephs
    BY <1>3, SMT DEF Ephs, NextEphemeral
  <2>3. m.pk \in PublicKeys
    BY <2>1, <2>2, Zenon DEF PublicKeys
  <2>4. Genuine(m)'
    BY <2>1, <2>3, Zenon DEF Genuine
  <2> QED
    BY <1>1, <2>1, <2>4, NetFrame, Zenon DEF IInv
<1>8. SessionsInv' /\ WindowInv(r)'
  BY <1>1, SameSessions, WindowFrame, Zenon DEF IInv
<1>9. /\ SameBut(recent, recent', r) /\ SameBut(seen, seen', r)
      /\ SameBut(working, working', r)
  BY <1>1, SameButSame, Zenon DEF IInv, ConfigInv
<1> QED
  BY <1>1, <1>3, <1>4, <1>6, <1>7, <1>8, <1>9, ResponderStepFrame, Zenon

(* A query is answered, and the responder starts over. *)
LEMMA RespondQuerySafe ==
    ASSUME IInv, NEW r \in Responders, RespondQuery(r)
    PROVE  IInv'
<1>1. PICK ct : ct = HandshakeSeal(ResponderQueryK2(r), rcfg[r].nc,
                                   <<"answer">>)
  BY Zenon
<1>2. /\ Respond(r, QuerySuite, ct) /\ completed' = completed
      /\ rst' = [rst EXCEPT ![r] = NewResponder]
  BY <1>1, Zenon DEF RespondQuery
<1>3. UNCHANGED config /\ working' = working
  BY <1>2, Zenon DEF Respond, ResponderOnly
<1> DEFINE key == K2Query(rst[r].k[1].key,
                          DHSharedSecret(LongTerm(r), rst[r].ipk),
                          DHSharedSecret(NextEphemeral(r), rst[r].ipk),
                          Tx2(rst[r].tx, NextEphemeral(r)))
<1>4. ct.key = key
  <2>1. ct = HandshakeSeal(NewKey(key), rcfg[r].nc, <<"answer">>)
    BY <1>1, Zenon DEF ResponderQueryK2
  <2> HIDE DEF key
  <2> QED
    <3>1. SealedAs(ct, key, <<"answer">>)
      BY <2>1, FreshSeal, Zenon
    <3> QED
      BY <3>1, Zenon DEF SealedAs
<1>5. /\ IsK2(ct.key) /\ EphemeralIn(ct.key) = NextEphemeral(r)
      /\ ct.key[1] = "K2 query"
  <2>1. PICK k : k = ct.key
    BY Zenon
  <2>2. k[1] = "K2 query" /\ IsK2(k) /\ EphemeralIn(k) = NextEphemeral(r)
    <3>1. PICK k0, g_xs, g_xy, tx, eph :
              k = K2Query(k0, g_xs, g_xy, Tx2(tx, eph)) /\ eph = NextEphemeral(r)
      BY <1>4, <2>1, Zenon
    <3> QED
      BY <3>1, Zenon DEF K2Query, Tx2, IsK2, EphemeralIn
  <2> QED
    BY <2>1, <2>2, Zenon
<1>6. Made(ct)'
  BY <1>5, Zenon DEF Made
<1>7. SameBut(rst, rst', r) /\ rst'[r].state = "Initial"
  BY <1>2, SameButExcept, ResponderEdits, Zenon DEF IInv, ConfigInv
<1>8. ResponderInv(r)'
  BY <1>3, <1>7, ResponderIdle, Zenon
<1>9. CompletedInv'
  BY <1>2, <1>3, CompletedFrame, Zenon DEF IInv
<1> QED
  BY <1>2, <1>5, <1>6, <1>7, <1>8, <1>9, RespondSafe, Zenon

(* A registration is answered with the initiator's own K2 and transcript. *)
LEMMA RespondRegistrationSafe ==
    ASSUME IInv, NEW r \in Responders, RespondRegistration(r)
    PROVE  IInv'
<1>1. PICK ct : ct = HandshakeSeal(ResponderK2(r), rcfg[r].nc, <<"answer">>)
  BY Zenon
<1>2. /\ rst[r].state = "RespondRegistration"
      /\ Respond(r, working[r][1], ct)
      /\ rst' = [rst EXCEPT ![r] =
                    [state |-> "ToTransport", tx |-> ResponderTx2(r),
                     k |-> Some(HandshakeUsed(ResponderK2(r), rcfg[r].nc)),
                     ipk |-> rst[r].ipk, auth |-> rst[r].auth,
                     pq |-> rst[r].pq]]
      /\ completed' = completed \cup
            {[responder |-> r, ipk |-> rst[r].ipk, auth |-> rst[r].auth,
              pq |-> rst[r].pq, tx2 |-> ResponderTx2(r),
              k2 |-> ResponderK2(r).key]}
  BY <1>1, Zenon DEF RespondRegistration
<1>3. UNCHANGED config /\ working' = working
  BY <1>2, Zenon DEF Respond, ResponderOnly
<1>4. PICK i \in Initiators :
          /\ Registers(i, r)
          /\ rst[r] = ResponderState("RespondRegistration", ITx1(i), IK1(i),
                                     rcfg[r].nc, i)
  BY <1>2, Zenon DEF IInv, ResponderInv
<1>5. /\ rst[r].tx = ITx1(i) /\ rst[r].ipk = Ephemeral(i)
      /\ rst[r].k[1].key = IK1(i)
      /\ rst[r].auth = Some(Authenticator(i))
      /\ rst[r].auth[1] = Authenticator(i)
      /\ rst[r].pq = IsPqInitiator(i)
  <2>1. Serves(rst[r], "RespondRegistration", ITx1(i), IK1(i), rcfg[r].nc, i)
    BY <1>4, ResponderStateParts, Zenon
  <2> QED
    BY <2>1, Zenon DEF Serves
<1>6. rst[r].k[1].key = IK1(i)
  BY <1>5, Zenon
<1>7. icfg[i].peer = r /\ icfg[i].suite.aead = rcfg[r].suite.aead
  BY <1>4, Zenon DEF Registers, Served
<1>8. PICK eph : eph = NextEphemeral(r)
  BY ZenonT(30)
<1>9. eph \in Ephs
  BY <1>8, BoundsAssumption, SMT DEF IInv, ConfigInv, Ephs, NextEphemeral
<1>10. ResponderTx2(r) = ITx2(i, eph)
  BY <1>5, <1>8, ZenonT(30) DEF ResponderTx2, ITx2
<1>11. ResponderK2(r) = NewKey(IK2(i, eph))
  BY <1>5, <1>6, <1>7, <1>8, <1>10, Zenon DEF ResponderK2, IK2
<1>12. ResponderK2(r).key = IK2(i, eph)
  <2>1. NewKey(IK2(i, eph)).key = IK2(i, eph)
    BY NewKeyParts, Zenon
  <2> QED
    BY <1>11, <2>1, Zenon
<1>13. ct.key = IK2(i, eph)
  <2>1. ct = HandshakeSeal(NewKey(IK2(i, eph)), rcfg[r].nc, <<"answer">>)
    BY <1>1, <1>11, Zenon
  <2> QED
    <3>1. SealedAs(ct, IK2(i, eph), <<"answer">>)
      BY <2>1, FreshSeal, Zenon
    <3> QED
      BY <3>1, Zenon DEF SealedAs
<1>14. IsK2(ct.key) /\ EphemeralIn(ct.key) = NextEphemeral(r)
  BY <1>8, <1>13, K2Parts, Zenon
<1>15. completed' = completed \cup {Completion(i, eph)}
  BY <1>2, <1>5, <1>7, <1>10, <1>12, ZenonT(30) DEF Completion
<1>16. CompletedInv' /\ completed \subseteq completed'
  BY <1>3, <1>9, <1>15, Stable, SMT DEF IInv, CompletedInv
<1>17. Made(ct)'
  BY <1>3, <1>9, <1>13, <1>15, Stable, ZenonT(30) DEF Made
<1>18. /\ SameBut(rst, rst', r)
       /\ rst'[r] = ResponderState("ToTransport", ITx2(i, eph), IK2(i, eph),
                                   rcfg[r].nc, i)
  <2>1. PICK z : z = ResponderState("ToTransport", ITx2(i, eph), IK2(i, eph),
                                    rcfg[r].nc, i)
    BY Zenon
  <2>2. rst' = [rst EXCEPT ![r] = z]
    BY <1>2, <1>5, <1>10, <1>11, <2>1, Zenon DEF ResponderState
  <2> QED
    BY <2>1, <2>2, SameButExcept, Zenon DEF IInv, ConfigInv
<1>19. ResponderInv(r)'
  <2>1. rst'[r].state = "ToTransport"
    <3>1. Serves(rst'[r], "ToTransport", ITx2(i, eph), IK2(i, eph), rcfg[r].nc, i)
      BY <1>18, ResponderStateParts, Zenon
    <3> QED
      BY <3>1, Zenon DEF Serves
  <2>2. /\ Registers(i, r)' /\ rcfg' = rcfg
        /\ rst'[r] = ResponderState("ToTransport", ITx2(i, eph), IK2(i, eph),
                                    rcfg[r].nc, i)'
    BY <1>3, <1>4, <1>18, Stable, Zenon
  <2>3. \/ working'[r] = None
        \/ working'[r][1].pq = "NONE"
        \/ working'[r] = Some(rcfg[r].suite)
    BY <1>3, ZenonT(30) DEF IInv, ResponderInv
  <2> QED
    BY <1>9, <2>1, <2>2, <2>3, Zenon DEF ResponderInv, ResponderStates
<1> QED
  BY <1>2, <1>14, <1>16, <1>17, <1>18, <1>19, RespondSafe, ZenonT(30)

(* Every step of a responder. *)
LEMMA ResponderStepSafe ==
    ASSUME IInv, NEW r \in Responders, ResponderStep(r)
    PROVE  IInv'
<1>1. CASE ReadNotInitial(r) \/ ReadUndecodable(r)
  BY <1>1, NothingChanges, Zenon
     DEF ReadNotInitial, ReadUndecodable, ReadUnchanged, ResponderOnly
<1>2. CASE RespondQuery(r)
  BY <1>2, RespondQuerySafe, Zenon
<1>3. CASE RespondRegistration(r)
  BY <1>3, RespondRegistrationSafe, Zenon
<1>4. CASE ResponderWriteNoRandomness(r) \/ ResponderWriteWrongState(r)
  <2>1. \E error : ResponderFails(r, error)
    BY <1>4, Zenon DEF ResponderWriteNoRandomness, ResponderWriteWrongState
  <2> QED
    BY <2>1, ResponderStopsSafe, Zenon
<1>5. CASE AbortHandshake(r)
  BY <1>5, ResponderStopsSafe, Zenon
<1>6. CASE ResponderIntoSession(r)
  BY <1>6, ResponderIntoSessionSafe, Zenon
<1>7. CASE ResponderIntoSessionFailed(r)
  BY <1>7, ResponderIntoSessionFailedSafe, Zenon
<1>8. ASSUME NEW m \in Arriving(LongTerm(r)), ResponderReads(r, m)
      PROVE  IInv'
  <2>1. CASE ReadRateLimited(r, m)
    BY <2>1, NothingChanges, Zenon
       DEF ReadRateLimited, ReadUnchanged, ResponderOnly
  <2>2. CASE ReadUnsupported(r, m) \/ ReadUndecryptable(r, m)
    BY <2>2, ReadFailsSafe, Zenon
  <2>3. CASE ReadQuery(r, m)
    BY <2>3, ReadQuerySafe, Zenon
  <2>4. CASE ReadRegistration(r, m)
    BY <2>4, ReadRegistrationSafe, Zenon
  <2> QED
    BY <1>8, <2>1, <2>2, <2>3, <2>4, Zenon DEF ResponderReads
<1> QED
  BY <1>1, <1>2, <1>3, <1>4, <1>5, <1>6, <1>7, <1>8, Zenon DEF ResponderStep

-----------------------------------------------------------------------------
(* The inductive invariant holds initially. *)
LEMMA InitIInv == Init => IInv
<1> SUFFICES ASSUME Init
             PROVE  IInv
  BY Zenon
<1>1. ConfigInv
  BY BoundsAssumption, SMT DEF Init, ConfigInv
<1>2. ASSUME NEW i \in Initiators
      PROVE  InitiatorInv(i)
  <2>1. ist[i] = NewInitiator(i, icfg[i])
    BY Zenon DEF Init
  <2>2. icfg[i].mode \in {"registration", "query"}
    BY InitiatorConfigsAssumption, Zenon DEF Init
  <2>3. InitiatorK0(i, icfg[i]) = NewKey(IK0(i))
    BY Zenon DEF InitiatorK0, IK0, ITx0
  <2>4. /\ ist[i] = [state |-> ist[i].state, tx |-> ist[i].tx, k |-> ist[i].k]
        /\ ist[i].state = IF icfg[i].mode = "query" THEN "Query" ELSE "Initial"
        /\ ist[i].tx = ITx0(i) /\ ist[i].k = Some(NewKey(IK0(i)))
    <3>1. PICK st, tx, k :
              /\ st = IF icfg[i].mode = "query" THEN "Query" ELSE "Initial"
              /\ tx = ITx0(i) /\ k = Some(NewKey(IK0(i)))
      BY Zenon
    <3>2. ist[i] = [state |-> st, tx |-> tx, k |-> k]
      BY <2>1, <2>3, <3>1, Zenon DEF NewInitiator, ITx0
    <3>3. ist[i].state = st /\ ist[i].tx = tx /\ ist[i].k = k
      <4>1. InitiatorAt(ist[i], st, tx, k)
        BY <3>2, InitiatorRecord, Zenon
      <4> QED
        BY <4>1, Zenon DEF InitiatorAt
    <3> QED
      BY <3>1, <3>2, <3>3, Zenon
  <2>5. ist[i].k[1] = NewKey(IK0(i))
    BY <2>4, SomeParts, ZenonT(30)
  <2> QED
    BY <2>2, <2>4, <2>5, Zenon DEF InitiatorInv, InitiatorStates
<1>3. ASSUME NEW r \in Responders
      PROVE  ResponderInv(r)
  <2>1. rst[r].state = "Initial" /\ working[r] = None
    BY ResponderEdits, Zenon DEF Init
  <2> QED
    BY <2>1, Zenon DEF ResponderInv, ResponderStates
<1>4. NetInv /\ CompletedInv /\ SealedInv /\ HandshakeNoncesUnique
      /\ SessionsInv
  BY Zenon DEF Init, NetInv, CompletedInv, SealedInv, HandshakeNoncesUnique,
         SessionsInv
<1>5. ASSUME NEW r \in Responders
      PROVE  WindowInv(r)
  <2>1. recent[r] = <<>> /\ seen[r] = <<>>
    BY Zenon DEF Init
  <2>2. rcfg[r].bound \in Nat \ {0}
    BY ResponderConfigsAssumption, Zenon DEF Init
  <2>3. ASSUME NEW b \in Nat \ {0}
        PROVE  Window(<<>>, <<>>, b)
    BY SMT DEF Window
  <2> QED
    BY <2>1, <2>2, <2>3, Zenon DEF WindowInv
<1> QED
  BY <1>1, <1>2, <1>3, <1>4, <1>5, Zenon DEF IInv

(* Every step keeps the inductive invariant. *)
LEMMA NextIInv == IInv /\ [Next]_vars => IInv'
<1> SUFFICES ASSUME IInv, [Next]_vars
             PROVE  IInv'
  BY Zenon
<1>1. ASSUME NEW i \in Initiators, InitiatorStep(i)
      PROVE  IInv'
  BY <1>1, InitiatorStepSafe, Zenon
<1>2. ASSUME NEW r \in Responders, ResponderStep(r)
      PROVE  IInv'
  BY <1>2, ResponderStepSafe, Zenon
<1>3. CASE UNCHANGED vars
  BY <1>3, NothingChanges, Zenon DEF vars, config
<1> QED
  BY <1>1, <1>2, <1>3, Zenon DEF Next

(* The inductive invariant. *)
THEOREM Invariance == Spec => []IInv
<1>1. Init => IInv
  BY InitIInv, Zenon
<1>2. IInv /\ [Next]_vars => IInv'
  BY NextIInv, Zenon
<1> QED
  BY <1>1, <1>2, PTL DEF Spec

-----------------------------------------------------------------------------
(* Initiators and responders are in states of their enums, with a key      *)
(* where the state has one; recent_keys stays within its bound and without *)
(* repetition; the working ciphersuite is one of those the responder can   *)
(* be coerced into.                                                        *)
THEOREM TypeCorrect == Spec => []TypeOK
<1>1. IInv => TypeOK
  <2> SUFFICES ASSUME IInv
               PROVE  TypeOK
    BY Zenon
  <2>1. ASSUME NEW i \in Initiators
        PROVE  /\ ist[i].state \in InitiatorStates
               /\ ist[i].state \in {"Initial", "Waiting", "ToTransport",
                                    "Query"} => Len(ist[i].k) = 1
    <3>1. /\ ist[i].state \in InitiatorStates
          /\ ist[i].state \in {"Initial", "Waiting", "ToTransport", "Query"}
                => \E a : ist[i].k = Some(a)
      BY Zenon DEF IInv, InitiatorInv
    <3> QED
      BY <3>1, Zenon DEF Some
  <2>2. ASSUME NEW r \in Responders
        PROVE  /\ rst[r].state \in ResponderStates
               /\ working[r] = None \/ working[r][1].pq = "NONE"
                                    \/ working[r] = Some(rcfg[r].suite)
               /\ neph[r] \in 0..MaxEphemeral
    BY Zenon DEF IInv, ConfigInv, ResponderInv
  <2>3. ASSUME NEW r \in Responders
        PROVE  /\ Len(recent[r]) <= rcfg[r].bound
               /\ \A m, n \in DOMAIN recent[r] :
                     recent[r][m] = recent[r][n] => m = n
    <3> DEFINE keys == recent[r]
               log == seen[r]
               L == Len(log)
               bound == rcfg[r].bound
    <3>1. bound \in Nat \ {0}
      BY ResponderConfigsAssumption, Zenon DEF IInv, ConfigInv
    <3>2. /\ keys \in Seq(PublicKeys) /\ log \in Seq(PublicKeys)
          /\ Len(keys) = IF L < bound THEN L ELSE bound
          /\ \A k \in 1 .. Len(keys) : keys[k] = log[L + 1 - k]
          /\ \A m, n \in 1 .. L : m < n /\ log[m] = log[n] => n - m > bound
      BY Zenon DEF IInv, WindowInv, Window
    <3> HIDE DEF keys, log, bound
    <3>3. L \in Nat /\ Len(keys) \in Nat /\ DOMAIN keys = 1 .. Len(keys)
      BY <3>2, SMT
    <3>4. Len(keys) <= bound /\ Len(keys) <= L
      BY <3>1, <3>2, <3>3, SMT
    <3>5. ASSUME NEW m \in 1 .. Len(keys), NEW n \in 1 .. Len(keys),
                 m < n, keys[m] = keys[n]
          PROVE  FALSE
      <4>1. /\ L + 1 - n \in 1 .. L /\ L + 1 - m \in 1 .. L
            /\ L + 1 - n < L + 1 - m
            /\ (L + 1 - m) - (L + 1 - n) < bound
        BY <3>1, <3>3, <3>4, <3>5, SMT
      <4>2. log[L + 1 - n] = log[L + 1 - m]
        BY <3>2, <3>5, Zenon
      <4> QED
        BY <3>1, <3>2, <3>3, <4>1, <4>2, SMT
    <3>6. \A m, n \in DOMAIN keys : keys[m] = keys[n] => m = n
      BY <3>3, <3>5
    <3> QED
      BY <3>4, <3>6, Zenon DEF keys, bound
  <2> QED
    BY <2>1, <2>2, <2>3, Zenon DEF TypeOK
<1> QED
  BY <1>1, Invariance, PTL

(* A responder about to answer a registration has a working ciphersuite,   *)
(* its own one if the registration is post-quantum.                        *)
THEOREM WorkingSuiteAlwaysSet == Spec => []WorkingSuiteSet
<1>1. IInv => WorkingSuiteSet
  BY Zenon DEF IInv, ResponderInv, WorkingSuiteSet
<1> QED
  BY <1>1, Invariance, PTL

(* check_rate_limit lets a key through again only after                    *)
(* recent_keys_upper_bound other new keys.                                 *)
THEOREM ReplaysOutsideWindow == Spec => []ReplayWindow
<1>1. ASSUME IInv, NEW r \in Responders
      PROVE  \A m, n \in DOMAIN seen[r] :
                m < n /\ seen[r][m] = seen[r][n] => n - m > rcfg[r].bound
  <2>1. /\ seen[r] \in Seq(PublicKeys)
        /\ \A m, n \in 1 .. Len(seen[r]) :
              m < n /\ seen[r][m] = seen[r][n] => n - m > rcfg[r].bound
    BY <1>1, Zenon DEF IInv, WindowInv, Window
  <2>2. DOMAIN seen[r] = 1 .. Len(seen[r])
    BY <2>1, SMT
  <2> QED
    BY <2>1, <2>2, Zenon
<1>2. IInv => ReplayWindow
  BY <1>1, Zenon DEF ReplayWindow
<1> QED
  BY <1>2, Invariance, PTL

(* No handshake key encrypts twice at a nonce. *)
THEOREM HandshakeNoncesFresh == Spec => []HandshakeNoncesUnique
<1>1. IInv => HandshakeNoncesUnique
  BY Zenon DEF IInv
<1> QED
  BY <1>1, Invariance, PTL

(* A responder serves initiators that meant it, under their own            *)
(* authenticators, whatever header arrives.                                *)
THEOREM RegistrationsAuthentic == Spec => []RegistrationAuthentic
<1>1. IInv => RegistrationAuthentic
  <2> SUFFICES ASSUME IInv, NEW r \in Responders,
                      rst[r].state \in {"RespondRegistration", "ToTransport"}
               PROVE  \E i \in Initiators :
                         /\ icfg[i].mode = "registration"
                         /\ icfg[i].peer = r
                         /\ rst[r].ipk = Ephemeral(i)
                         /\ rst[r].auth = Some(Authenticator(i))
                         /\ rst[r].pq <=> icfg[i].suite.pq # "NONE"
                         /\ Served(i, r)
    BY Zenon DEF RegistrationAuthentic
  <2>1. PICK i \in Initiators :
            /\ Registers(i, r)
            /\ \E st, tx, key :
                  rst[r] = ResponderState(st, tx, key, rcfg[r].nc, i)
    <3>1. ResponderInv(r)
      BY Zenon DEF IInv
    <3>2. CASE rst[r].state = "RespondRegistration"
      BY <3>1, <3>2, Zenon DEF ResponderInv
    <3>3. CASE rst[r].state = "ToTransport"
      BY <3>1, <3>3, Zenon DEF ResponderInv
    <3> QED
      BY <3>2, <3>3, Zenon
  <2>2. /\ rst[r].ipk = Ephemeral(i) /\ rst[r].auth = Some(Authenticator(i))
        /\ rst[r].pq = IsPqInitiator(i)
    <3>1. PICK st, tx, key : Serves(rst[r], st, tx, key, rcfg[r].nc, i)
      BY <2>1, ResponderStateParts, Zenon
    <3> QED
      BY <3>1, Zenon DEF Serves
  <2> QED
    BY <2>1, <2>2, Zenon DEF Registers, IsPqInitiator
<1> QED
  BY <1>1, Invariance, PTL

(* An initiator that finished was answered by the responder it meant, with *)
(* the same K2 and transcript.                                             *)
THEOREM InitiatorsConfirmed == Spec => []InitiatorConfirmed
<1>1. IInv => InitiatorConfirmed
  <2> SUFFICES ASSUME IInv, NEW i \in Initiators, ist[i].state = "ToTransport"
               PROVE  [responder |-> icfg[i].peer, ipk |-> Ephemeral(i),
                       auth |-> Some(Authenticator(i)),
                       pq |-> icfg[i].suite.pq # "NONE",
                       tx2 |-> ist[i].tx, k2 |-> ist[i].k[1].key] \in completed
    BY Zenon DEF InitiatorConfirmed
  <2>1. PICK eph \in Ephs :
            /\ ist[i].tx = ITx2(i, eph)
            /\ ist[i].k = Some(HandshakeUsed(NewKey(IK2(i, eph)), icfg[i].nc))
            /\ Completion(i, eph) \in completed
    BY Zenon DEF IInv, InitiatorInv
  <2>2. HandshakeUsed(NewKey(IK2(i, eph)), icfg[i].nc).key = IK2(i, eph)
    BY UsedParts, Zenon
  <2>3. ist[i].k[1].key = IK2(i, eph)
    <3>1. ist[i].k[1] = HandshakeUsed(NewKey(IK2(i, eph)), icfg[i].nc)
      BY <2>1, SomeParts, ZenonT(30)
    <3> QED
      BY <2>2, <3>1, Zenon
  <2> QED
    BY <2>1, <2>3, Zenon DEF Completion, IsPqInitiator
<1> QED
  BY <1>1, Invariance, PTL

(* Sessions with one key are the two ends of one handshake, and agree on   *)
(* all they are bound to.                                                  *)
THEOREM SessionAgreement == Spec => []SessionsAgree
<1>1. IInv => SessionsAgree
  <2> SUFFICES ASSUME IInv, NEW s \in sessions, NEW t \in sessions,
                      s.key = t.key, s # t
               PROVE  /\ s.role # t.role /\ s.transcript = t.transcript
                      /\ s.aead = t.aead /\ s.binding = t.binding
    BY Zenon DEF SessionsAgree
  <2>1. PICK i \in Initiators, e \in Ephs :
            \/ s = SessionOf("initiator", i, i, e)
            \/ s = SessionOf("responder", icfg[i].peer, i, e)
    BY Zenon DEF IInv, SessionsInv
  <2>2. PICK j \in Initiators, f \in Ephs :
            \/ t = SessionOf("initiator", j, j, f)
            \/ t = SessionOf("responder", icfg[j].peer, j, f)
    BY Zenon DEF IInv, SessionsInv
  <2>a. /\ s.key = DeriveSessionKey(IK2(i, e), ITx2(i, e))
        /\ s.transcript = ITx2(i, e) /\ s.aead = icfg[i].suite.aead
        /\ s.binding = Binding(Authenticator(i), LongTerm(icfg[i].peer), IPq(i))
        /\ s.role \in {"initiator", "responder"}
    <3>1. BoundTo(s, "initiator", i, e) \/ BoundTo(s, "responder", i, e)
      BY <2>1, SessionOfParts, Zenon
    <3> QED
      BY <3>1, Zenon DEF BoundTo
  <2>b. /\ t.key = DeriveSessionKey(IK2(j, f), ITx2(j, f))
        /\ t.transcript = ITx2(j, f) /\ t.aead = icfg[j].suite.aead
        /\ t.binding = Binding(Authenticator(j), LongTerm(icfg[j].peer), IPq(j))
        /\ t.role \in {"initiator", "responder"}
    <3>1. BoundTo(t, "initiator", j, f) \/ BoundTo(t, "responder", j, f)
      BY <2>2, SessionOfParts, Zenon
    <3> QED
      BY <3>1, Zenon DEF BoundTo
  <2>3. IK2(i, e) = IK2(j, f)
    <3>1. /\ s.key = DeriveSessionKey(IK2(i, e), ITx2(i, e))
          /\ t.key = DeriveSessionKey(IK2(j, f), ITx2(j, f))
      BY <2>a, <2>b, Zenon
    <3>2. DeriveSessionKey(IK2(i, e), ITx2(i, e))
             = DeriveSessionKey(IK2(j, f), ITx2(j, f))
      BY <3>1, Zenon
    <3> QED
      BY <3>2, Zenon DEF DeriveSessionKey
  <2>4. i = j /\ e = f
    BY <2>3, K2Injective
  <2>5. s.role # t.role
    <3>1. \/ s = SessionOf("initiator", i, i, e)
             /\ t = SessionOf("responder", icfg[i].peer, i, e)
          \/ s = SessionOf("responder", icfg[i].peer, i, e)
             /\ t = SessionOf("initiator", i, i, e)
      BY <2>1, <2>2, <2>4, Zenon
    <3>2. \/ s.role = "initiator" /\ t.role = "responder"
          \/ s.role = "responder" /\ t.role = "initiator"
      <4>1. \/ BoundTo(s, "initiator", i, e) /\ BoundTo(t, "responder", i, e)
            \/ BoundTo(s, "responder", i, e) /\ BoundTo(t, "initiator", i, e)
        BY <3>1, SessionOfParts, Zenon
      <4> QED
        BY <4>1, Zenon DEF BoundTo
    <3> QED
      BY <3>2, Zenon
  <2> QED
    BY <2>4, <2>5, <2>a, <2>b, Zenon
<1> QED
  BY <1>1, Invariance, PTL
=============================================================================
