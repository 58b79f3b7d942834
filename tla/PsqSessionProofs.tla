-------------------------- MODULE PsqSessionProofs --------------------------
(***************************************************************************)
(* Theorems about PsqSession, for every set of secrets, every channel      *)
(* counter limit and every number of imports.                              *)
(***************************************************************************)
EXTENDS PsqSession, TLAPS

(* What a secret makes of the history, key and transcript of a session.    *)
Child(d, psk) ==
    LET tx == TxImport(d.transcript, SessionKeyId(d.key))
    IN  [imports |-> Append(d.imports, psk),
         key |-> DeriveSessionKey(DeriveImportKey(d.key, psk), tx),
         transcript |-> tx]

Root == [imports |-> <<>>,
         key |-> DeriveSessionKey(<<"K2", HandshakeKey2>>,
                                  <<"tx2", HandshakeTx2>>),
         transcript |-> <<"tx2", HandshakeTx2>>]

(* Every key derived so far is that of the handshake or comes from another *)
(* one by an import.                                                       *)
Grown(d) == d = Root \/ \E c \in derived, psk \in Psks : d = Child(c, psk)

DerivedGrown ==
    \A d \in derived : d.imports \in Seq(Psks) /\ Grown(d)

(* A session in memory or in storage, given the derived keys D. *)
Legit(s, D) ==
    /\ DOMAIN s = {"session_key", "identifier", "pk_binder",
                   "channel_counter", "transcript", "imports"}
    /\ DOMAIN s.session_key = {"key", "nonce", "expired"}
    /\ s.channel_counter \in 0..CounterMax
    /\ s.imports \in Seq(Psks)
    /\ Len(s.imports) <= MaxImports
    /\ s.identifier = SessionKeyId(s.session_key.key)
    /\ s.pk_binder \in {None, Some(DerivePkBinder(s.session_key.key,
                                                  HandshakeBinding))}
    /\ Lineage(s) \in D

(* imports and counter of channel c are before those of s, a session of    *)
(* the same end with counter n.                                            *)
Before(c, imports, n) ==
    \/ Len(c.imports) < Len(imports)
    \/ Len(c.imports) = Len(imports) /\ c.channel_identifier < n

SendLabel(e) == IF e = "initiator" THEN I2R ELSE R2I
RecvLabel(e) == IF e = "initiator" THEN R2I ELSE I2R

(* A channel of end e has the keys of a derived session. *)
KeyedBy(e, c, d, b) ==
    /\ c.imports = d.imports
    /\ c.bound = (b # None)
    /\ c.send_key.key = DeriveChannelKey(SendLabel(e), d.key, b,
                                         c.channel_identifier)
    /\ c.recv_key.key = DeriveChannelKey(RecvLabel(e), d.key, b,
                                         c.channel_identifier)

Keyed(e, c, D) ==
    /\ c.channel_identifier \in 0 .. CounterMax - 1
    /\ \E d \in D : \E b \in {None, Some(DerivePkBinder(d.key,
                                                        HandshakeBinding))} :
          KeyedBy(e, c, d, b)

(* The session object of an end: its main key is expired. *)
InMemory(o, D) ==
    o # None =>
        /\ o = Some(o[1])
        /\ Legit(o[1], D)
        /\ o[1].session_key.expired = TRUE

(* The copies an end has stored. *)
Stored(st, D) ==
    /\ st \in Seq({st[k] : k \in 1..Len(st)})
    /\ \A k \in 1..Len(st) :
          /\ DOMAIN st[k] = {"bytes", "loads"}
          /\ Legit(st[k].bytes, D)
          /\ st[k].loads \in Nat

(* The channels of an end have keys of derived sessions. *)
Opened(e, chs, D) ==
    /\ chs \in Seq({chs[n] : n \in 1..Len(chs)})
    /\ \A n \in 1..Len(chs) : Keyed(e, chs[n], D)

(* The session s goes on where the channels chs ended. *)
After(s, chs) ==
    \A n \in 1..Len(chs) :
        /\ Before(chs[n], s.imports, s.channel_counter)
        /\ s.pk_binder # None => chs[n].bound

(* The channels of an end come from its session in order. *)
InOrder(chs) ==
    \A m, n \in 1..Len(chs) : m < n =>
        /\ Before(chs[m], chs[n].imports, chs[n].channel_identifier)
        /\ chs[n].bound => chs[m].bound

(* The history of an end that loads no copy twice is a single line: the    *)
(* session in memory or the one copy not loaded yet goes on from all       *)
(* channels, and the others are of the past.                               *)
Linear(o, st, chs) ==
    /\ InOrder(chs)
    /\ o # None => After(o[1], chs)
    /\ \A k \in 1..Len(st) : st[k].loads = 0 =>
          /\ o = None
          /\ After(st[k].bytes, chs)
          /\ \A l \in 1..Len(st) : st[l].loads = 0 => k = l

Once(st) == \A k \in 1..Len(st) : st[k].loads <= 1

EndOK(e) ==
    /\ InMemory(session[e], derived)
    /\ Stored(storage[e], derived)
    /\ Opened(e, channels[e], derived)
    /\ Once(storage[e]) => Linear(session[e], storage[e], channels[e])

IInv ==
    /\ DOMAIN session = Ends
    /\ DOMAIN storage = Ends
    /\ DOMAIN channels = Ends
    /\ DerivedGrown
    /\ KeysAgreeIffImportsAgree
    /\ \A e \in Ends : EndOK(e)

-----------------------------------------------------------------------------
(* An absent value is not a present one, and a present one can be          *)
(* replaced.                                                               *)
LEMMA Optional ==
    ASSUME NEW x, NEW y
    PROVE  /\ None # Some(x)
           /\ Some(x)[1] = x
           /\ Some(x) = Some(y) => x = y
           /\ Len(Some(x)) = 1
           /\ [Some(x) EXCEPT ![1] = y] = Some(y)
BY DEF None, Some

(* Keys of imported sessions agree exactly when key, secret and transcript *)
(* they come from agree; none is the key of the handshake                  *)
(* (session_key.rs, derive_import_key).                                    *)
LEMMA ImportInjective ==
    ASSUME NEW c, NEW d, NEW p, NEW q
    PROVE  /\ Child(c, p).key = Child(d, q).key
                => c.key = d.key /\ p = q /\ c.transcript = d.transcript
           /\ Child(c, p).key # Root.key
<1>1. Child(c, p).key # Root.key
  BY DEF Child, Root, DeriveSessionKey, DeriveImportKey
<1>2. ASSUME Child(c, p).key = Child(d, q).key
      PROVE  c.key = d.key /\ p = q /\ c.transcript = d.transcript
  <2>1. /\ DeriveImportKey(c.key, p) = DeriveImportKey(d.key, q)
        /\ TxImport(c.transcript, SessionKeyId(c.key))
              = TxImport(d.transcript, SessionKeyId(d.key))
    BY <1>2 DEF Child, DeriveSessionKey
  <2> QED BY <2>1 DEF DeriveImportKey, TxImport
<1> QED BY <1>1, <1>2

(* Appending to a history of secrets. *)
LEMMA AppendImports ==
    ASSUME NEW s \in Seq(Psks), NEW t \in Seq(Psks),
           NEW p \in Psks, NEW q \in Psks
    PROVE  /\ Append(s, p) \in Seq(Psks)
           /\ Len(Append(s, p)) = Len(s) + 1
           /\ Append(s, p) # <<>>
           /\ Append(s, p) = Append(t, q) => s = t /\ p = q
<1>1. /\ Append(s, p) \in Seq(Psks)
      /\ Len(Append(s, p)) = Len(s) + 1
      /\ Append(s, p) # <<>>
  OBVIOUS
<1>2. ASSUME Append(s, p) = Append(t, q) PROVE s = t /\ p = q
  <2>1. Len(s) = Len(t)
    BY <1>2
  <2>2. \A n \in 1..Len(s) : s[n] = Append(s, p)[n] /\ t[n] = Append(t, q)[n]
    BY <2>1
  <2>3. p = Append(s, p)[Len(s) + 1] /\ q = Append(t, q)[Len(t) + 1]
    OBVIOUS
  <2> QED BY <1>2, <2>1, <2>2, <2>3
<1> QED BY <1>1, <1>2

(* An import keeps the histories apart: two derived keys agree exactly     *)
(* when the same secrets were imported (session.rs, import).               *)
LEMMA GrowDerived ==
    ASSUME DerivedGrown, KeysAgreeIffImportsAgree,
           NEW c \in derived, NEW psk \in Psks,
           derived' = derived \cup {Child(c, psk)}
    PROVE  DerivedGrown' /\ KeysAgreeIffImportsAgree'
<1> DEFINE d == Child(c, psk)
<1>1. /\ d.imports = Append(c.imports, psk)
      /\ d.transcript = TxImport(c.transcript, SessionKeyId(c.key))
      /\ c.imports \in Seq(Psks)
      /\ d.imports \in Seq(Psks)
  BY DEF Child, DerivedGrown
<1>2. DerivedGrown'
  <2> HIDE DEF d
  <2> SUFFICES ASSUME NEW a \in derived'
               PROVE  a.imports \in Seq(Psks) /\ Grown(a)'
    BY DEF DerivedGrown
  <2>1. CASE a \in derived
    BY <2>1 DEF DerivedGrown, Grown
  <2>2. CASE a = d
    BY <2>2, <1>1 DEF Grown, d
  <2> QED BY <2>1, <2>2 DEF d
<1>3. ASSUME NEW a \in derived
      PROVE  /\ a.key = d.key <=> a.imports = d.imports
             /\ a.key = d.key => a.transcript = d.transcript
  <2>1. a.imports \in Seq(Psks) /\ Grown(a)
    BY DEF DerivedGrown
  <2>2. CASE a = Root
    <3>1. a.key # d.key
      BY <2>2, ImportInjective
    <3>2. a.imports = <<>>
      BY <2>2 DEF Root
    <3>3. a.imports # d.imports
      BY <1>1, <3>2, AppendImports
    <3> QED BY <3>1, <3>3
  <2>3. ASSUME NEW b \in derived, NEW p \in Psks, a = Child(b, p)
        PROVE  /\ a.key = d.key <=> a.imports = d.imports
               /\ a.key = d.key => a.transcript = d.transcript
    <3>1. /\ a.imports = Append(b.imports, p)
          /\ a.transcript = TxImport(b.transcript, SessionKeyId(b.key))
          /\ b.imports \in Seq(Psks)
      BY <2>3 DEF Child, DerivedGrown
    <3>2. a.imports = d.imports <=> b.imports = c.imports /\ p = psk
      <4>1. Append(b.imports, p) = Append(c.imports, psk)
                => b.imports = c.imports /\ p = psk
        <5>1. b.imports \in Seq(Psks) /\ c.imports \in Seq(Psks)
          BY <1>1, <3>1
        <5> DEFINE x == b.imports
                   y == c.imports
        <5> HIDE DEF x, y
        <5>2. Append(x, p) = Append(y, psk) => x = y /\ p = psk
          BY <5>1, AppendImports DEF x, y
        <5> QED BY <5>2 DEF x, y
      <4> QED BY <1>1, <3>1, <4>1
    <3>3. /\ b.key = c.key <=> b.imports = c.imports
          /\ b.key = c.key => b.transcript = c.transcript
      BY DEF KeysAgreeIffImportsAgree
    <3>4. a.key = d.key => b.key = c.key /\ p = psk
      BY <2>3, ImportInjective
    <3>5. b.key = c.key /\ p = psk => a.key = d.key
      <4> SUFFICES ASSUME b.key = c.key, p = psk PROVE a.key = d.key
        OBVIOUS
      <4>1. b.transcript = c.transcript
        BY <3>3
      <4>2. /\ a.key = DeriveSessionKey(DeriveImportKey(b.key, p),
                         TxImport(b.transcript, SessionKeyId(b.key)))
            /\ d.key = DeriveSessionKey(DeriveImportKey(c.key, psk),
                         TxImport(c.transcript, SessionKeyId(c.key)))
        BY <2>3 DEF Child
      <4> QED BY <4>1, <4>2
    <3> QED BY <3>1, <3>2, <3>3, <3>4, <3>5, <1>1
  <2> QED BY <2>1, <2>2, <2>3 DEF Grown
<1>4. KeysAgreeIffImportsAgree'
  <2> HIDE DEF d
  <2> SUFFICES ASSUME NEW a \in derived', NEW b \in derived'
               PROVE  /\ a.key = b.key <=> a.imports = b.imports
                      /\ a.key = b.key => a.transcript = b.transcript
    BY DEF KeysAgreeIffImportsAgree
  <2>1. (a \in derived \/ a = d) /\ (b \in derived \/ b = d)
    BY DEF d
  <2>2. CASE a \in derived /\ b \in derived
    BY <2>2 DEF KeysAgreeIffImportsAgree
  <2> QED BY <2>1, <2>2, <1>3
<1> QED BY <1>2, <1>4

(* The session of a finished handshake (Session::new).                     *)
LEMMA FirstLegit ==
    /\ Legit(FirstSession, {Lineage(FirstSession)})
    /\ FirstSession.session_key.expired = TRUE
    /\ Lineage(FirstSession) = Root
<1>1. /\ FirstSession.session_key
            = NewExpiredKey(Root.key)
      /\ FirstSession.identifier = SessionKeyId(Root.key)
      /\ FirstSession.pk_binder
            = Some(DerivePkBinder(Root.key, HandshakeBinding))
      /\ FirstSession.channel_counter = 0
      /\ FirstSession.transcript = Root.transcript
      /\ FirstSession.imports = <<>>
      /\ DOMAIN FirstSession = {"session_key", "identifier", "pk_binder",
                   "channel_counter", "transcript", "imports"}
  BY Optional DEF FirstSession, NewSession, Root
<1>2. LET k == NewExpiredKey(Root.key)
      IN  /\ k.key = Root.key /\ k.expired = TRUE
          /\ DOMAIN k = {"key", "nonce", "expired"}
  BY DEF NewExpiredKey, NewKey, Expire
<1>3. Lineage(FirstSession) = Root
  BY <1>1, <1>2 DEF Lineage, Root
<1> QED BY <1>1, <1>2, <1>3, CounterMaxAssumption, MaxImportsAssumption
           DEF Legit

(* An accepted import gives a session with a derived key, bound to the     *)
(* keys of the handshake or to nothing, and bound only if it was bound     *)
(* before (session.rs, import).                                            *)
LEMMA ImportLegit ==
    ASSUME NEW s, NEW D, Legit(s, D), NEW psk, NEW binding \in BindingChoice,
           Len(s.imports) < MaxImports, ImportAccepted(s, psk, binding)
    PROVE  LET t == Imported(s, psk, binding)
           IN  /\ Legit(t, D \cup {Lineage(t)})
               /\ t.session_key.expired = TRUE
               /\ psk \in Psks
               /\ Lineage(t) = Child(Lineage(s), psk)
               /\ Len(t.imports) = Len(s.imports) + 1
               /\ t.pk_binder # None => s.pk_binder # None
<1> DEFINE t == Imported(s, psk, binding)
           d == Child(Lineage(s), psk)
<1>1. psk \in Psks
  BY DEF ImportAccepted
<1>2. /\ d.imports = Append(s.imports, psk)
      /\ d.transcript = TxImport(s.transcript, s.identifier)
      /\ d.key = DeriveSessionKey(DeriveImportKey(s.session_key.key, psk),
                                  d.transcript)
      /\ d = [imports |-> d.imports, key |-> d.key,
              transcript |-> d.transcript]
  BY DEF Child, Lineage, Legit
<1> HIDE DEF d
<1>3. /\ t.session_key = NewExpiredKey(d.key)
      /\ t.identifier = SessionKeyId(d.key)
      /\ t.pk_binder = IF binding = None THEN None
                       ELSE Some(DerivePkBinder(d.key, binding[1]))
      /\ t.channel_counter = 0
      /\ t.transcript = d.transcript
      /\ t.imports = d.imports
      /\ DOMAIN t = {"session_key", "identifier", "pk_binder",
                     "channel_counter", "transcript", "imports"}
  BY <1>2 DEF Imported, NewSession
<1>4. LET k == NewExpiredKey(d.key)
      IN  /\ k.key = d.key /\ k.expired = TRUE
          /\ DOMAIN k = {"key", "nonce", "expired"}
  BY DEF NewExpiredKey, NewKey, Expire
<1> HIDE DEF t
<1>5. Lineage(t) = d
  BY <1>2, <1>3, <1>4 DEF Lineage
<1>6. /\ d.imports \in Seq(Psks)
      /\ Len(d.imports) = Len(s.imports) + 1
      /\ Len(d.imports) <= MaxImports
  BY <1>1, <1>2, AppendImports, MaxImportsAssumption DEF Legit
<1>7. binding # None => /\ binding[1] = HandshakeBinding
                        /\ s.pk_binder # None
  <2> SUFFICES ASSUME binding # None
               PROVE  binding[1] = HandshakeBinding /\ s.pk_binder # None
    OBVIOUS
  <2>1. s.pk_binder = Some(DerivePkBinder(s.session_key.key, binding[1]))
    BY DEF ImportAccepted, BindingMatches
  <2>2. s.pk_binder # None
    BY <2>1, Optional
  <2>3. s.pk_binder = Some(DerivePkBinder(s.session_key.key,
                                          HandshakeBinding))
    BY <2>2 DEF Legit
  <2>4. DerivePkBinder(s.session_key.key, binding[1])
            = DerivePkBinder(s.session_key.key, HandshakeBinding)
    BY <2>1, <2>3 DEF Some
  <2>5. binding[1] = HandshakeBinding
    <3> DEFINE x == binding[1]
    <3> HIDE DEF x
    <3>1. <<"pk binder", s.session_key.key, x>>
              = <<"pk binder", s.session_key.key, HandshakeBinding>>
      BY <2>4 DEF DerivePkBinder, x
    <3>2. x = HandshakeBinding
      BY <3>1
    <3> QED BY <3>2 DEF x
  <2> QED BY <2>2, <2>5
<1>8. Legit(t, D \cup {Lineage(t)})
  BY <1>3, <1>4, <1>6, <1>7, CounterMaxAssumption DEF Legit
<1> QED BY <1>1, <1>3, <1>4, <1>5, <1>6, <1>7, <1>8 DEF t, d

-----------------------------------------------------------------------------
(* A key derived later does not disturb a session or a channel.            *)
LEMMA LaterKeys ==
    ASSUME NEW D, NEW E, D \subseteq E
    PROVE  /\ \A s : Legit(s, D) => Legit(s, E)
           /\ \A o : InMemory(o, D) => InMemory(o, E)
           /\ \A st : Stored(st, D) => Stored(st, E)
           /\ \A e, chs : Opened(e, chs, D) => Opened(e, chs, E)
<1>1. ASSUME NEW s, Legit(s, D) PROVE Legit(s, E)
  BY <1>1 DEF Legit
<1>2. ASSUME NEW o, InMemory(o, D) PROVE InMemory(o, E)
  BY <1>1, <1>2 DEF InMemory
<1>5. ASSUME NEW st, Stored(st, D) PROVE Stored(st, E)
  BY <1>1, <1>5 DEF Stored
<1>3. ASSUME NEW e, NEW c, Keyed(e, c, D) PROVE Keyed(e, c, E)
  BY <1>3 DEF Keyed
<1>4. ASSUME NEW e, NEW chs, Opened(e, chs, D) PROVE Opened(e, chs, E)
  BY <1>3, <1>4 DEF Opened
<1> QED BY <1>1, <1>2, <1>4, <1>5

(* An end whose session, storage and channels stay as they are.            *)
LEMMA OtherEnd ==
    ASSUME NEW e \in Ends, EndOK(e), derived \subseteq derived',
           session'[e] = session[e], storage'[e] = storage[e],
           channels'[e] = channels[e]
    PROVE  EndOK(e)'
BY LaterKeys DEF EndOK

(* A session lost in a crash, a refused call or a short buffer.            *)
LEMMA DropStep ==
    ASSUME IInv, NEW e \in Ends, Drop(e)
    PROVE  IInv'
<1>1. /\ derived' = derived /\ storage' = storage /\ channels' = channels
      /\ DOMAIN session' = Ends
      /\ session'[e] = None
      /\ \A f \in Ends : f # e => session'[f] = session[f]
  BY DEF Drop, IInv
<1>2. DerivedGrown' /\ KeysAgreeIffImportsAgree'
  BY <1>1 DEF IInv, DerivedGrown, Grown, KeysAgreeIffImportsAgree
<1>3. EndOK(e)'
  BY <1>1 DEF IInv, EndOK, InMemory, Linear
<1>4. \A f \in Ends : f # e => EndOK(f)'
  BY <1>1, OtherEnd DEF IInv
<1> QED BY <1>1, <1>2, <1>3, <1>4 DEF IInv

(* into_session of both ends.                                              *)
LEMMA InitIInv == Init => IInv
<1> SUFFICES ASSUME Init PROVE IInv
    OBVIOUS
<1>1. /\ DOMAIN session = Ends /\ DOMAIN storage = Ends
      /\ DOMAIN channels = Ends
      /\ derived = {Root}
  BY FirstLegit DEF Init
<1>2. DerivedGrown /\ KeysAgreeIffImportsAgree
  BY <1>1 DEF DerivedGrown, Grown, KeysAgreeIffImportsAgree, Root
<1>3. ASSUME NEW e \in Ends PROVE EndOK(e)
  <2>1. /\ session[e] = Some(FirstSession) /\ storage[e] = <<>>
        /\ channels[e] = <<>>
    BY DEF Init
  <2>2. /\ session[e] # None
        /\ session[e][1] = FirstSession
    BY <2>1, Optional
  <2>3. Legit(FirstSession, derived)
    BY <1>1, FirstLegit
  <2>4. 1..Len(channels[e]) = {} /\ 1..Len(storage[e]) = {}
    BY <2>1
  <2>5. InMemory(session[e], derived)
    BY <2>1, <2>2, <2>3, FirstLegit DEF InMemory
  <2>6. Opened(e, channels[e], derived)
    BY <2>1, <2>4 DEF Opened
  <2>7. Stored(storage[e], derived)
    BY <2>1, <2>4 DEF Stored
  <2>8. Linear(session[e], storage[e], channels[e])
    BY <2>4 DEF Linear, InOrder, After
  <2> QED BY <2>5, <2>6, <2>7, <2>8 DEF EndOK
<1> QED BY <1>1, <1>2, <1>3 DEF IInv

(* A channel has an identifier below the limit and the history of a        *)
(* derived session.                                                        *)
LEMMA ChannelTyped ==
    ASSUME IInv, NEW e \in Ends, NEW n \in 1..Len(channels[e])
    PROVE  /\ channels[e][n].channel_identifier \in 0 .. CounterMax - 1
           /\ channels[e][n].imports \in Seq(Psks)
           /\ Len(channels[e][n].imports) \in Nat
<1> DEFINE c == channels[e][n]
<1>1. Keyed(e, c, derived)
  BY DEF IInv, EndOK, Opened
<1> HIDE DEF c
<1>2. PICK d \in derived : c.imports = d.imports
  BY <1>1 DEF Keyed, KeyedBy
<1>3. d.imports \in Seq(Psks)
  BY DEF IInv, DerivedGrown
<1>4. c.channel_identifier \in 0 .. CounterMax - 1
  BY <1>1 DEF Keyed
<1> QED BY <1>2, <1>3, <1>4 DEF c

(* import: the new session counts its channels from zero, but has more     *)
(* imports than every channel opened before.                               *)
LEMMA ImportStep ==
    ASSUME IInv, NEW e \in Ends, NEW psk, NEW binding \in BindingChoice,
           Import(e, psk, binding)
    PROVE  IInv'
<1> DEFINE s == Held(e)
           t == Imported(s, psk, binding)
<1>1. /\ session[e] # None
      /\ Len(s.imports) < MaxImports
      /\ ImportAccepted(s, psk, binding)
      /\ derived' = derived \cup {Lineage(t)}
      /\ storage' = storage /\ channels' = channels
      /\ DOMAIN session' = Ends
      /\ session'[e] = Some(t)
      /\ \A f \in Ends : f # e => session'[f] = session[f]
  BY DEF Import, IInv, Live
<1>2. /\ Legit(s, derived)
      /\ Once(storage[e]) =>
            /\ InOrder(channels[e])
            /\ After(s, channels[e])
            /\ \A k \in 1..Len(storage[e]) : storage[e][k].loads # 0
  BY <1>1 DEF IInv, EndOK, InMemory, Linear, Held
<1>3. /\ Legit(t, derived')
      /\ t.session_key.expired = TRUE
      /\ psk \in Psks
      /\ Lineage(t) = Child(Lineage(s), psk)
      /\ Len(t.imports) = Len(s.imports) + 1
      /\ t.pk_binder # None => s.pk_binder # None
  <2>1. Len(s.imports) < MaxImports /\ ImportAccepted(s, psk, binding)
    BY <1>1
  <2>2. derived' = derived \cup {Lineage(t)}
    BY <1>1
  <2>3. Legit(s, derived)
    BY <1>2
  <2> HIDE DEF s
  <2> QED BY <2>1, <2>2, <2>3, ImportLegit
<1>4. s.imports \in Seq(Psks) /\ Lineage(s) \in derived
  BY <1>2 DEF Legit
<1> HIDE DEF s, t
<1>5. DerivedGrown' /\ KeysAgreeIffImportsAgree'
  BY <1>1, <1>3, <1>4, GrowDerived DEF IInv
<1>6. \A f \in Ends : f # e => EndOK(f)'
  BY <1>1, OtherEnd DEF IInv
<1>7. session'[e] # None /\ session'[e][1] = t
  BY <1>1, Optional
<1>8. ASSUME After(s, channels[e]), NEW n \in 1..Len(channels[e])
      PROVE  Before(channels[e][n], t.imports, t.channel_counter)
  <2>1. Before(channels[e][n], s.imports, s.channel_counter)
    BY <1>8 DEF After
  <2>2. Len(channels[e][n].imports) \in Nat
    BY ChannelTyped
  <2>3. Len(s.imports) \in Nat
    BY <1>4
  <2> QED BY <2>1, <2>2, <2>3, <1>3 DEF Before
<1>9. After(s, channels[e]) => After(t, channels[e])
  BY <1>3, <1>8 DEF After
<1>10. /\ InMemory(session'[e], derived')
       /\ Stored(storage'[e], derived')
       /\ Opened(e, channels'[e], derived')
  <2>1. derived \subseteq derived'
    BY <1>1
  <2>2. Stored(storage[e], derived) /\ Opened(e, channels[e], derived)
    BY DEF IInv, EndOK
  <2>3. Stored(storage[e], derived') /\ Opened(e, channels[e], derived')
    BY <2>1, <2>2, LaterKeys
  <2>4. InMemory(session'[e], derived')
    BY <1>1, <1>3, <1>7 DEF InMemory
  <2> QED BY <1>1, <2>3, <2>4
<1>11. EndOK(e)'
  <2>1. Once(storage[e]) => Linear(session'[e], storage[e], channels[e])
    BY <1>2, <1>7, <1>9 DEF Linear
  <2> QED BY <1>1, <1>10, <2>1 DEF EndOK
<1> QED BY <1>1, <1>5, <1>6, <1>11 DEF IInv

(* A sequence with one more element. *)
LEMMA AppendSeq ==
    ASSUME NEW s, s \in Seq({s[n] : n \in 1..Len(s)}), NEW x
    PROVE  LET t == Append(s, x)
           IN  /\ Len(s) \in Nat
               /\ Len(t) = Len(s) + 1
               /\ \A n \in 1..Len(s) : t[n] = s[n]
               /\ t[Len(s) + 1] = x
               /\ t \in Seq({t[n] : n \in 1..Len(t)})
<1> DEFINE S == {s[n] : n \in 1..Len(s)}
           U == S \cup {x}
           t == Append(s, x)
           V == {t[n] : n \in 1..Len(t)}
<1>0. s \in Seq(S)
  OBVIOUS
<1> HIDE DEF S
<1>1. s \in Seq(U) /\ x \in U
  BY <1>0
<1> HIDE DEF U
<1>2. /\ Len(s) \in Nat /\ t \in Seq(U)
      /\ Len(t) = Len(s) + 1
      /\ \A n \in 1..Len(s) : t[n] = s[n]
      /\ t[Len(s) + 1] = x
  BY <1>1
<1> HIDE DEF t
<1>3. \A n \in 1..Len(t) : t[n] \in V
  OBVIOUS
<1> HIDE DEF V
<1>4. t \in Seq(V)
  BY <1>2, <1>3
<1> QED BY <1>2, <1>4 DEF t, V

(* t are the copies st after a load of the copy k. *)
Reloads(st, k, t) ==
    /\ st \in Seq({st[l] : l \in 1..Len(st)})
    /\ k \in 1..Len(st)
    /\ DOMAIN st[k] = {"bytes", "loads"}
    /\ t = [st EXCEPT ![k].loads = @ + 1]

Recounted(st, k, t) ==
    /\ Len(t) = Len(st)
    /\ \A l \in 1..Len(st) : l # k => t[l] = st[l]
    /\ t[k].bytes = st[k].bytes
    /\ t[k].loads = st[k].loads + 1
    /\ DOMAIN t[k] = {"bytes", "loads"}
    /\ t \in Seq({t[l] : l \in 1..Len(t)})

(* The load of a copy is counted, and nothing else changed. *)
LEMMA CountLoad ==
    ASSUME NEW st, NEW k, NEW t, Reloads(st, k, t)
    PROVE  Recounted(st, k, t)
<1> DEFINE S == {st[l] : l \in 1..Len(st)}
           x == [st[k] EXCEPT !.loads = @ + 1]
           U == S \cup {x}
           V == {t[l] : l \in 1..Len(t)}
<1>0. st \in Seq(S) /\ k \in 1..Len(st) /\ DOMAIN st[k] = {"bytes", "loads"}
  BY DEF Reloads
<1>1. t = [st EXCEPT ![k] = x]
  BY DEF Reloads
<1>2. /\ x.bytes = st[k].bytes /\ x.loads = st[k].loads + 1
      /\ DOMAIN x = {"bytes", "loads"}
  BY <1>0
<1> HIDE DEF S, x
<1>3. st \in Seq(U) /\ x \in U
  BY <1>0
<1> HIDE DEF U
<1>4. /\ t \in Seq(U) /\ Len(t) = Len(st)
      /\ \A l \in 1..Len(st) : l # k => t[l] = st[l]
      /\ t[k] = x
  BY <1>0, <1>1, <1>3
<1>5. \A l \in 1..Len(t) : t[l] \in V
  OBVIOUS
<1> HIDE DEF V
<1>6. t \in Seq(V)
  BY <1>4, <1>5
<1> QED BY <1>2, <1>4, <1>6 DEF Recounted, V

(* serialize: the stored form keeps history, counter and binding.          *)
LEMMA SerializeStep ==
    ASSUME IInv, NEW e \in Ends, NEW binding, Serialize(e, binding)
    PROVE  IInv'
<1> DEFINE s == Held(e)
           t == Encoded(s)
           st == storage[e]
           x == [bytes |-> t, loads |-> 0]
           N == Len(st)
<1>1. /\ session[e] # None
      /\ derived' = derived /\ channels' = channels
      /\ DOMAIN session' = Ends /\ DOMAIN storage' = Ends
      /\ session'[e] = None
      /\ storage'[e] = Append(st, x)
      /\ \A f \in Ends : f # e => /\ session'[f] = session[f]
                                  /\ storage'[f] = storage[f]
  BY DEF Serialize, IInv, Live
<1>2. /\ Legit(s, derived)
      /\ Stored(st, derived)
      /\ Once(st) =>
            /\ InOrder(channels[e])
            /\ After(s, channels[e])
            /\ \A k \in 1..Len(st) : st[k].loads # 0
  BY <1>1 DEF IInv, EndOK, InMemory, Linear, Held
<1>4. /\ t.session_key = NewKey(s.session_key.key)
      /\ t.identifier = s.identifier /\ t.pk_binder = s.pk_binder
      /\ t.channel_counter = s.channel_counter
      /\ t.transcript = s.transcript /\ t.imports = s.imports
      /\ DOMAIN t = DOMAIN s
  BY <1>2 DEF Legit, Encoded, Recoded
<1>5. LET k == NewKey(s.session_key.key)
      IN  k.key = s.session_key.key /\ DOMAIN k = {"key", "nonce", "expired"}
  BY DEF NewKey
<1>3. x.bytes = t /\ x.loads = 0 /\ DOMAIN x = {"bytes", "loads"}
  OBVIOUS
<1> HIDE DEF s, t, x
<1>6. Lineage(t) = Lineage(s)
  BY <1>4, <1>5 DEF Lineage
<1>7. Legit(t, derived)
  BY <1>2, <1>4, <1>5, <1>6 DEF Legit
<1>8. After(s, channels[e]) => After(t, channels[e])
  BY <1>4 DEF After
<1>9. /\ N \in Nat
      /\ Len(storage'[e]) = N + 1
      /\ \A k \in 1..N : storage'[e][k] = st[k]
      /\ storage'[e][N + 1] = x
      /\ storage'[e] \in Seq({storage'[e][k] : k \in 1..Len(storage'[e])})
  <2>1. storage'[e] = Append(st, x)
    BY <1>1
  <2>2. st \in Seq({st[k] : k \in 1..Len(st)})
    BY <1>2 DEF Stored
  <2> HIDE DEF st
  <2> QED BY <2>1, <2>2, AppendSeq
<1> HIDE DEF st, N
<1>10. \A k \in 1 .. N + 1 : k \in 1..N \/ k = N + 1
  BY <1>9
<1>11. \A k \in 1..N : k \in 1 .. N + 1
  BY <1>9
<1>12. Stored(storage'[e], derived)
  <2>1. ASSUME NEW k \in 1 .. N + 1
        PROVE  /\ DOMAIN storage'[e][k] = {"bytes", "loads"}
               /\ Legit(storage'[e][k].bytes, derived)
               /\ storage'[e][k].loads \in Nat
    <3>1. CASE k \in 1..N
      BY <3>1, <1>2, <1>9 DEF Stored, N
    <3>2. CASE k = N + 1
      BY <3>2, <1>3, <1>7, <1>9
    <3> QED BY <3>1, <3>2, <1>10
  <2> QED BY <2>1, <1>9 DEF Stored
<1>13. ASSUME Once(storage'[e])
       PROVE  Linear(None, storage'[e], channels[e])
  <2>1. Once(st)
    BY <1>13, <1>9, <1>11 DEF Once, N
  <2>2. \A k \in 1 .. N + 1 : storage'[e][k].loads = 0 => k = N + 1
    BY <2>1, <1>2, <1>9, <1>10 DEF N
  <2>3. After(t, channels[e]) /\ InOrder(channels[e])
    BY <2>1, <1>2, <1>8
  <2>4. ASSUME NEW k \in 1 .. N + 1, storage'[e][k].loads = 0
        PROVE  /\ After(storage'[e][k].bytes, channels[e])
               /\ \A l \in 1 .. N + 1 : storage'[e][l].loads = 0 => k = l
    BY <2>4, <2>2, <2>3, <1>3, <1>9
  <2> QED BY <2>3, <2>4, <1>9 DEF Linear
<1>14. EndOK(e)'
  <2>1. InMemory(session'[e], derived')
    BY <1>1 DEF InMemory
  <2>2. Opened(e, channels'[e], derived')
    BY <1>1 DEF IInv, EndOK
  <2> QED BY <2>1, <2>2, <1>1, <1>12, <1>13 DEF EndOK
<1>15. \A f \in Ends : f # e => EndOK(f)'
  BY <1>1, OtherEnd DEF IInv
<1>16. DerivedGrown' /\ KeysAgreeIffImportsAgree'
  BY <1>1 DEF IInv, DerivedGrown, Grown, KeysAgreeIffImportsAgree
<1> QED BY <1>1, <1>14, <1>15, <1>16 DEF IInv

(* deserialize: what was stored is back, with its main key expired again,  *)
(* and the copy remains.  Loaded for the first time, it is the one copy    *)
(* that goes on from all channels.                                         *)
LEMMA DeserializeStep ==
    ASSUME IInv, NEW e \in Ends, NEW k \in DOMAIN storage[e], NEW binding,
           Deserialize(e, k, binding)
    PROVE  IInv'
<1> DEFINE st == storage[e]
           s == st[k].bytes
           t == Decoded(s)
<1>1. /\ derived' = derived /\ channels' = channels
      /\ DOMAIN session' = Ends /\ DOMAIN storage' = Ends
      /\ storage'[e] = [st EXCEPT ![k].loads = @ + 1]
      /\ session'[e] = Some(t)
      /\ \A f \in Ends : f # e => /\ session'[f] = session[f]
                                  /\ storage'[f] = storage[f]
  BY DEF Deserialize, IInv
<1>2. /\ Stored(st, derived)
      /\ Once(st) => Linear(session[e], st, channels[e])
  BY DEF IInv, EndOK
<1>3. /\ st \in Seq({st[l] : l \in 1..Len(st)})
      /\ k \in 1..Len(st)
  BY <1>2 DEF Stored
<1>4. /\ Legit(s, derived)
      /\ st[k].loads \in Nat
      /\ DOMAIN st[k] = {"bytes", "loads"}
  BY <1>2, <1>3 DEF Stored
<1>5. /\ Len(storage'[e]) = Len(st)
      /\ \A l \in 1..Len(st) : l # k => storage'[e][l] = st[l]
      /\ storage'[e][k].bytes = s
      /\ storage'[e][k].loads = st[k].loads + 1
      /\ DOMAIN storage'[e][k] = {"bytes", "loads"}
      /\ storage'[e] \in Seq({storage'[e][l] : l \in 1..Len(storage'[e])})
  <2>1. Reloads(st, k, storage'[e])
    BY <1>1, <1>3, <1>4 DEF Reloads
  <2>2. Recounted(st, k, storage'[e])
    BY <2>1, CountLoad, Zenon
  <2> QED BY <2>2 DEF Recounted
<1>6. /\ t.session_key = Expire(s.session_key)
      /\ t.identifier = s.identifier /\ t.pk_binder = s.pk_binder
      /\ t.channel_counter = s.channel_counter
      /\ t.transcript = s.transcript /\ t.imports = s.imports
      /\ DOMAIN t = DOMAIN s
  BY <1>4 DEF Legit, Decoded
<1>7. LET x == Expire(s.session_key)
      IN  /\ x.key = s.session_key.key
          /\ x.expired = TRUE
          /\ DOMAIN x = {"key", "nonce", "expired"}
  BY <1>4 DEF Legit, Expire
<1> HIDE DEF t
<1>8. Lineage(t) = Lineage(s)
  BY <1>6, <1>7 DEF Lineage
<1>9. Legit(t, derived)
  BY <1>4, <1>6, <1>7, <1>8 DEF Legit
<1>10. InMemory(session'[e], derived)
  <2>1. Some(t) # None /\ Some(t)[1] = t
    BY Optional
  <2> QED BY <2>1, <1>1, <1>6, <1>7, <1>9 DEF InMemory
<1>11. Stored(storage'[e], derived)
  <2>1. ASSUME NEW l \in 1..Len(st)
        PROVE  /\ DOMAIN storage'[e][l] = {"bytes", "loads"}
               /\ Legit(storage'[e][l].bytes, derived)
               /\ storage'[e][l].loads \in Nat
    <3>1. CASE l = k
      BY <3>1, <1>4, <1>5
    <3>2. CASE l # k
      BY <3>2, <1>2, <1>5 DEF Stored
    <3> QED BY <3>1, <3>2
  <2> QED BY <2>1, <1>5 DEF Stored
<1>12. ASSUME Once(storage'[e])
       PROVE  Linear(session'[e], storage'[e], channels[e])
  <2>1. st[k].loads = 0
    <3>1. storage'[e][k].loads <= 1
      BY <1>12, <1>3, <1>5 DEF Once
    <3> QED BY <3>1, <1>4, <1>5
  <2>2. Once(st)
    <3>1. ASSUME NEW l \in 1..Len(st) PROVE st[l].loads <= 1
      <4>1. CASE l = k
        BY <4>1, <2>1
      <4>2. CASE l # k
        BY <4>2, <1>12, <1>5 DEF Once
      <4> QED BY <4>1, <4>2
    <3> QED BY <3>1 DEF Once
  <2>3. /\ InOrder(channels[e])
        /\ After(s, channels[e])
        /\ \A l \in 1..Len(st) : st[l].loads = 0 => k = l
    BY <2>1, <2>2, <1>2, <1>3 DEF Linear
  <2>4. \A l \in 1..Len(st) : storage'[e][l].loads # 0
    <3> SUFFICES ASSUME NEW l \in 1..Len(st)
                 PROVE  storage'[e][l].loads # 0
      OBVIOUS
    <3>1. CASE l = k
      BY <3>1, <2>1, <1>5
    <3>2. CASE l # k
      BY <3>2, <2>3, <1>5
    <3> QED BY <3>1, <3>2
  <2>5. session'[e][1] = t
    BY <1>1, Optional
  <2>6. After(t, channels[e])
    BY <2>3, <1>6 DEF After
  <2> QED BY <2>3, <2>4, <2>5, <2>6, <1>5 DEF Linear
<1>13. EndOK(e)'
  <2>1. Opened(e, channels'[e], derived')
    BY <1>1 DEF IInv, EndOK
  <2> QED BY <2>1, <1>1, <1>10, <1>11, <1>12 DEF EndOK
<1>14. \A f \in Ends : f # e => EndOK(f)'
  BY <1>1, OtherEnd DEF IInv
<1>15. DerivedGrown' /\ KeysAgreeIffImportsAgree'
  BY <1>1 DEF IInv, DerivedGrown, Grown, KeysAgreeIffImportsAgree
<1> QED BY <1>1, <1>13, <1>14, <1>15 DEF IInv

(* The Transport made from a session has the keys of that session          *)
(* (transport.rs, Transport::new).                                         *)
LEMMA NewTransportKeyed ==
    ASSUME NEW e \in Ends, NEW s, NEW D, Legit(s, D),
           s.channel_counter < CounterMax
    PROVE  LET c == NewTransport(e, s)
           IN  /\ Keyed(e, c, D)
               /\ c.channel_identifier = s.channel_counter
               /\ c.imports = s.imports
               /\ c.bound = (s.pk_binder # None)
<1> DEFINE c == NewTransport(e, s)
           d == Lineage(s)
           K == s.session_key.key
<1>1. /\ c.channel_identifier = s.channel_counter
      /\ c.imports = s.imports
      /\ c.bound = (s.pk_binder # None)
      /\ c.send_key = NewKey(DeriveChannelKey(SendLabel(e), K, s.pk_binder,
                                              s.channel_counter))
      /\ c.recv_key = NewKey(DeriveChannelKey(RecvLabel(e), K, s.pk_binder,
                                              s.channel_counter))
  BY DEF NewTransport, SendLabel, RecvLabel
<1>2. d.key = K /\ d.imports = s.imports
  BY DEF Lineage
<1>3. \A m : NewKey(m).key = m
  BY DEF NewKey
<1> HIDE DEF c, d, K
<1>4. KeyedBy(e, c, d, s.pk_binder)
  BY <1>1, <1>2, <1>3 DEF KeyedBy
<1>5. /\ d \in D
      /\ s.pk_binder \in {None, Some(DerivePkBinder(d.key,
                                                    HandshakeBinding))}
      /\ s.channel_counter \in 0 .. CounterMax
  BY <1>2 DEF Legit, d, K
<1>6. c.channel_identifier \in 0 .. CounterMax - 1
  BY <1>1, <1>5, CounterMaxAssumption
<1>7. Keyed(e, c, D)
  BY <1>4, <1>5, <1>6 DEF Keyed
<1> QED BY <1>1, <1>7 DEF c

(* transport_channel: the new channel comes after all others of its end,   *)
(* and the session after the new channel.                                  *)
LEMMA ChannelStep ==
    ASSUME IInv, NEW e \in Ends, TransportChannel(e)
    PROVE  IInv'
<1> DEFINE s == session[e][1]
           t == [s EXCEPT !.channel_counter = @ + 1]
           c == NewTransport(e, s)
           chs == channels[e]
           N == Len(chs)
<1>1. /\ session[e] # None
      /\ s.channel_counter < CounterMax
      /\ derived' = derived /\ storage' = storage
      /\ DOMAIN session' = Ends /\ DOMAIN channels' = Ends
      /\ channels'[e] = Append(chs, c)
      /\ \A f \in Ends : f # e => /\ session'[f] = session[f]
                                  /\ channels'[f] = channels[f]
  BY DEF TransportChannel, IInv, Live, Held
<1>2. /\ session[e] = Some(s)
      /\ Legit(s, derived)
      /\ s.session_key.expired = TRUE
      /\ Once(storage[e]) =>
            /\ InOrder(chs)
            /\ After(s, chs)
            /\ \A k \in 1..Len(storage[e]) : storage[e][k].loads # 0
  BY <1>1 DEF IInv, EndOK, InMemory, Linear
<1>3. session'[e] = Some(t)
  <2>1. session'[e] = [session[e] EXCEPT ![1] = t]
    BY DEF TransportChannel, IInv
  <2>2. session'[e] = [Some(s) EXCEPT ![1] = t]
    BY <2>1, <1>2
  <2> HIDE DEF s, t
  <2> QED BY <2>2, Optional
<1>4. /\ t.session_key = s.session_key
      /\ t.identifier = s.identifier /\ t.pk_binder = s.pk_binder
      /\ t.channel_counter = s.channel_counter + 1
      /\ t.transcript = s.transcript /\ t.imports = s.imports
      /\ DOMAIN t = DOMAIN s
  BY <1>2 DEF Legit
<1>5. /\ Keyed(e, c, derived)
      /\ c.channel_identifier = s.channel_counter
      /\ c.imports = s.imports
      /\ c.bound = (s.pk_binder # None)
  BY <1>1, <1>2, NewTransportKeyed
<1>6. Opened(e, chs, derived)
  BY DEF IInv, EndOK
<1>7. /\ N \in Nat
      /\ Len(channels'[e]) = N + 1
      /\ \A n \in 1..N : channels'[e][n] = chs[n]
      /\ channels'[e][N + 1] = c
      /\ channels'[e] \in Seq({channels'[e][n] : n \in 1..Len(channels'[e])})
  <2>1. channels'[e] = Append(chs, c)
    BY <1>1
  <2>2. chs \in Seq({chs[n] : n \in 1..Len(chs)})
    BY <1>6 DEF Opened
  <2> HIDE DEF chs, c
  <2> QED BY <2>1, <2>2, AppendSeq
<1>8. s.channel_counter \in Nat /\ Len(s.imports) \in Nat
  <2>1. s.channel_counter \in 0..CounterMax /\ s.imports \in Seq(Psks)
    BY <1>2 DEF Legit
  <2> HIDE DEF s
  <2> QED BY <2>1, CounterMaxAssumption
<1>9. \A n \in 1..N : /\ chs[n].channel_identifier \in Nat
                      /\ Len(chs[n].imports) \in Nat
  <2> TAKE n \in 1..N
  <2>1. /\ chs[n].channel_identifier \in 0 .. CounterMax - 1
        /\ Len(chs[n].imports) \in Nat
    BY ChannelTyped
  <2> QED BY <2>1, CounterMaxAssumption
<1> HIDE DEF s, t, c, chs, N
<1>10. Legit(t, derived)
  <2>1. Lineage(t) = Lineage(s)
    BY <1>4 DEF Lineage
  <2>2. t.channel_counter \in 0..CounterMax
    <3>1. /\ t.channel_counter = s.channel_counter + 1
          /\ s.channel_counter < CounterMax /\ s.channel_counter \in Nat
      BY <1>1, <1>4, <1>8
    <3> QED BY <3>1, CounterMaxAssumption
  <2> QED BY <1>2, <1>4, <2>1, <2>2 DEF Legit
<1>11. \A n \in 1 .. N + 1 : n \in 1..N \/ n = N + 1
  BY <1>7
<1>12. Opened(e, channels'[e], derived)
  <2>1. \A n \in 1 .. N + 1 : Keyed(e, channels'[e][n], derived)
    BY <1>5, <1>6, <1>7, <1>11 DEF Opened, N
  <2> QED BY <2>1, <1>7 DEF Opened
<1>13. session'[e] # None /\ session'[e][1] = t
  BY <1>3, Optional
<1>14. ASSUME InOrder(chs), After(s, chs)
       PROVE  InOrder(channels'[e]) /\ After(t, channels'[e])
  <2>1. ASSUME NEW m \in 1 .. N + 1, NEW n \in 1 .. N + 1, m < n
        PROVE  /\ Before(channels'[e][m], channels'[e][n].imports,
                         channels'[e][n].channel_identifier)
               /\ channels'[e][n].bound => channels'[e][m].bound
    <3>1. m \in 1..N
      BY <2>1, <1>7
    <3>2. CASE n \in 1..N
      BY <2>1, <3>1, <3>2, <1>14, <1>7 DEF InOrder, N
    <3>3. CASE n = N + 1
      BY <3>1, <3>3, <1>14, <1>5, <1>7 DEF After, N
    <3> QED BY <3>2, <3>3, <1>11
  <2>2. ASSUME NEW n \in 1 .. N + 1
        PROVE  /\ Before(channels'[e][n], t.imports, t.channel_counter)
               /\ t.pk_binder # None => channels'[e][n].bound
    <3>1. CASE n \in 1..N
      <4>1. /\ Before(chs[n], s.imports, s.channel_counter)
            /\ s.pk_binder # None => chs[n].bound
        BY <3>1, <1>14 DEF After, N
      <4>2. Before(chs[n], t.imports, t.channel_counter)
        BY <3>1, <4>1, <1>4, <1>8, <1>9 DEF Before
      <4> QED BY <3>1, <4>1, <4>2, <1>4, <1>7
    <3>2. CASE n = N + 1
      <4>1. Before(c, t.imports, t.channel_counter)
        BY <1>4, <1>5, <1>8 DEF Before
      <4>2. t.pk_binder # None => c.bound
        BY <1>4, <1>5
      <4> QED BY <3>2, <4>1, <4>2, <1>7
    <3> QED BY <3>1, <3>2, <1>11
  <2> QED BY <2>1, <2>2, <1>7 DEF InOrder, After
<1>15. EndOK(e)'
  <2>1. InMemory(session'[e], derived)
    BY <1>2, <1>3, <1>4, <1>10, <1>13 DEF InMemory
  <2>2. Once(storage[e]) => Linear(session'[e], storage[e], channels'[e])
    BY <1>2, <1>13, <1>14 DEF Linear
  <2>3. Stored(storage[e], derived)
    BY DEF IInv, EndOK
  <2> QED BY <2>1, <2>2, <2>3, <1>1, <1>12 DEF EndOK
<1>16. \A f \in Ends : f # e => EndOK(f)'
  BY <1>1, OtherEnd DEF IInv
<1>17. DerivedGrown' /\ KeysAgreeIffImportsAgree'
  BY <1>1 DEF IInv, DerivedGrown, Grown, KeysAgreeIffImportsAgree
<1> QED BY <1>1, <1>15, <1>16, <1>17 DEF IInv

(* Every call of a Session, and a crash, keeps the invariant.              *)
LEMMA NextIInv == IInv /\ [Next]_vars => IInv'
<1> SUFFICES ASSUME IInv, [Next]_vars PROVE IInv'
    OBVIOUS
<1>1. CASE UNCHANGED vars
  <2>1. UNCHANGED <<session, storage, channels, derived>>
    BY <1>1 DEF vars
  <2>2. DerivedGrown' /\ KeysAgreeIffImportsAgree'
    BY <2>1 DEF IInv, DerivedGrown, Grown, KeysAgreeIffImportsAgree
  <2>3. \A e \in Ends : EndOK(e)'
    BY <2>1, OtherEnd DEF IInv
  <2> QED BY <2>1, <2>2, <2>3 DEF IInv
<1>2. ASSUME NEW e \in Ends, TransportChannel(e) PROVE IInv'
  BY <1>2, ChannelStep
<1>3. ASSUME NEW e \in Ends, Crash(e) PROVE IInv'
  BY <1>3, DropStep DEF Crash
<1>4. ASSUME NEW e \in Ends, NEW binding \in BindingChoice,
             Serialize(e, binding)
      PROVE  IInv'
  BY <1>4, SerializeStep
<1>5. ASSUME NEW e \in Ends, NEW binding \in BindingChoice,
             SerializeFailed(e, binding) \/ SerializeShort(e, binding)
      PROVE  IInv'
  BY <1>5, DropStep DEF SerializeFailed, SerializeShort
<1>6. ASSUME NEW e \in Ends, NEW binding \in BindingChoice,
             NEW k \in DOMAIN storage[e], Deserialize(e, k, binding)
      PROVE  IInv'
  BY <1>6, DeserializeStep
<1>7. ASSUME NEW e \in Ends, NEW binding \in BindingChoice,
             NEW psk \in Psks \cup ShortPsks, Import(e, psk, binding)
      PROVE  IInv'
  BY <1>7, ImportStep
<1>8. ASSUME NEW e \in Ends, NEW binding \in BindingChoice,
             NEW psk \in Psks \cup ShortPsks, ImportFailed(e, psk, binding)
      PROVE  IInv'
  BY <1>8, DropStep DEF ImportFailed
<1> QED
  BY <1>1, <1>2, <1>3, <1>4, <1>5, <1>6, <1>7, <1>8 DEF Next

(* The inductive invariant holds throughout. *)
THEOREM Invariance == Spec => []IInv
BY InitIInv, NextIInv, PTL DEF Spec

(* The channels of an end are a sequence. *)
LEMMA ChannelIndices ==
    ASSUME IInv, NEW e \in Ends
    PROVE  DOMAIN channels[e] = 1..Len(channels[e])
<1>1. channels[e] \in Seq({channels[e][n] : n \in 1..Len(channels[e])})
  BY DEF IInv, EndOK, Opened
<1> QED BY <1>1

(* A session in memory or in storage. *)
LEMMA CopiesLegit ==
    ASSUME IInv, NEW e \in Ends, NEW s \in Copies(e)
    PROVE  Legit(s, derived)
<1>1. DOMAIN storage[e] = 1..Len(storage[e])
  BY DEF IInv, EndOK, Stored
<1>2. CASE session[e] # None /\ s = session[e][1]
  BY <1>2 DEF IInv, EndOK, InMemory
<1>3. ASSUME NEW k \in DOMAIN storage[e], s = storage[e][k].bytes
      PROVE  Legit(s, derived)
  BY <1>1, <1>3 DEF IInv, EndOK, Stored
<1> QED BY <1>2, <1>3 DEF Copies

(* A history without a second load is a single line. *)
LEMMA OnceLinear ==
    ASSUME IInv, NEW e \in Ends, LoadedOnce(e)
    PROVE  InOrder(channels[e])
<1>1. DOMAIN storage[e] = 1..Len(storage[e])
  BY DEF IInv, EndOK, Stored
<1>2. Once(storage[e])
  BY <1>1 DEF LoadedOnce, Once
<1> QED BY <1>2 DEF IInv, EndOK, Linear

(* Keys agree exactly when the same secrets were imported in the same      *)
(* order, for any number of imports (session.rs, import).                  *)
THEOREM KeysFollowImports == Spec => []KeysAgreeIffImportsAgree
<1>1. IInv => KeysAgreeIffImportsAgree
  BY DEF IInv
<1> QED BY <1>1, Invariance, PTL

(* The main session key is expired wherever it is in memory (session.rs,   *)
(* new and deserialize).                                                   *)
THEOREM MainKeyNeverUsable == Spec => []MainKeyExpired
<1>1. IInv => MainKeyExpired
  BY DEF IInv, EndOK, InMemory, MainKeyExpired, Live, Held, Usable
<1> QED BY <1>1, Invariance, PTL

(* A session is bound to the key material of its handshake or to nothing   *)
(* (session.rs, import and deserialize).                                   *)
THEOREM NeverReboundElsewhere == Spec => []BoundToHandshakeKeys
<1>1. ASSUME IInv PROVE BoundToHandshakeKeys
  <2> SUFFICES ASSUME NEW e \in Ends, NEW s \in Copies(e)
               PROVE  s.pk_binder \in
                         {None, Some(DerivePkBinder(s.session_key.key,
                                                    HandshakeBinding))}
    BY DEF BoundToHandshakeKeys
  <2>1. Legit(s, derived)
    BY <1>1, CopiesLegit
  <2> QED BY <2>1 DEF Legit
<1> QED BY <1>1, Invariance, PTL

(* An unbound channel is never followed by a bound one of the same end, if *)
(* that end loads no stored copy twice (session.rs, import).               *)
THEOREM NeverRebound == Spec => []StrippedForGood
<1>1. ASSUME IInv PROVE StrippedForGood
  <2>1. \A e \in Ends : DOMAIN channels[e] = 1..Len(channels[e])
    BY <1>1, ChannelIndices
  <2> SUFFICES ASSUME NEW e \in Ends, LoadedOnce(e), NEW m \in 1..Len(channels[e]),
                      NEW n \in 1..Len(channels[e]), m < n,
                      channels[e][n].bound
               PROVE  channels[e][m].bound
    BY <2>1 DEF StrippedForGood
  <2>2. InOrder(channels[e])
    BY <1>1, OnceLinear
  <2> QED BY <2>2 DEF InOrder
<1> QED BY <1>1, Invariance, PTL

(* Every session, in memory or stored, and however often loaded, keeps its *)
(* counter within u64, the identifier of its key, and a key and transcript *)
(* derived by one of the ends from the secrets it imported (session.rs).   *)
THEOREM TypeCorrect == Spec => []TypeOK
<1>1. ASSUME IInv PROVE TypeOK
  <2> SUFFICES ASSUME NEW e \in Ends
               PROVE  /\ \A s \in Copies(e) : WellFormed(s)
                      /\ \A k \in DOMAIN storage[e] :
                            storage[e][k].loads \in Nat
                      /\ \A n \in DOMAIN channels[e] :
                            channels[e][n].channel_identifier
                                \in 0 .. CounterMax - 1
    BY DEF TypeOK
  <2>1. ASSUME NEW s \in Copies(e) PROVE WellFormed(s)
    <3>1. Legit(s, derived)
      BY <1>1, CopiesLegit
    <3> QED BY <3>1 DEF Legit, WellFormed
  <2>2. \A k \in DOMAIN storage[e] : storage[e][k].loads \in Nat
    <3>1. Stored(storage[e], derived)
      BY <1>1 DEF IInv, EndOK
    <3>2. DOMAIN storage[e] = 1..Len(storage[e])
      BY <3>1 DEF Stored
    <3> QED BY <3>1, <3>2 DEF Stored
  <2>3. ASSUME NEW n \in DOMAIN channels[e]
        PROVE  channels[e][n].channel_identifier \in 0 .. CounterMax - 1
    BY <1>1, ChannelIndices, ChannelTyped
  <2> QED BY <2>1, <2>2, <2>3
<1> QED BY <1>1, Invariance, PTL

(* Channel keys agree exactly when label, session key, binder and counter  *)
(* do (transport.rs, derive_channel_key).                                  *)
LEMMA ChannelKeyInjective ==
    ASSUME NEW l, NEW m, NEW n, NEW ck, NEW dk, NEW a, NEW b,
           a \in {None, Some(DerivePkBinder(ck, HandshakeBinding))},
           b \in {None, Some(DerivePkBinder(dk, HandshakeBinding))}
    PROVE  DeriveChannelKey(l, ck, a, m) = DeriveChannelKey(l, dk, b, n)
             <=> /\ m = n /\ ck = dk
                 /\ (a # None) <=> (b # None)
<1>1. DeriveChannelKey(l, ck, a, m) = DeriveChannelKey(l, dk, b, n)
        <=> ck = dk /\ a = b /\ m = n
  BY DEF DeriveChannelKey
<1>2. ck = dk => (a = b <=> ((a # None) <=> (b # None)))
  <2> SUFFICES ASSUME ck = dk
               PROVE  a = b <=> ((a # None) <=> (b # None))
    OBVIOUS
  <2> DEFINE o == Some(DerivePkBinder(ck, HandshakeBinding))
  <2>1. o # None
    BY Optional
  <2>2. a \in {None, o} /\ b \in {None, o}
    OBVIOUS
  <2> HIDE DEF o
  <2> QED BY <2>1, <2>2
<1> QED BY <1>1, <1>2

(* No key is ever handed out twice for sending, through any sequence of    *)
(* channels, imports, stores, loads and crashes, for any limit of the      *)
(* counter: not by both ends, and not by an end that loads no stored copy  *)
(* twice (session.rs, transport_channel).                                  *)
THEOREM ChannelKeysUnique == Spec => []SendKeysDistinct
<1>1. ASSUME IInv PROVE SendKeysDistinct
  <2> SUFFICES ASSUME NEW f \in Ends, NEW e \in Ends,
                      NEW m \in DOMAIN channels[f],
                      NEW n \in DOMAIN channels[e],
                      channels[f][m].send_key.key = channels[e][n].send_key.key
               PROVE  f = e /\ (m = n \/ ~LoadedOnce(e))
    BY DEF SendKeysDistinct
  <2>0. m \in 1..Len(channels[f]) /\ n \in 1..Len(channels[e])
    BY <1>1, ChannelIndices
  <2> DEFINE x == channels[f][m]
             y == channels[e][n]
  <2>1. Keyed(f, x, derived) /\ Keyed(e, y, derived)
    BY <1>1, <2>0 DEF IInv, EndOK, Opened
  <2>2. x.send_key.key = y.send_key.key
    OBVIOUS
  <2> HIDE DEF x, y
  <2>3. PICK c \in derived :
            \E a \in {None, Some(DerivePkBinder(c.key, HandshakeBinding))} :
                KeyedBy(f, x, c, a)
    BY <2>1 DEF Keyed
  <2>4. PICK a \in {None, Some(DerivePkBinder(c.key, HandshakeBinding))} :
            KeyedBy(f, x, c, a)
    BY <2>3
  <2>5. PICK d \in derived :
            \E b \in {None, Some(DerivePkBinder(d.key, HandshakeBinding))} :
                KeyedBy(e, y, d, b)
    BY <2>1 DEF Keyed
  <2>6. PICK b \in {None, Some(DerivePkBinder(d.key, HandshakeBinding))} :
            KeyedBy(e, y, d, b)
    BY <2>5
  <2>7. DeriveChannelKey(SendLabel(f), c.key, a, x.channel_identifier)
          = DeriveChannelKey(SendLabel(e), d.key, b, y.channel_identifier)
    BY <2>2, <2>4, <2>6 DEF KeyedBy
  <2>8. /\ SendLabel(f) = SendLabel(e)
        /\ x.channel_identifier = y.channel_identifier
        /\ c.key = d.key
    BY <2>7 DEF DeriveChannelKey
  <2>9. f = e
    <3>1. SendLabel("initiator") # SendLabel("responder")
      BY DEF SendLabel, I2R, R2I
    <3> QED BY <2>8, <3>1 DEF Ends
  <2>10. x.imports = y.imports
    BY <1>1, <2>4, <2>6, <2>8 DEF KeyedBy, IInv, KeysAgreeIffImportsAgree
  <2>11. /\ x.channel_identifier \in 0 .. CounterMax - 1
         /\ Len(x.imports) \in Nat
    BY <1>1, <2>0, ChannelTyped DEF x
  <2>12. x.channel_identifier \in Nat
    BY <2>11, CounterMaxAssumption
  <2>13. /\ ~Before(x, y.imports, y.channel_identifier)
         /\ ~Before(y, x.imports, x.channel_identifier)
    BY <2>8, <2>10, <2>11, <2>12 DEF Before
  <2> SUFFICES ASSUME LoadedOnce(e) PROVE f = e /\ m = n
    BY <2>9
  <2>14. ~(m < n) /\ ~(n < m)
    <3>1. InOrder(channels[e])
      BY <1>1, OnceLinear
    <3> QED BY <3>1, <2>0, <2>9, <2>13 DEF InOrder, x, y
  <2>15. Len(channels[f]) \in Nat /\ Len(channels[e]) \in Nat
    <3>1. ASSUME NEW g \in Ends PROVE Len(channels[g]) \in Nat
      <4>1. channels[g] \in Seq({channels[g][i] : i \in 1..Len(channels[g])})
        BY <1>1 DEF IInv, EndOK, Opened
      <4> QED BY <4>1, AppendSeq
    <3> QED BY <3>1
  <2>16. \A k, l \in Nat : \A i \in 1..k, j \in 1..l :
            ~(i < j) /\ ~(j < i) => i = j
    OBVIOUS
  <2>17. m = n
    BY <2>0, <2>14, <2>15, <2>16
  <2> QED BY <2>9, <2>17
<1> QED BY <1>1, Invariance, PTL

(* The channels of the two ends understand each other, in both directions  *)
(* or in neither, exactly when identifier, imports and binding agree       *)
(* (transport.rs, Transport::new and derive_channel_key).                  *)
THEOREM ChannelsPairUp == Spec => []ChannelsPair
<1>1. ASSUME IInv PROVE ChannelsPair
  <2> SUFFICES ASSUME NEW m \in DOMAIN channels["initiator"],
                      NEW n \in DOMAIN channels["responder"]
               PROVE  LET i == channels["initiator"][m]
                          r == channels["responder"][n]
                          same == /\ i.channel_identifier
                                        = r.channel_identifier
                                  /\ i.imports = r.imports
                                  /\ i.bound = r.bound
                      IN  /\ i.send_key.key = r.recv_key.key <=> same
                          /\ i.recv_key.key = r.send_key.key <=> same
    BY DEF ChannelsPair
  <2> DEFINE i == channels["initiator"][m]
             r == channels["responder"][n]
  <2>1. /\ m \in 1..Len(channels["initiator"])
        /\ n \in 1..Len(channels["responder"])
    BY <1>1, ChannelIndices DEF Ends
  <2>2. /\ Keyed("initiator", i, derived)
        /\ Keyed("responder", r, derived)
    BY <1>1, <2>1 DEF IInv, EndOK, Opened, Ends
  <2> HIDE DEF i, r
  <2>3. PICK c \in derived :
            \E a \in {None, Some(DerivePkBinder(c.key, HandshakeBinding))} :
                KeyedBy("initiator", i, c, a)
    BY <2>2 DEF Keyed
  <2>4. PICK a \in {None, Some(DerivePkBinder(c.key, HandshakeBinding))} :
            KeyedBy("initiator", i, c, a)
    BY <2>3
  <2>5. PICK d \in derived :
            \E b \in {None, Some(DerivePkBinder(d.key, HandshakeBinding))} :
                KeyedBy("responder", r, d, b)
    BY <2>2 DEF Keyed
  <2>6. PICK b \in {None, Some(DerivePkBinder(d.key, HandshakeBinding))} :
            KeyedBy("responder", r, d, b)
    BY <2>5
  <2> DEFINE same == /\ i.channel_identifier = r.channel_identifier
                     /\ i.imports = r.imports
                     /\ i.bound = r.bound
  <2>7. /\ i.imports = c.imports /\ i.bound = (a # None)
        /\ i.send_key.key = DeriveChannelKey(I2R, c.key, a,
                                             i.channel_identifier)
        /\ i.recv_key.key = DeriveChannelKey(R2I, c.key, a,
                                             i.channel_identifier)
    BY <2>4 DEF KeyedBy, SendLabel, RecvLabel
  <2>8. /\ r.imports = d.imports /\ r.bound = (b # None)
        /\ r.send_key.key = DeriveChannelKey(R2I, d.key, b,
                                             r.channel_identifier)
        /\ r.recv_key.key = DeriveChannelKey(I2R, d.key, b,
                                             r.channel_identifier)
    BY <2>6 DEF KeyedBy, SendLabel, RecvLabel
  <2>9. c.key = d.key <=> c.imports = d.imports
    BY <1>1 DEF IInv, KeysAgreeIffImportsAgree
  <2>10. same <=> /\ i.channel_identifier = r.channel_identifier
                  /\ c.key = d.key
                  /\ (a # None) <=> (b # None)
    BY <2>7, <2>8, <2>9
  <2>11. ASSUME NEW l
         PROVE  DeriveChannelKey(l, c.key, a, i.channel_identifier)
                  = DeriveChannelKey(l, d.key, b, r.channel_identifier)
                <=> same
    <3> DEFINE x == i.channel_identifier
               y == r.channel_identifier
               ck == c.key
               dk == d.key
    <3>0. /\ a \in {None, Some(DerivePkBinder(ck, HandshakeBinding))}
          /\ b \in {None, Some(DerivePkBinder(dk, HandshakeBinding))}
      OBVIOUS
    <3> HIDE DEF same, x, y, ck, dk
    <3>1. DeriveChannelKey(l, ck, a, x) = DeriveChannelKey(l, dk, b, y)
            <=> x = y /\ ck = dk /\ ((a # None) <=> (b # None))
      BY <3>0, ChannelKeyInjective
    <3> QED BY <3>1, <2>10 DEF x, y, ck, dk
  <2>12. i.send_key.key = r.recv_key.key <=> same
    BY <2>7, <2>8, <2>11
  <2>13. i.recv_key.key = r.send_key.key <=> same
    BY <2>7, <2>8, <2>11
  <2> QED BY <2>12, <2>13 DEF i, r
<1> QED BY <1>1, Invariance, PTL
=============================================================================
