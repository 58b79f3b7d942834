----------------------------- MODULE PsqSession -----------------------------
(***************************************************************************)
(* The long-term sessions of libcrux-psq (session.rs): the two ends of a   *)
(* finished handshake open transport channels, import secrets, store and   *)
(* load their sessions, and crash, independently of each other.            *)
(*                                                                         *)
(* import, serialize and the error returns of both consume the session     *)
(* object, but deserialize only borrows the stored bytes: the same copy    *)
(* can be loaded again, after a crash or while the session made from it is *)
(* in use.  What needs every copy to be loaded once says so (LoadedOnce).  *)
(*                                                                         *)
(* An end holds one Session object; a load replaces the one it holds.      *)
(* Objects do not share state, so channels opened by two of them side by   *)
(* side are also opened by one after the other, in another order, and no   *)
(* property that does without LoadedOnce depends on that order.            *)
(***************************************************************************)
EXTENDS AeadKey, PsqKeys

CONSTANTS
    HandshakeKey2,     \* the K2 both ends derived in the handshake
    HandshakeTx2,      \* and its transcript
    HandshakeBinding,  \* the long-term public keys the session is bound to
    OtherBindings,     \* other key material the application may present
    Psks,              \* importable secrets
    ShortPsks,         \* secrets of fewer than 32 bytes
    CounterMax,        \* u64::MAX, for the channel counter
    MaxImports         \* bound on the imports of one end

ASSUME CounterMaxAssumption == CounterMax \in Nat \ {0}

ASSUME MaxImportsAssumption == MaxImports \in Nat

ASSUME PsksAssumption == Psks \cap ShortPsks = {}

Ends == {"initiator", "responder"}

Bindings == {HandshakeBinding} \cup OtherBindings

BindingChoice == {None} \cup {Some(b) : b \in Bindings}

VARIABLES session,    \* end -> optional Session object in memory
          storage,    \* end -> the copies it stored, with their loads
          channels,   \* end -> Transport objects handed out so far
          derived     \* every session key ever derived, with its history

vars == <<session, storage, channels, derived>>

(* Session::new.  imports is the history of imported secrets.              *)
NewSession(k2, tx2, binding, imports) ==
    LET key == DeriveSessionKey(k2, tx2)
    IN  [session_key |-> NewExpiredKey(key),
         identifier |-> SessionKeyId(key),
         pk_binder |-> IF binding = None THEN None
                       ELSE Some(DerivePkBinder(key, binding[1])),
         channel_counter |-> 0,
         transcript |-> tx2,
         imports |-> imports]

FirstSession ==
    NewSession(<<"K2", HandshakeKey2>>, <<"tx2", HandshakeTx2>>,
               Some(HandshakeBinding), <<>>)

Lineage(s) == [imports |-> s.imports, key |-> s.session_key.key,
               transcript |-> s.transcript]

Init == /\ session = [e \in Ends |-> Some(FirstSession)]
        /\ storage = [e \in Ends |-> <<>>]
        /\ channels = [e \in Ends |-> <<>>]
        /\ derived = {Lineage(FirstSession)}

-----------------------------------------------------------------------------
Live(e) == session[e] # None

Held(e) == session[e][1]

I2R == "i2r channel key"

R2I == "r2i channel key"

(* Transport::new, for the end e of session s. *)
NewTransportSameLabels(e, s) ==
    LET key(label) == NewKey(DeriveChannelKey(label, s.session_key.key,
                                              s.pk_binder, s.channel_counter))
    IN  [send_key |-> key(I2R), recv_key |-> key(R2I),
         channel_identifier |-> s.channel_counter,
         imports |-> s.imports,
         bound |-> s.pk_binder # None]

NewTransport(e, s) ==
    LET key(label) == NewKey(DeriveChannelKey(label, s.session_key.key,
                                              s.pk_binder, s.channel_counter))
    IN  [send_key |-> key(IF e = "initiator" THEN I2R ELSE R2I),
         recv_key |-> key(IF e = "initiator" THEN R2I ELSE I2R),
         channel_identifier |-> s.channel_counter,
         imports |-> s.imports,
         bound |-> s.pk_binder # None]

(* transport_channel.  At the last counter value the derived channel is    *)
(* dropped, ReachedMaxChannels returned and nothing changed.               *)
TransportChannel(e) ==
    /\ Live(e)
    /\ Held(e).channel_counter < CounterMax
    /\ channels' = [channels EXCEPT ![e] =
                                    Append(@, NewTransport(e, Held(e)))]
    /\ session' = [session EXCEPT ![e][1].channel_counter = @ + 1]
    /\ UNCHANGED <<storage, derived>>

(* The key material presented is the one the session is bound to, or there *)
(* is neither.                                                             *)
BindingMatches(s, binding) ==
    IF binding = None
    THEN s.pk_binder = None
    ELSE s.pk_binder = Some(DerivePkBinder(s.session_key.key, binding[1]))

(* import takes a secret that is long enough, with the session's binding   *)
(* or with none, which strips the session of its binding.                  *)
ImportUnchecked(s, psk, binding) ==
    /\ psk \in Psks
    /\ binding # None => s.pk_binder # None

ImportRebinds(s, psk, binding) ==
    /\ psk \in Psks
    /\ binding # None => s.pk_binder = None \/ BindingMatches(s, binding)

ImportAccepted(s, psk, binding) ==
    /\ psk \in Psks
    /\ binding # None => BindingMatches(s, binding)

ImportedForgetsPsk(s, psk, binding) ==
    NewSession(DeriveImportKey(s.session_key.key, None),
               TxImport(s.transcript, s.identifier),
               binding, Append(s.imports, psk))

Imported(s, psk, binding) ==
    NewSession(DeriveImportKey(s.session_key.key, psk),
               TxImport(s.transcript, s.identifier),
               binding, Append(s.imports, psk))

Import(e, psk, binding) ==
    /\ Live(e)
    /\ Len(Held(e).imports) < MaxImports
    /\ ImportAccepted(Held(e), psk, binding)
    /\ session' = [session EXCEPT ![e] =
                                  Some(Imported(Held(e), psk, binding))]
    /\ derived' = derived \cup {Lineage(Imported(Held(e), psk, binding))}
    /\ UNCHANGED <<storage, channels>>

Drop(e) ==
    /\ session' = [session EXCEPT ![e] = None]
    /\ UNCHANGED <<storage, channels, derived>>

(* A refused import has consumed the session. *)
ImportFailed(e, psk, binding) ==
    /\ Live(e)
    /\ ~ImportAccepted(Held(e), psk, binding)
    /\ Drop(e)

(* The encoding keeps everything but the nonce and the expired flag of the *)
(* session key.                                                            *)
EncodedSkipsCounter(s) ==
    [s EXCEPT !.session_key = Recoded(@), !.channel_counter = 0]

Encoded(s) == [s EXCEPT !.session_key = Recoded(@)]

Serialize(e, binding) ==
    /\ Live(e)
    /\ BindingMatches(Held(e), binding)
    /\ storage' = [storage EXCEPT ![e] =
                       Append(@, [bytes |-> Encoded(Held(e)), loads |-> 0])]
    /\ session' = [session EXCEPT ![e] = None]
    /\ UNCHANGED <<channels, derived>>

(* serialize refused for its binding has consumed the session, and so has  *)
(* one that runs out of output buffer.                                     *)
SerializeFailed(e, binding) ==
    /\ Live(e)
    /\ ~BindingMatches(Held(e), binding)
    /\ Drop(e)

SerializeShort(e, binding) ==
    /\ Live(e)
    /\ BindingMatches(Held(e), binding)
    /\ Drop(e)

DecodedUnexpired(s) == s

Decoded(s) == [s EXCEPT !.session_key = Expire(@)]

(* deserialize of the copy k.  The bytes remain, with the right binding    *)
(* and with another, which fails and changes nothing.                      *)
Deserialize(e, k, binding) ==
    /\ BindingMatches(storage[e][k].bytes, binding)
    /\ session' = [session EXCEPT ![e] = Some(Decoded(storage[e][k].bytes))]
    /\ storage' = [storage EXCEPT ![e][k].loads = @ + 1]
    /\ UNCHANGED <<channels, derived>>

(* The process ends: what it held in memory is gone. *)
Crash(e) == Live(e) /\ Drop(e)

Next ==
    \E e \in Ends :
        \/ TransportChannel(e)
        \/ Crash(e)
        \/ \E binding \in BindingChoice :
              \/ Serialize(e, binding)
              \/ SerializeFailed(e, binding)
              \/ SerializeShort(e, binding)
              \/ \E k \in DOMAIN storage[e] : Deserialize(e, k, binding)
              \/ \E psk \in Psks \cup ShortPsks :
                    \/ Import(e, psk, binding)
                    \/ ImportFailed(e, psk, binding)

Spec == Init /\ [][Next]_vars

-----------------------------------------------------------------------------
(* The sessions of end e, in memory or in storage. *)
Copies(e) == {s[1] : s \in {session[e]} \ {None}}
                \cup {storage[e][k].bytes : k \in DOMAIN storage[e]}

(* The application never loaded a stored copy of end e twice.  Neither the *)
(* code nor its documentation asks for that: the warning of Session is     *)
(* about tls_serialize, which does not consume the session.                *)
LoadedOnce(e) == \A k \in DOMAIN storage[e] : storage[e][k].loads <= 1

WellFormed(s) ==
    /\ DOMAIN s = {"session_key", "identifier", "pk_binder",
                   "channel_counter", "transcript", "imports"}
    /\ s.channel_counter \in 0..CounterMax
    /\ s.imports \in Seq(Psks)
    /\ Len(s.imports) <= MaxImports
    /\ s.identifier = SessionKeyId(s.session_key.key)
    /\ Lineage(s) \in derived

(* Types: every session in memory or in storage, however often it was      *)
(* loaded, has a counter that never exceeds u64::MAX, the identifier of    *)
(* its key, and a key and transcript that one of the ends derived from the *)
(* secrets it imported (session.rs, Session).                              *)
TypeOK ==
    \A e \in Ends :
        /\ \A s \in Copies(e) : WellFormed(s)
        /\ \A k \in DOMAIN storage[e] : storage[e][k].loads \in Nat
        /\ \A n \in DOMAIN channels[e] :
              channels[e][n].channel_identifier \in 0 .. CounterMax - 1

(* Two sessions derived at either end have the same key exactly when the   *)
(* same secrets were imported in the same order, and then the same         *)
(* transcript: the chaining of K_S, psk and tx in Session::import loses    *)
(* nothing of the history.                                                 *)
KeysAgreeIffImportsAgree ==
    \A a, b \in derived :
        /\ a.key = b.key <=> a.imports = b.imports
        /\ a.key = b.key => a.transcript = b.transcript

(* No key is ever handed out twice for sending through any sequence of     *)
(* channels, imports, stores, loads and failures, never by both ends and   *)
(* by one end only if it loaded a stored copy twice: each Transport starts *)
(* its nonces at zero, so a repeated key repeats nonces                    *)
(* (Session::transport_channel, Transport::new).                           *)
SendKeysDistinct ==
    \A d, e \in Ends :
        \A m \in DOMAIN channels[d] :
            \A n \in DOMAIN channels[e] :
                channels[d][m].send_key.key = channels[e][n].send_key.key
                    => d = e /\ (m = n \/ ~LoadedOnce(e))

(* A channel of the initiator and one of the responder understand each     *)
(* other, in both directions or in neither, exactly when they have the     *)
(* same identifier and come from sessions with the same imports that are   *)
(* both still bound or both stripped (Transport::new, derive_channel_key). *)
ChannelsPair ==
    \A m \in DOMAIN channels["initiator"] :
        \A n \in DOMAIN channels["responder"] :
            LET i == channels["initiator"][m]
                r == channels["responder"][n]
                same == /\ i.channel_identifier = r.channel_identifier
                        /\ i.imports = r.imports
                        /\ i.bound = r.bound
            IN  /\ i.send_key.key = r.recv_key.key <=> same
                /\ i.recv_key.key = r.send_key.key <=> same

(* The main session key is expired wherever it is in memory, after any     *)
(* number of stores and loads, although the stored form has no such flag:  *)
(* it "should not be used for transport encryption directly".              *)
MainKeyExpired ==
    \A e \in Ends : Live(e) => \A nc \in BOOLEAN :
                                  ~Usable(Held(e).session_key, nc)

(* A session is bound to the key material of its handshake or to nothing:  *)
(* import, serialize and deserialize never bind it to anything else.       *)
BoundToHandshakeKeys ==
    \A e \in Ends : \A s \in Copies(e) :
        s.pk_binder \in
            {None, Some(DerivePkBinder(s.session_key.key, HandshakeBinding))}

(* "Once the binding has been stripped it cannot be re-established": after *)
(* an end has opened an unbound channel, every later one is unbound,       *)
(* unless the end went back to a copy it had loaded before (Session::      *)
(* import, deserialize).                                                   *)
StrippedForGood ==
    \A e \in Ends : LoadedOnce(e) =>
        \A m, n \in DOMAIN channels[e] :
            m < n /\ channels[e][n].bound => channels[e][m].bound
=============================================================================
