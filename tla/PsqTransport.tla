---------------------------- MODULE PsqTransport ----------------------------
(***************************************************************************)
(* The transport channels of libcrux-psq (session/transport.rs) between    *)
(* the two ends of one session, over a network that loses, repeats,        *)
(* reorders and damages messages.                                          *)
(*                                                                         *)
(* A stream s = <<e, c>> is what end e writes on channel c; transport[s]   *)
(* is the object it is written with, which reads the stream Peer(s).  The  *)
(* send key of the one object is the receive key of the other; PsqSession  *)
(* shows that the keys derived from a session are distinct for every       *)
(* stream, so the stream itself stands for its key here.  sent, lost and   *)
(* received record the history of the calls.                               *)
(***************************************************************************)
EXTENDS AeadKey, Sequences

CONSTANTS Channels,          \* channel identifiers, naturals
          Payloads

ASSUME ChannelsAssumption == Channels \subseteq Nat

Ends == {"initiator", "responder"}

Streams == Ends \X Channels

Peer(s) == <<IF s[1] = "initiator" THEN "responder" ELSE "initiator", s[2]>>

NoStream == <<"none", 0>>    \* the key of no stream

VARIABLES transport,  \* stream -> the Transport object writing it
          network,    \* every message ever emitted
          sent,       \* stream -> payloads encrypted so far
          lost,       \* stream -> indices encrypted but never emitted
          received    \* stream -> payloads handed to the reader so far

vars == <<transport, network, sent, lost, received>>

Keys == [key : Streams, nonce : 0..NonceMax, expired : BOOLEAN]

Messages == [channel_identifier : Nat,
             ct : [key : Streams \cup {NoStream}, nonce : Nat, pt : Payloads]]

(* Nonces are counted by the channel: the default build, without           *)
(* nonce-control.                                                          *)
NonceControl == FALSE

NewTransport(s) == [send_key |-> NewKey(s),
                    recv_key |-> NewKey(Peer(s)),
                    channel_identifier |-> s[2]]

Init == /\ transport = [s \in Streams |-> NewTransport(s)]
        /\ network = {}
        /\ sent = [s \in Streams |-> <<>>]
        /\ lost = [s \in Streams |-> {}]
        /\ received = [s \in Streams |-> <<>>]

-----------------------------------------------------------------------------
(* write_message.  The nonce moves on when the payload is encrypted; a     *)
(* message that then does not fit the output buffer is dropped and never   *)
(* emitted.  An over-long payload is refused before anything happens.      *)
WriteMessage(s, payload, fits) ==
    LET k == transport[s].send_key
        m == [channel_identifier |-> transport[s].channel_identifier,
              ct |-> Seal(k, NonceControl, payload)]
    IN  /\ Usable(k, NonceControl)
        /\ transport' = [transport EXCEPT ![s].send_key =
                                          IncrementNonce(@, NonceControl)]
        /\ network' = IF fits THEN network \cup {m} ELSE network
        /\ sent' = [sent EXCEPT ![s] = Append(@, payload)]
        /\ lost' = IF fits THEN lost
                   ELSE [lost EXCEPT ![s] = @ \cup {Len(sent[s]) + 1}]
        /\ UNCHANGED received

(* write_message on a key that has used up its nonces: ReachedMaxMessages. *)
WriteRefused(s) ==
    /\ ~Usable(transport[s].send_key, NonceControl)
    /\ transport' = [transport EXCEPT ![s].send_key = Expire(@)]
    /\ UNCHANGED <<network, sent, lost, received>>

(* What a reader may be handed: an emitted message, at any time and any    *)
(* number of times, intact or with its identifier or ciphertext damaged.   *)
Arriving ==
    network \cup {[m EXCEPT !.channel_identifier = c] :
                     m \in network, c \in Channels}
            \cup {[m EXCEPT !.ct.key = NoStream] : m \in network}

(* read_message past its early returns: the identifier matches and the     *)
(* output buffer is long enough.  Undecodable bytes, IdentifierMismatch    *)
(* and OutputBufferShort change nothing.                                   *)
Accepts(s, m) == m.channel_identifier = transport[s].channel_identifier

ReadMessage(s, m) ==
    LET k == transport[s].recv_key
    IN  /\ Accepts(s, m)
        /\ Usable(k, NonceControl)
        /\ Opens(k, NonceControl, m.ct)
        /\ transport' = [transport EXCEPT ![s].recv_key =
                                          IncrementNonce(@, NonceControl)]
        /\ received' = [received EXCEPT ![Peer(s)] = Append(@, m.ct.pt)]
        /\ UNCHANGED <<network, sent, lost>>

(* CryptoError: the nonce is restored. *)
ReadFailed(s, m) ==
    LET k == transport[s].recv_key
    IN  /\ Accepts(s, m)
        /\ Usable(k, NonceControl)
        /\ ~Opens(k, NonceControl, m.ct)
        /\ transport' = [transport EXCEPT ![s].recv_key =
                                          DecryptFailed(@, NonceControl)]
        /\ UNCHANGED <<network, sent, lost, received>>

(* ReachedMaxMessages: every nonce has been used, the key expires. *)
ReadRefused(s, m) ==
    /\ Accepts(s, m)
    /\ ~Usable(transport[s].recv_key, NonceControl)
    /\ transport' = [transport EXCEPT ![s].recv_key = Expire(@)]
    /\ UNCHANGED <<network, sent, lost, received>>

Next ==
    \E s \in Streams :
        \/ \E payload \in Payloads, fits \in BOOLEAN :
               WriteMessage(s, payload, fits)
        \/ WriteRefused(s)
        \/ \E m \in Arriving : \/ ReadMessage(s, m)
                               \/ ReadFailed(s, m)
                               \/ ReadRefused(s, m)

Spec == Init /\ [][Next]_vars

(* The application keeps asking for a message until an intact copy of it   *)
(* arrives, as the documentation of Transport suggests.                    *)
Fairness ==
    \A s \in Streams : WF_vars(\E m \in network : ReadMessage(s, m))

-----------------------------------------------------------------------------
(* Objects and histories have their types; no nonce exceeds NONCE_MAX.     *)
TypeOK ==
    /\ sent \in [Streams -> Seq(Payloads)]
    /\ received \in [Streams -> Seq(Payloads)]
    /\ lost \in [Streams -> SUBSET Nat]
    /\ network \subseteq Messages
    /\ transport \in [Streams -> [send_key : Keys, recv_key : Keys,
                                  channel_identifier : Channels]]

(* No two emitted messages share a key and a nonce: encrypt increments the *)
(* nonce before every use and refuses to pass NONCE_MAX, in both           *)
(* directions and on all channels.                                         *)
NonceNeverReused ==
    \A m, n \in network :
        m.ct.key = n.ct.key /\ m.ct.nonce = n.ct.nonce => m = n

(* A message lost between encryption and emission stalls its stream for    *)
(* good: write_message has already moved the send nonce, and the receiver  *)
(* never gets past the hole, whatever arrives.                             *)
LostWriteStallsStream ==
    \A s \in Streams : \A n \in lost[s] : Len(received[s]) < n

(* Damaged, repeated or foreign messages never shut a channel down early:  *)
(* decrypt_out expires the receive key only when every nonce was used by a *)
(* message that was really read.                                           *)
ReceiverExpiresLast ==
    \A s \in Streams :
        transport[s].recv_key.expired => Len(received[Peer(s)]) = NonceMax

(* The channel implements in-order delivery without gaps, repetition or    *)
(* invention, on every stream, whatever the network does.                  *)
Abstract == INSTANCE InOrderChannel

DeliversInOrder == Abstract!Spec

(* A failed decryption does not de-synchronise the ends (documentation of  *)
(* Transport): a payload whose predecessors were all emitted is eventually *)
(* read, however many damaged or stale messages are read in between.       *)
EventuallyDelivered ==
    \A s \in Streams, n \in 1..NonceMax :
        (Len(sent[s]) >= n /\ \A l \in lost[s] : l > n)
            ~> (Len(received[s]) >= n)
=============================================================================
