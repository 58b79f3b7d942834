------------------------- MODULE PsqTransportProofs -------------------------
(***************************************************************************)
(* Theorems about PsqTransport, for every set of channels and payloads and *)
(* every NonceMax.                                                         *)
(***************************************************************************)
EXTENDS PsqTransport, TLAPS

(* The keys of an object are those of its two streams, and their nonces    *)
(* count the payloads of the streams.                                      *)
KeysCount ==
    \A s \in Streams :
        /\ transport[s].channel_identifier = s[2]
        /\ transport[s].send_key.key = s
        /\ transport[s].recv_key.key = Peer(s)
        /\ transport[s].send_key.nonce = Len(sent[s])
        /\ transport[s].recv_key.nonce = Len(received[Peer(s)])

(* An emitted message carries, under its nonce, the payload of that index, *)
(* and no index that was lost.                                             *)
Faithful(m) ==
    /\ m.ct.key \in Streams
    /\ m.channel_identifier = m.ct.key[2]
    /\ m.ct.nonce \in 1..Len(sent[m.ct.key])
    /\ m.ct.pt = sent[m.ct.key][m.ct.nonce]
    /\ m.ct.nonce \notin lost[m.ct.key]

NetworkFaithful == \A m \in network : Faithful(m)

(* What was read of a stream is a prefix of what was encrypted on it.      *)
PrefixRead(s) ==
    /\ Len(received[s]) <= Len(sent[s])
    /\ \A n \in 1..Len(received[s]) : received[s][n] = sent[s][n]
    /\ lost[s] \subseteq 1..Len(sent[s])
    /\ \A n \in lost[s] : Len(received[s]) < n

ReceivedIsPrefix == \A s \in Streams : PrefixRead(s)

IInv == /\ TypeOK
        /\ KeysCount
        /\ NetworkFaithful
        /\ ReceivedIsPrefix
        /\ ReceiverExpiresLast

(* The stream a receive key reads (Transport::new) is another stream of    *)
(* the same channel, and its peer is the first one.                        *)
LEMMA PeerStream ==
    ASSUME NEW s \in Streams
    PROVE  /\ Peer(s) \in Streams
           /\ Peer(s) # s
           /\ Peer(Peer(s)) = s
           /\ s[2] \in Channels
           /\ s # NoStream
BY DEF Streams, Ends, Peer, NoStream

(* No two streams are read under the same receive key.                     *)
LEMMA PeerInjective ==
    ASSUME NEW s \in Streams, NEW t \in Streams, Peer(s) = Peer(t)
    PROVE  s = t
BY PeerStream

(* Transport::new establishes the invariant: fresh keys, nothing sent.     *)
LEMMA InitIInv == Init => IInv
<1> SUFFICES ASSUME Init PROVE IInv
    OBVIOUS
<1> USE DEF Init
<1>1. TypeOK
  BY NonceMaxAssumption, PeerStream DEF TypeOK, NewTransport, NewKey, Keys
<1>2. KeysCount
  BY PeerStream DEF KeysCount, NewTransport, NewKey
<1>3. NetworkFaithful
  BY DEF NetworkFaithful
<1>4. ReceivedIsPrefix
  BY DEF ReceivedIsPrefix, PrefixRead
<1>5. ReceiverExpiresLast
  BY DEF ReceiverExpiresLast, NewTransport, NewKey
<1> QED BY <1>1, <1>2, <1>3, <1>4, <1>5 DEF IInv

(* Only an emitted message opens a receive key, and it is then the next    *)
(* one of the stream.                                                      *)
LEMMA OpenedMessage ==
    ASSUME IInv, NEW s \in Streams, NEW m \in Arriving,
           Opens(transport[s].recv_key, NonceControl, m.ct)
    PROVE  /\ m.ct.nonce = Len(received[Peer(s)]) + 1
           /\ m.ct.nonce \in 1..Len(sent[Peer(s)])
           /\ m.ct.pt = sent[Peer(s)][m.ct.nonce]
           /\ m.ct.nonce \notin lost[Peer(s)]
<1>1. Peer(s) \in Streams /\ Peer(s) # NoStream
  BY PeerStream
<1>2. m.ct.key = Peer(s) /\ m.ct.nonce = Len(received[Peer(s)]) + 1
  <2>1. transport[s].recv_key \in Keys
    BY DEF IInv, TypeOK
  <2>2. /\ transport[s].recv_key.key = Peer(s)
        /\ transport[s].recv_key.nonce = Len(received[Peer(s)])
    BY DEF IInv, KeysCount
  <2> QED BY <2>1, <2>2 DEF Keys, Opens, IncrementNonce, NonceControl
<1>3. PICK n \in network : n.ct = m.ct
  <2>1. CASE m \in network
    BY <2>1
  <2>2. ASSUME NEW n \in network, NEW d \in Channels,
               m = [n EXCEPT !.channel_identifier = d]
        PROVE  n.ct = m.ct
    BY <2>2 DEF IInv, TypeOK, Messages
  <2>3. ASSUME NEW n \in network, m = [n EXCEPT !.ct.key = NoStream]
        PROVE  FALSE
    BY <2>3, <1>1, <1>2 DEF IInv, TypeOK, Messages
  <2> QED BY <2>1, <2>2, <2>3 DEF Arriving
<1> QED BY <1>2, <1>3 DEF IInv, NetworkFaithful, Faithful

(* write_message: the encryption that takes the next nonce keeps the       *)
(* invariant, whether its message is emitted or lost in a short buffer.    *)
LEMMA WriteStep ==
    ASSUME IInv, NEW s \in Streams, NEW payload \in Payloads,
           NEW fits \in BOOLEAN, WriteMessage(s, payload, fits)
    PROVE  IInv'
<1> DEFINE k == transport[s].send_key
           m == [channel_identifier |-> s[2],
                 ct |-> [key |-> s, nonce |-> Len(sent[s]) + 1, pt |-> payload]]
<1>1. /\ k \in Keys /\ k.nonce = Len(sent[s]) /\ k.key = s
      /\ k.nonce # NonceMax
      /\ Len(sent[s]) \in Nat /\ Len(sent[s]) < NonceMax
      /\ Len(received[s]) \in Nat
  <2>1. k \in Keys
    BY DEF IInv, TypeOK
  <2>2. k.nonce = Len(sent[s]) /\ k.key = s
    BY DEF IInv, KeysCount
  <2>3. k.nonce # NonceMax
    BY DEF WriteMessage, Usable, NonceControl
  <2>4. sent[s] \in Seq(Payloads) /\ received[s] \in Seq(Payloads)
    BY DEF IInv, TypeOK
  <2>5. k.nonce \in 0..NonceMax
    BY <2>1 DEF Keys
  <2> HIDE DEF k
  <2> QED BY <2>1, <2>2, <2>3, <2>4, <2>5, NonceMaxAssumption
<1>2. /\ sent' \in [Streams -> Seq(Payloads)]
      /\ sent'[s] = Append(sent[s], payload)
      /\ Len(sent'[s]) = Len(sent[s]) + 1
      /\ \A t \in Streams : t # s => sent'[t] = sent[t]
  BY DEF IInv, TypeOK, WriteMessage
<1>3. \A t \in Streams : \A n \in 1..Len(sent[t]) :
          n \in 1..Len(sent'[t]) /\ sent'[t][n] = sent[t][n]
  <2>1. sent[s] \in Seq(Payloads)
    BY DEF IInv, TypeOK
  <2>2. \A n \in 1..Len(sent[s]) :
            n \in 1..Len(sent'[s]) /\ sent'[s][n] = sent[s][n]
    BY <2>1, <1>1, <1>2
  <2> QED BY <2>2, <1>2
<1>4. sent'[s][Len(sent[s]) + 1] = payload
  BY <1>2 DEF IInv, TypeOK
<1>5. network' = IF fits THEN network \cup {m} ELSE network
  BY <1>1 DEF IInv, KeysCount, WriteMessage, Seal, IncrementNonce,
              NonceControl, Keys
<1>6. /\ transport'[s] = [transport[s] EXCEPT !.send_key =
                                       [k EXCEPT !.nonce = @ + 1]]
      /\ \A t \in Streams : t # s => transport'[t] = transport[t]
      /\ DOMAIN transport' = Streams
      /\ transport' = [t \in Streams |-> transport'[t]]
      /\ received' = received
  BY DEF IInv, TypeOK, WriteMessage, IncrementNonce, NonceControl
<1>7. /\ lost' \in [Streams -> SUBSET Nat]
      /\ \A t \in Streams : t # s => lost'[t] = lost[t]
      /\ lost'[s] = IF fits THEN lost[s] ELSE lost[s] \cup {Len(sent[s]) + 1}
  BY <1>1 DEF IInv, TypeOK, WriteMessage
<1>8. /\ transport'[s].send_key = [k EXCEPT !.nonce = @ + 1]
      /\ \A t \in Streams :
            /\ transport'[t].recv_key = transport[t].recv_key
            /\ transport'[t].channel_identifier = transport[t].channel_identifier
  BY <1>6 DEF IInv, TypeOK
<1>9. TypeOK'
  <2>1. m \in Messages
    <3>1. s[2] \in Nat
      BY PeerStream, ChannelsAssumption
    <3>2. Len(sent[s]) + 1 \in Nat
      BY <1>1
    <3> QED BY <3>1, <3>2 DEF Messages
  <2>2. network' \subseteq Messages
    BY <2>1, <1>5 DEF IInv, TypeOK
  <2>3. [k EXCEPT !.nonce = @ + 1] \in Keys
    BY <1>1, NonceMaxAssumption DEF Keys
  <2>4. transport' \in [Streams -> [send_key : Keys, recv_key : Keys,
                                    channel_identifier : Channels]]
    <3> SUFFICES ASSUME NEW t \in Streams
                 PROVE  transport'[t] \in [send_key : Keys, recv_key : Keys,
                                           channel_identifier : Channels]
      BY <1>6
    <3>1. transport[t] \in [send_key : Keys, recv_key : Keys,
                            channel_identifier : Channels]
      BY DEF IInv, TypeOK
    <3> QED BY <3>1, <2>3, <1>6
  <2> QED BY <2>2, <2>4, <1>2, <1>6, <1>7 DEF IInv, TypeOK
<1>10. KeysCount'
  <2> SUFFICES ASSUME NEW t \in Streams
               PROVE  /\ transport'[t].channel_identifier = t[2]
                      /\ transport'[t].send_key.key = t
                      /\ transport'[t].recv_key.key = Peer(t)
                      /\ transport'[t].send_key.nonce = Len(sent'[t])
                      /\ transport'[t].recv_key.nonce = Len(received'[Peer(t)])
    BY DEF KeysCount, Peer
  <2>1. CASE t = s
    <3>1. [k EXCEPT !.nonce = @ + 1].key = s
      BY <1>1 DEF Keys
    <3>2. [k EXCEPT !.nonce = @ + 1].nonce = Len(sent[s]) + 1
      BY <1>1 DEF Keys
    <3>3. /\ transport[s].channel_identifier = s[2]
          /\ transport[s].recv_key.key = Peer(s)
          /\ transport[s].recv_key.nonce = Len(received[Peer(s)])
      BY DEF IInv, KeysCount
    <3> HIDE DEF k
    <3> QED BY <2>1, <3>1, <3>2, <3>3, <1>2, <1>6, <1>8
  <2>2. CASE t # s
    <3>1. transport'[t] = transport[t] /\ sent'[t] = sent[t]
      BY <2>2, <1>2, <1>6
    <3>2. received' = received
      BY <1>6
    <3> QED BY <3>1, <3>2 DEF IInv, KeysCount
  <2> QED BY <2>1, <2>2
<1>11. NetworkFaithful'
  <2> SUFFICES ASSUME NEW n \in network'
               PROVE  Faithful(n)'
    BY DEF NetworkFaithful
  <2>1. CASE n \in network
    <3>1. Faithful(n)
      BY <2>1 DEF IInv, NetworkFaithful
    <3>2. n.ct.nonce \notin lost'[n.ct.key]
      BY <3>1, <1>1, <1>7 DEF Faithful
    <3> QED BY <3>1, <3>2, <1>3 DEF Faithful
  <2>2. CASE n = m /\ fits
    <3>1. n.ct.nonce \notin lost[s]
      BY <2>2, <1>1 DEF IInv, ReceivedIsPrefix, PrefixRead
    <3> QED BY <2>2, <3>1, <1>1, <1>2, <1>4, <1>7 DEF Faithful
  <2> QED BY <2>1, <2>2, <1>5
<1>12. ReceivedIsPrefix'
  <2> SUFFICES ASSUME NEW t \in Streams
               PROVE  PrefixRead(t)'
    BY DEF ReceivedIsPrefix
  <2>1. PrefixRead(t) /\ Len(received[t]) \in Nat /\ Len(sent[t]) \in Nat
    BY DEF IInv, ReceivedIsPrefix, TypeOK
  <2>2. CASE t # s
    <3>1. sent'[t] = sent[t] /\ lost'[t] = lost[t] /\ received' = received
      BY <2>2, <1>2, <1>6, <1>7
    <3> QED BY <2>1, <3>1 DEF PrefixRead
  <2>3. CASE t = s
    <3>1. \A n \in 1..Len(received[s]) : received[s][n] = sent'[s][n]
      BY <2>1, <2>3, <1>1, <1>3 DEF PrefixRead
    <3> QED BY <3>1, <2>1, <2>3, <1>1, <1>2, <1>6, <1>7 DEF PrefixRead
  <2> QED BY <2>2, <2>3
<1>13. ReceiverExpiresLast'
  BY <1>6, <1>8 DEF IInv, ReceiverExpiresLast, Peer
<1> QED BY <1>9, <1>10, <1>11, <1>12, <1>13 DEF IInv

(* read_message: a decryption that succeeds appends the next payload of    *)
(* its stream and keeps the invariant.                                     *)
LEMMA ReadStep ==
    ASSUME IInv, NEW s \in Streams, NEW m \in Arriving, ReadMessage(s, m)
    PROVE  IInv'
<1> DEFINE r == Peer(s)
           k == transport[s].recv_key
           j == [k EXCEPT !.nonce = @ + 1]
<1>1. r \in Streams
  BY PeerStream
<1>2. /\ k \in Keys /\ k.nonce = Len(received[r]) /\ k.key = r
      /\ ~k.expired /\ k.nonce # NonceMax
  BY DEF IInv, TypeOK, KeysCount, ReadMessage, Usable, NonceControl
<1>3. /\ m.ct.nonce = Len(received[r]) + 1
      /\ m.ct.nonce \in 1..Len(sent[r])
      /\ m.ct.pt = sent[r][m.ct.nonce]
      /\ m.ct.nonce \notin lost[r]
  BY OpenedMessage DEF ReadMessage
<1>4. received[r] \in Seq(Payloads) /\ sent[r] \in Seq(Payloads)
  BY <1>1 DEF IInv, TypeOK
<1>5. m.ct.pt \in Payloads
  BY <1>3, <1>4
<1>6. /\ received' \in [Streams -> Seq(Payloads)]
      /\ received'[r] = Append(received[r], m.ct.pt)
      /\ \A t \in Streams : t # r => received'[t] = received[t]
  BY <1>1, <1>5 DEF IInv, TypeOK, ReadMessage
<1>7. Len(received'[r]) = Len(received[r]) + 1
  BY <1>4, <1>5, <1>6
<1>8. /\ transport' = [t \in Streams |-> transport'[t]]
      /\ transport'[s] = [transport[s] EXCEPT !.recv_key = j]
      /\ \A t \in Streams : t # s => transport'[t] = transport[t]
  BY DEF IInv, TypeOK, ReadMessage, IncrementNonce, NonceControl
<1>9. j \in Keys /\ j.nonce = Len(received[r]) + 1 /\ j.key = r /\ ~j.expired
  BY <1>2, NonceMaxAssumption DEF Keys
<1> HIDE DEF j, k
<1>10. /\ transport'[s].send_key = transport[s].send_key
       /\ transport'[s].recv_key = j
       /\ transport'[s].channel_identifier = transport[s].channel_identifier
  BY <1>8 DEF IInv, TypeOK
<1>11. sent' = sent /\ lost' = lost /\ network' = network
  BY DEF ReadMessage
<1>12. TypeOK'
  <2>1. ASSUME NEW t \in Streams
        PROVE  transport'[t] \in [send_key : Keys, recv_key : Keys,
                                  channel_identifier : Channels]
    <3>1. transport[t] \in [send_key : Keys, recv_key : Keys,
                            channel_identifier : Channels]
      BY DEF IInv, TypeOK
    <3> QED BY <3>1, <1>8, <1>9
  <2>2. transport' \in [Streams -> [send_key : Keys, recv_key : Keys,
                                    channel_identifier : Channels]]
    BY <2>1, <1>8
  <2> QED BY <2>2, <1>6, <1>11 DEF IInv, TypeOK
<1>13. KeysCount'
  <2> SUFFICES ASSUME NEW t \in Streams
               PROVE  /\ transport'[t].channel_identifier = t[2]
                      /\ transport'[t].send_key.key = t
                      /\ transport'[t].recv_key.key = Peer(t)
                      /\ transport'[t].send_key.nonce = Len(sent[t])
                      /\ transport'[t].recv_key.nonce = Len(received'[Peer(t)])
    BY <1>11 DEF KeysCount, Peer
  <2>1. /\ transport[t].channel_identifier = t[2]
        /\ transport[t].send_key.key = t
        /\ transport[t].recv_key.key = Peer(t)
        /\ transport[t].send_key.nonce = Len(sent[t])
        /\ transport[t].recv_key.nonce = Len(received[Peer(t)])
    BY DEF IInv, KeysCount
  <2>2. CASE t = s
    BY <2>1, <2>2, <1>7, <1>9, <1>10
  <2>3. CASE t # s
    <3>1. Peer(t) \in Streams /\ Peer(t) # r
      BY <2>3, PeerStream, PeerInjective
    <3> QED BY <2>1, <2>3, <3>1, <1>6, <1>8
  <2> QED BY <2>2, <2>3
<1>14. NetworkFaithful'
  BY <1>11 DEF IInv, NetworkFaithful, Faithful
<1>15. ReceivedIsPrefix'
  <2> SUFFICES ASSUME NEW t \in Streams
               PROVE  PrefixRead(t)'
    BY DEF ReceivedIsPrefix
  <2>1. PrefixRead(t)
    BY DEF IInv, ReceivedIsPrefix
  <2>2. CASE t # r
    BY <2>1, <2>2, <1>6, <1>11 DEF PrefixRead
  <2>3. CASE t = r
    <3>1. Len(received'[r]) <= Len(sent[r])
      BY <1>3, <1>4, <1>7
    <3>2. ASSUME NEW n \in 1..Len(received'[r])
          PROVE  received'[r][n] = sent[r][n]
      <4>1. CASE n = Len(received[r]) + 1
        BY <4>1, <1>3, <1>4, <1>5, <1>6
      <4>2. CASE n # Len(received[r]) + 1
        <5>1. n \in 1..Len(received[r])
          BY <4>2, <1>4, <1>7
        <5>2. received'[r][n] = received[r][n]
          BY <5>1, <1>4, <1>5, <1>6
        <5> QED BY <5>1, <5>2, <2>1, <2>3 DEF PrefixRead
      <4> QED BY <4>1, <4>2
    <3>3. ASSUME NEW n \in lost[r]
          PROVE  Len(received'[r]) < n
      <4>1. Len(received[r]) < n /\ n \in Nat
        BY <2>1, <2>3, <1>1 DEF PrefixRead, IInv, TypeOK
      <4>2. n # Len(received[r]) + 1
        BY <1>3
      <4> QED BY <4>1, <4>2, <1>4, <1>7
    <3> QED BY <3>1, <3>2, <3>3, <2>1, <2>3, <1>11 DEF PrefixRead
  <2> QED BY <2>2, <2>3
<1>16. ReceiverExpiresLast'
  <2> SUFFICES ASSUME NEW t \in Streams, transport'[t].recv_key.expired
               PROVE  Len(received'[Peer(t)]) = NonceMax
    BY DEF ReceiverExpiresLast, Peer
  <2>1. t # s
    BY <1>9, <1>10
  <2>2. Peer(t) \in Streams /\ Peer(t) # r
    BY <2>1, PeerStream, PeerInjective
  <2> QED BY <2>1, <2>2, <1>6, <1>8 DEF IInv, ReceiverExpiresLast
<1> QED BY <1>12, <1>13, <1>14, <1>15, <1>16 DEF IInv

(* A failed decryption leaves the key, and with it everything, as it was.  *)
LEMMA FailedReadChangesNothing ==
    ASSUME IInv, NEW s \in Streams, NEW m \in Arriving, ReadFailed(s, m)
    PROVE  UNCHANGED vars
<1> DEFINE k == transport[s].recv_key
<1>1. k \in Keys
  BY DEF IInv, TypeOK
<1>2. DecryptFailed(k, NonceControl) = k
  BY <1>1 DEF DecryptFailed, IncrementNonce, NonceControl, Keys
<1>3. transport' = transport
  BY <1>2 DEF IInv, TypeOK, ReadFailed
<1> QED BY <1>3 DEF ReadFailed, vars

(* Setting the expired flag of a key (increment_nonce at NONCE_MAX) leaves *)
(* its key material and nonce alone.                                       *)
LEMMA ExpireKey ==
    ASSUME NEW k \in Keys
    PROVE  /\ Expire(k) \in Keys
           /\ Expire(k).key = k.key
           /\ Expire(k).nonce = k.nonce
BY DEF Keys, Expire

(* An encrypt that returns KeyExpired changes at most the expired flag of  *)
(* the send key.                                                           *)
LEMMA WriteRefusedStep ==
    ASSUME IInv, NEW s \in Streams, WriteRefused(s)
    PROVE  IInv'
<1> DEFINE k == transport[s].send_key
           e == Expire(k)
<1>1. k \in Keys /\ e \in Keys /\ e.key = k.key /\ e.nonce = k.nonce
  BY ExpireKey DEF IInv, TypeOK
<1>2. /\ transport' = [t \in Streams |-> transport'[t]]
      /\ transport'[s] = [transport[s] EXCEPT !.send_key = e]
      /\ \A t \in Streams : t # s => transport'[t] = transport[t]
      /\ UNCHANGED <<network, sent, lost, received>>
  BY DEF IInv, TypeOK, WriteRefused
<1> HIDE DEF e
<1>3. /\ transport'[s].send_key = e
      /\ \A t \in Streams :
            /\ transport'[t].recv_key = transport[t].recv_key
            /\ transport'[t].channel_identifier = transport[t].channel_identifier
  BY <1>2 DEF IInv, TypeOK
<1>4. \A t \in Streams :
         /\ transport'[t].send_key.key = transport[t].send_key.key
         /\ transport'[t].send_key.nonce = transport[t].send_key.nonce
  BY <1>1, <1>2, <1>3
<1>5. TypeOK'
  <2>1. ASSUME NEW t \in Streams
        PROVE  transport'[t] \in [send_key : Keys, recv_key : Keys,
                                  channel_identifier : Channels]
    <3>1. transport[t] \in [send_key : Keys, recv_key : Keys,
                            channel_identifier : Channels]
      BY DEF IInv, TypeOK
    <3> QED BY <3>1, <1>1, <1>2
  <2>2. transport' \in [Streams -> [send_key : Keys, recv_key : Keys,
                                    channel_identifier : Channels]]
    BY <2>1, <1>2
  <2> QED BY <2>2, <1>2 DEF IInv, TypeOK
<1>6. KeysCount' /\ ReceiverExpiresLast'
  BY <1>2, <1>3, <1>4 DEF IInv, KeysCount, ReceiverExpiresLast, Peer
<1>7. NetworkFaithful' /\ ReceivedIsPrefix'
  BY <1>2 DEF IInv, NetworkFaithful, Faithful, ReceivedIsPrefix, PrefixRead
<1> QED BY <1>5, <1>6, <1>7 DEF IInv

(* A decrypt_out that returns KeyExpired changes at most the expired flag  *)
(* of a receive key whose nonces were all used.                            *)
LEMMA ReadRefusedStep ==
    ASSUME IInv, NEW s \in Streams, NEW m \in Arriving, ReadRefused(s, m)
    PROVE  IInv'
<1> DEFINE k == transport[s].recv_key
           e == Expire(k)
<1>1. k \in Keys /\ e \in Keys /\ e.key = k.key /\ e.nonce = k.nonce
  BY ExpireKey DEF IInv, TypeOK
<1>2. Len(received[Peer(s)]) = NonceMax
  BY DEF IInv, KeysCount, ReceiverExpiresLast, ReadRefused, Usable, NonceControl
<1>3. /\ transport' = [t \in Streams |-> transport'[t]]
      /\ transport'[s] = [transport[s] EXCEPT !.recv_key = e]
      /\ \A t \in Streams : t # s => transport'[t] = transport[t]
      /\ UNCHANGED <<network, sent, lost, received>>
  BY DEF IInv, TypeOK, ReadRefused
<1> HIDE DEF e
<1>4. /\ transport'[s].recv_key = e
      /\ \A t \in Streams :
            /\ transport'[t].send_key = transport[t].send_key
            /\ transport'[t].channel_identifier = transport[t].channel_identifier
  BY <1>3 DEF IInv, TypeOK
<1>5. \A t \in Streams :
         /\ transport'[t].recv_key.key = transport[t].recv_key.key
         /\ transport'[t].recv_key.nonce = transport[t].recv_key.nonce
  BY <1>1, <1>3, <1>4
<1>6. TypeOK'
  <2>1. ASSUME NEW t \in Streams
        PROVE  transport'[t] \in [send_key : Keys, recv_key : Keys,
                                  channel_identifier : Channels]
    <3>1. transport[t] \in [send_key : Keys, recv_key : Keys,
                            channel_identifier : Channels]
      BY DEF IInv, TypeOK
    <3> QED BY <3>1, <1>1, <1>3
  <2>2. transport' \in [Streams -> [send_key : Keys, recv_key : Keys,
                                    channel_identifier : Channels]]
    BY <2>1, <1>3
  <2> QED BY <2>2, <1>3 DEF IInv, TypeOK
<1>7. KeysCount'
  <2> SUFFICES ASSUME NEW t \in Streams
               PROVE  /\ transport'[t].channel_identifier = t[2]
                      /\ transport'[t].send_key.key = t
                      /\ transport'[t].recv_key.key = Peer(t)
                      /\ transport'[t].send_key.nonce = Len(sent'[t])
                      /\ transport'[t].recv_key.nonce = Len(received'[Peer(t)])
    BY DEF KeysCount, Peer
  <2> QED BY <1>3, <1>4, <1>5 DEF IInv, KeysCount
<1>8. ReceiverExpiresLast'
  BY <1>2, <1>3 DEF IInv, ReceiverExpiresLast, Peer
<1>9. NetworkFaithful' /\ ReceivedIsPrefix'
  BY <1>3 DEF IInv, NetworkFaithful, Faithful, ReceivedIsPrefix, PrefixRead
<1> QED BY <1>6, <1>7, <1>8, <1>9 DEF IInv

(* Every call of a Transport object keeps the invariant.                   *)
LEMMA NextIInv == IInv /\ [Next]_vars => IInv'
<1> SUFFICES ASSUME IInv, [Next]_vars PROVE IInv'
    OBVIOUS
<1>1. ASSUME UNCHANGED vars PROVE IInv'
  <2>1. UNCHANGED <<transport, network, sent, received, lost>>
    BY <1>1 DEF vars
  <2>2. TypeOK' /\ KeysCount'
    BY <2>1 DEF IInv, TypeOK, KeysCount, Peer
  <2>3. NetworkFaithful' /\ ReceivedIsPrefix'
    BY <2>1 DEF IInv, NetworkFaithful, Faithful, ReceivedIsPrefix, PrefixRead
  <2>4. ReceiverExpiresLast'
    BY <2>1 DEF IInv, ReceiverExpiresLast, Peer
  <2> QED BY <2>2, <2>3, <2>4 DEF IInv
<1>2. ASSUME NEW s \in Streams, NEW payload \in Payloads, NEW fits \in BOOLEAN,
             WriteMessage(s, payload, fits)
      PROVE  IInv'
  BY <1>2, WriteStep
<1>3. ASSUME NEW s \in Streams, WriteRefused(s) PROVE IInv'
  BY <1>3, WriteRefusedStep
<1>4. ASSUME NEW s \in Streams, NEW m \in Arriving, ReadMessage(s, m)
      PROVE  IInv'
  BY <1>4, ReadStep
<1>5. ASSUME NEW s \in Streams, NEW m \in Arriving, ReadFailed(s, m)
      PROVE  IInv'
  BY <1>1, <1>5, FailedReadChangesNothing
<1>6. ASSUME NEW s \in Streams, NEW m \in Arriving, ReadRefused(s, m)
      PROVE  IInv'
  BY <1>6, ReadRefusedStep
<1> QED BY <1>1, <1>2, <1>3, <1>4, <1>5, <1>6 DEF Next

(* The inductive invariant holds throughout. *)
THEOREM Invariance == Spec => []IInv
BY InitIInv, NextIInv, PTL DEF Spec

(* Objects, messages and histories keep their types; nonces stay within    *)
(* NONCE_MAX (aead.rs, increment_nonce).                                   *)
THEOREM TypeCorrect == Spec => []TypeOK
<1>1. IInv => TypeOK
  BY DEF IInv
<1> QED BY <1>1, Invariance, PTL

(* No two emitted messages share a key and a nonce, for any number of      *)
(* channels and messages (aead.rs, encrypt).                               *)
THEOREM NoncesUnique == Spec => []NonceNeverReused
<1>1. IInv => NonceNeverReused
  <2> SUFFICES ASSUME IInv, NEW m \in network, NEW n \in network,
                      m.ct.key = n.ct.key, m.ct.nonce = n.ct.nonce
               PROVE  m = n
    BY DEF NonceNeverReused
  <2>1. m.ct.pt = n.ct.pt /\ m.channel_identifier = n.channel_identifier
    BY DEF IInv, NetworkFaithful, Faithful
  <2>2. m \in Messages /\ n \in Messages
    BY DEF IInv, TypeOK
  <2>3. m.ct = n.ct
    BY <2>1, <2>2 DEF Messages
  <2> QED BY <2>1, <2>2, <2>3 DEF Messages
<1> QED BY <1>1, Invariance, PTL

(* A message lost after its encryption stalls its stream for good          *)
(* (transport.rs, write_message).                                          *)
THEOREM LostWriteStalls == Spec => []LostWriteStallsStream
<1>1. IInv => LostWriteStallsStream
  BY DEF IInv, ReceivedIsPrefix, PrefixRead, LostWriteStallsStream
<1> QED BY <1>1, Invariance, PTL

(* Nothing that arrives expires a receive key before all its nonces were   *)
(* used by messages really read (aead.rs, decrypt_out).                    *)
THEOREM ReceiverNotExhausted == Spec => []ReceiverExpiresLast
<1>1. IInv => ReceiverExpiresLast
  BY DEF IInv
<1> QED BY <1>1, Invariance, PTL

(* Under the invariant, every call of a Transport object is a step of the  *)
(* in-order channel or leaves it unchanged.                                *)
LEMMA StepImplements ==
    IInv /\ [Next]_vars => [Abstract!Next]_<<sent, received>>
<1> SUFFICES ASSUME IInv, [Next]_vars,
                    ~(UNCHANGED <<sent, received>>)
             PROVE  Abstract!Next
    OBVIOUS
<1>1. ASSUME NEW s \in Streams, NEW payload \in Payloads, NEW fits \in BOOLEAN,
             WriteMessage(s, payload, fits)
      PROVE  Abstract!Next
  BY <1>1 DEF WriteMessage, Abstract!Next, Abstract!Send
<1>2. ASSUME NEW s \in Streams, NEW m \in Arriving, ReadMessage(s, m)
      PROVE  Abstract!Next
  <2>1. Peer(s) \in Streams
    BY PeerStream
  <2>2. /\ m.ct.nonce = Len(received[Peer(s)]) + 1
        /\ m.ct.nonce \in 1..Len(sent[Peer(s)])
        /\ m.ct.pt = sent[Peer(s)][m.ct.nonce]
    BY <1>2, OpenedMessage DEF ReadMessage
  <2>3. Len(received[Peer(s)]) \in Nat /\ Len(sent[Peer(s)]) \in Nat
    BY <2>1 DEF IInv, TypeOK
  <2>4. Abstract!Receive(Peer(s))
    BY <1>2, <2>2, <2>3 DEF ReadMessage, Abstract!Receive
  <2> QED BY <2>1, <2>4 DEF Abstract!Next
<1> QED BY <1>1, <1>2
        DEF Next, vars, WriteRefused, ReadFailed, ReadRefused

(* A PSQ transport channel implements in-order delivery without gaps,      *)
(* repetition or invention, over a network that loses, repeats, reorders   *)
(* and damages messages, for any number of channels.                       *)
THEOREM ImplementsInOrderChannel == Spec => DeliversInOrder
<1>1. Init => Abstract!Init
  BY DEF Init, Abstract!Init
<1> QED BY <1>1, StepImplements, Invariance, PTL
        DEF Spec, DeliversInOrder, Abstract!Spec
=============================================================================
