-------------------------- MODULE HpkeContextProofs --------------------------
(***************************************************************************)
(* The contexts of HPKE never seal twice under a key and a nonce, and a    *)
(* receiver opens what one sender sealed, for any number of configurations,*)
(* clones, contexts and messages.                                          *)
(*                                                                         *)
(* A key holds, as the record of what went into it, the encapsulation, and *)
(* that the place in a PRNG's stream it was drawn from.  The invariant     *)
(* follows a place from the seed to the ciphertext: seeds are given out    *)
(* once, a place is drawn once, so two senders have different keys; and    *)
(* one sender's ciphertexts carry the numbers below its own.               *)
(***************************************************************************)
EXTENDS HpkeContext, TLAPS

Keys == {u.key : u \in SetupInputs}
Infos == {u.info : u \in SetupInputs}
Psks == {u.psk : u \in SetupInputs}
PskIds == {u.psk_id : u \in SetupInputs}
Peers == {u.peer : u \in SetupInputs} \cup {None}

Hpkes == [mode : STRING, kem : STRING, aead : STRING, prng : [seed : Nat, at : Nat]]

SharedSecrets == [enc : Nat \X Nat, to : Keys, from : Peers]

Secrets == [suite : STRING \X STRING, zz : SharedSecrets, psk : Psks,
            context : STRING \X PskIds \X Infos]

Ctxs == [key : {"key"} \X Secrets, nonce : {"base_nonce"} \X Secrets,
         exporter : {"exp"} \X Secrets, seq : Nat, aead : STRING]

Abouts == [zz : SharedSecrets, mode : STRING, info : Infos, psk : Psks,
           psk_id : PskIds]

Messages == Aads \X Plaintexts

Contexts == [ctx : Ctxs, about : Abouts, log : Seq(Messages), live : BOOLEAN]

Ciphertexts == [key : {"key"} \X Secrets,
                nonce : ({"base_nonce"} \X Secrets) \X Nat,
                aad : Aads, pt : Plaintexts]

TypeInv ==
    /\ hpke \in [Instances -> Hpkes \cup {None}]
    /\ seeds \in Nat
    /\ senders \in Seq(Contexts)
    /\ receivers \in Seq(Contexts)
    /\ wire \in Seq(Ciphertexts)

(* The place in a PRNG's stream that a key goes back to. *)
Enc(key) == key[2].zz.enc

AboutOf(key) == [zz |-> key[2].zz, mode |-> key[2].context[1],
                 info |-> key[2].context[3], psk |-> key[2].psk,
                 psk_id |-> key[2].context[2]]

(* A context's parts come from one secret, and its number counts its log. *)
Coherent(c) ==
    /\ c.ctx.nonce = <<"base_nonce", c.ctx.key[2]>>
    /\ c.about = AboutOf(c.ctx.key)
    /\ c.ctx.seq = Len(c.log) /\ c.ctx.seq <= SeqMax

ContextsInv ==
    /\ \A s \in DOMAIN senders : Coherent(senders[s])
    /\ \A r \in DOMAIN receivers : Coherent(receivers[r])

SeedsInv ==
    /\ \A i \in Instances : hpke[i] # None => hpke[i].prng.seed < seeds
    /\ \A i, j \in Instances :
          hpke[i] # None /\ hpke[j] # None /\ hpke[i].prng.seed = hpke[j].prng.seed
             => i = j

PlacesInv ==
    /\ \A s \in DOMAIN senders : Enc(senders[s].ctx.key)[1] < seeds
    /\ \A s \in DOMAIN senders, i \in Instances :
          hpke[i] # None /\ Enc(senders[s].ctx.key)[1] = hpke[i].prng.seed
             => Enc(senders[s].ctx.key)[2] < hpke[i].prng.at
    /\ \A s, t \in DOMAIN senders :
          Enc(senders[s].ctx.key) = Enc(senders[t].ctx.key) => s = t

(* The ciphertext is the one that c made at its place in the log. *)
Made(w, c) ==
    /\ w.key = c.ctx.key
    /\ w.nonce[1] = c.ctx.nonce
    /\ w.nonce[2] < Len(c.log)
    /\ c.log[w.nonce[2] + 1] = <<w.aad, w.pt>>

From(w, s) == Made(w, senders[s])

WireInv == \A n \in DOMAIN wire : \E s \in DOMAIN senders : From(wire[n], s)

(* What a receiver opened is the beginning of what sender s sealed. *)
Follows(c, s) ==
    /\ c.ctx.key = senders[s].ctx.key
    /\ Len(c.log) <= Len(senders[s].log)
    /\ \A k \in 1 .. Len(c.log) : c.log[k] = senders[s].log[k]

Matched(c) == c.log # <<>> => \E s \in DOMAIN senders : Follows(c, s)

ReceiversInv == \A r \in DOMAIN receivers : Matched(receivers[r])

IInv == /\ TypeInv /\ ContextsInv /\ SeedsInv /\ PlacesInv
        /\ WireInv /\ SealsUnderFreshNonces /\ ReceiversInv

-----------------------------------------------------------------------------
(* What Append does to a sequence, element by element. *)
LEMMA AppendFacts ==
    ASSUME NEW S, NEW q \in Seq(S), NEW e \in S
    PROVE  /\ Append(q, e) \in Seq(S)
           /\ Len(q) \in Nat /\ DOMAIN q = 1 .. Len(q)
           /\ Len(Append(q, e)) = Len(q) + 1
           /\ DOMAIN Append(q, e) = 1 .. Len(q) + 1
           /\ \A k \in 1 .. Len(q) : Append(q, e)[k] = q[k]
           /\ Append(q, e)[Len(q) + 1] = e
  OBVIOUS

(* The place that a context's key goes back to. *)
LEMMA EncType ==
    ASSUME NEW c \in Contexts
    PROVE  /\ Enc(c.ctx.key) = <<Enc(c.ctx.key)[1], Enc(c.ctx.key)[2]>>
           /\ Enc(c.ctx.key)[1] \in Nat /\ Enc(c.ctx.key)[2] \in Nat
<1>1. c.ctx \in Ctxs
  BY DEF Contexts
<1>2. c.ctx.key[2] \in Secrets
  BY <1>1 DEF Ctxs
<1>3. c.ctx.key[2].zz \in SharedSecrets
  BY <1>2 DEF Secrets
<1>4. Enc(c.ctx.key) \in Nat \X Nat
  BY <1>3 DEF SharedSecrets, Enc
<1> QED
  BY <1>4

(* A context that was just set up is coherent and has sealed nothing. *)
LEMMA NewContext ==
    ASSUME NEW cfg \in Hpkes, NEW zz \in SharedSecrets, NEW info \in Infos,
           NEW psk \in Psks, NEW psk_id \in PskIds
    PROVE  LET c == Context(cfg, zz, info, psk, psk_id)
           IN  /\ c \in Contexts /\ Coherent(c) /\ c.log = <<>>
               /\ Enc(c.ctx.key) = zz.enc
<1> DEFINE secret == [suite |-> <<cfg.kem, cfg.aead>>, zz |-> zz, psk |-> psk,
                      context |-> <<cfg.mode, psk_id, info>>]
           ctx == [key |-> <<"key", secret>>, nonce |-> <<"base_nonce", secret>>,
                   exporter |-> <<"exp", secret>>, seq |-> 0, aead |-> cfg.aead]
           about == [zz |-> zz, mode |-> cfg.mode, info |-> info, psk |-> psk,
                     psk_id |-> psk_id]
           c == [ctx |-> ctx, about |-> about, log |-> <<>>, live |-> TRUE]
<1>1. Context(cfg, zz, info, psk, psk_id) = c
  BY DEF Context, KeySchedule
<1>2. secret \in Secrets /\ about \in Abouts
  BY DEF Secrets, Abouts, Hpkes
<1>3. /\ secret.zz = zz /\ secret.psk = psk /\ secret.context[1] = cfg.mode
      /\ secret.context[2] = psk_id /\ secret.context[3] = info
  OBVIOUS
<1> HIDE DEF secret
<1>4. about = AboutOf(<<"key", secret>>)
  BY <1>3 DEF AboutOf
<1>5. ctx \in Ctxs
  BY <1>2 DEF Ctxs, Hpkes
<1> HIDE DEF about
<1>6. <<>> \in Seq(Messages) /\ Len(<<>>) = 0
  OBVIOUS
<1>7. c \in Contexts
  BY <1>2, <1>5, <1>6 DEF Contexts
<1>8. Coherent(c)
  BY <1>4, <1>6, SeqMaxAssumption DEF Coherent
<1>9. c.ctx.key[2] = secret /\ c.log = <<>>
  OBVIOUS
<1>10. Enc(c.ctx.key) = zz.enc
  BY <1>3, <1>9 DEF Enc
<1> QED
  BY <1>1, <1>7, <1>8, <1>9, <1>10

(* Sealing or opening a message keeps the keys and extends the log, and    *)
(* the check of the limit keeps the number from wrapping.                  *)
LEMMA AdvanceContext ==
    ASSUME NEW c \in Contexts, Coherent(c), ~IncrementSeqFails(c.ctx),
           NEW aad \in Aads, NEW pt \in Plaintexts
    PROVE  LET d == Advance(c, aad, pt)
           IN  /\ d \in Contexts /\ Coherent(d)
               /\ d.ctx.key = c.ctx.key /\ d.ctx.nonce = c.ctx.nonce
               /\ d.log = Append(c.log, <<aad, pt>>)
<1> DEFINE seq == (c.ctx.seq + 1) % (SeqMax + 1)
           log == Append(c.log, <<aad, pt>>)
           d == Advance(c, aad, pt)
<1>1. c.ctx \in Ctxs /\ c.log \in Seq(Messages) /\ <<aad, pt>> \in Messages
      /\ c.ctx.seq \in Nat
  BY DEF Contexts, Messages, Ctxs
<1>2. log \in Seq(Messages) /\ Len(log) = Len(c.log) + 1
  BY <1>1
<1>3. c.ctx.seq < SeqMax
  <2>1. c.ctx.seq <= SeqMax
    BY DEF Coherent
  <2>2. c.ctx.seq # SeqMax
    BY DEF IncrementSeqFails
  <2> QED
    BY <1>1, <2>1, <2>2, SeqMaxAssumption
<1>4. seq = c.ctx.seq + 1
  <2>1. ASSUME NEW n \in Nat, NEW m \in Nat, n < m
        PROVE  (n + 1) % (m + 1) = n + 1
    BY <2>1, SMT
  <2> QED
    BY <1>1, <1>3, <2>1, SeqMaxAssumption
<1> HIDE DEF seq, log
<1>5. seq \in Nat /\ seq <= SeqMax /\ seq = Len(log)
  <2>1. c.ctx.seq = Len(c.log)
    BY DEF Coherent
  <2> QED
    BY <1>1, <1>2, <1>3, <1>4, <2>1, SeqMaxAssumption
<1>6. d = [c EXCEPT !.ctx = [c.ctx EXCEPT !.seq = seq], !.log = log]
  BY <1>1 DEF Advance, seq, log, Contexts, Ctxs
<1> HIDE DEF d
<1>7. d \in Contexts
  BY <1>1, <1>2, <1>5, <1>6 DEF Contexts, Ctxs
<1>8. /\ d.ctx.key = c.ctx.key /\ d.ctx.nonce = c.ctx.nonce /\ d.ctx.seq = seq
      /\ d.log = log /\ d.about = c.about
  BY <1>1, <1>6 DEF Contexts, Ctxs
<1>9. Coherent(d)
  BY <1>5, <1>8 DEF Coherent
<1> QED
  BY <1>7, <1>8, <1>9 DEF d, log

(* What a context seals carries its key and its number. *)
LEMMA SealedCiphertext ==
    ASSUME NEW c \in Contexts, NEW aad \in Aads, NEW pt \in Plaintexts
    PROVE  LET w == Sealed(c.ctx, aad, pt)
           IN  /\ w \in Ciphertexts /\ w.key = c.ctx.key
               /\ w.nonce[1] = c.ctx.nonce /\ w.nonce[2] = c.ctx.seq
               /\ w.aad = aad /\ w.pt = pt
<1>1. c.ctx \in Ctxs
  BY DEF Contexts
<1>2. <<c.ctx.nonce, c.ctx.seq>> \in ({"base_nonce"} \X Secrets) \X Nat
      /\ c.ctx.key \in {"key"} \X Secrets
  BY <1>1 DEF Ctxs
<1>3. Sealed(c.ctx, aad, pt) \in Ciphertexts
  BY <1>2 DEF Sealed, ComputeNonce, Ciphertexts
<1> QED
  BY <1>3 DEF Sealed, ComputeNonce

-----------------------------------------------------------------------------
(* The senders of a step, old and new: none goes, none changes its keys or *)
(* takes back what it sealed.                                              *)
Grows == \A s \in DOMAIN senders :
    /\ s \in DOMAIN senders'
    /\ senders'[s].ctx.key = senders[s].ctx.key
    /\ senders'[s].ctx.nonce = senders[s].ctx.nonce
    /\ Len(senders[s].log) <= Len(senders'[s].log)
    /\ \A k \in 1 .. Len(senders[s].log) : senders'[s].log[k] = senders[s].log[k]

(* Then ciphertexts and receivers stay with the sender they belong to. *)
LEMMA GrowsKeeps ==
    ASSUME TypeInv, TypeInv', Grows, NEW s \in DOMAIN senders
    PROVE  /\ \A c \in Ciphertexts : From(c, s) => From(c, s)'
           /\ \A c \in Contexts : Follows(c, s) => Follows(c, s)'
<1>1. senders[s] \in Contexts /\ senders'[s] \in Contexts
  BY DEF TypeInv, Grows
<1>2. Len(senders[s].log) \in Nat /\ Len(senders'[s].log) \in Nat
  BY <1>1 DEF Contexts
<1>3. ASSUME NEW c \in Ciphertexts, From(c, s) PROVE From(c, s)'
  <2>1. c.nonce[2] \in Nat
    BY DEF Ciphertexts
  <2>2. c.nonce[2] + 1 \in 1 .. Len(senders[s].log)
    BY <1>2, <1>3, <2>1 DEF From, Made
  <2>3. senders'[s].log[c.nonce[2] + 1] = senders[s].log[c.nonce[2] + 1]
    BY <2>2 DEF Grows
  <2>4. c.nonce[2] < Len(senders'[s].log)
    BY <1>2, <1>3, <2>1 DEF Grows, From, Made
  <2> QED
    BY <1>3, <2>3, <2>4 DEF Grows, From, Made
<1>4. ASSUME NEW c \in Contexts, Follows(c, s) PROVE Follows(c, s)'
  <2>1. Len(c.log) \in Nat
    BY DEF Contexts
  <2>2. \A k \in 1 .. Len(c.log) : k \in 1 .. Len(senders[s].log)
    BY <1>2, <1>4, <2>1 DEF Follows
  <2>3. \A k \in 1 .. Len(c.log) : c.log[k] = senders'[s].log[k]
    BY <1>4, <2>2 DEF Follows, Grows
  <2>4. Len(c.log) <= Len(senders'[s].log)
    BY <1>2, <1>4, <2>1 DEF Follows, Grows
  <2> QED
    BY <1>4, <2>3, <2>4 DEF Follows, Grows
<1> QED
  BY <1>3, <1>4

(* A receiver that is as it was still follows its sender. *)
LEMMA GrowsMatches ==
    ASSUME TypeInv, TypeInv', Grows, NEW c \in Contexts, Matched(c)
    PROVE  Matched(c)'
<1> SUFFICES ASSUME c.log # <<>> PROVE \E s \in DOMAIN senders' : Follows(c, s)'
  BY DEF Matched
<1>1. PICK s \in DOMAIN senders : Follows(c, s)
  BY DEF Matched
<1> QED
  BY <1>1, GrowsKeeps DEF Grows

(* A ciphertext whose key and nonce no other has joins the others. *)
LEMMA FreshJoins ==
    ASSUME TypeInv, SealsUnderFreshNonces, NEW w \in Ciphertexts,
           wire' = Append(wire, w),
           \A n \in DOMAIN wire : ~(wire[n].key = w.key /\ wire[n].nonce = w.nonce)
    PROVE  SealsUnderFreshNonces'
<1>1. wire \in Seq(Ciphertexts)
  BY DEF TypeInv
<1>2. /\ Len(wire) \in Nat /\ DOMAIN wire = 1 .. Len(wire)
      /\ DOMAIN wire' = 1 .. Len(wire) + 1
      /\ \A k \in 1 .. Len(wire) : wire'[k] = wire[k]
      /\ wire'[Len(wire) + 1] = w
  BY <1>1, AppendFacts
<1> SUFFICES ASSUME NEW m \in DOMAIN wire', NEW n \in DOMAIN wire',
                    wire'[m].key = wire'[n].key, wire'[m].nonce = wire'[n].nonce
             PROVE  m = n
  BY DEF SealsUnderFreshNonces
<1>3. CASE m # Len(wire) + 1 /\ n # Len(wire) + 1
  BY <1>2, <1>3 DEF SealsUnderFreshNonces
<1>4. CASE m = Len(wire) + 1 /\ n # Len(wire) + 1
  BY <1>2, <1>4
<1>5. CASE m # Len(wire) + 1 /\ n = Len(wire) + 1
  BY <1>2, <1>5
<1> QED
  BY <1>3, <1>4, <1>5

-----------------------------------------------------------------------------
(* What is said of contexts and ciphertexts alone. *)
LEMMA SameContexts ==
    ASSUME IInv, UNCHANGED <<senders, receivers, wire>>
    PROVE  ContextsInv' /\ WireInv' /\ SealsUnderFreshNonces' /\ ReceiversInv'
<1>1. ContextsInv'
  BY DEF IInv, ContextsInv
<1>2. WireInv'
  BY DEF IInv, WireInv, From
<1>3. SealsUnderFreshNonces'
  BY DEF IInv, SealsUnderFreshNonces
<1>4. ReceiversInv'
  BY DEF IInv, ReceiversInv, Matched, Follows
<1> QED
  BY <1>1, <1>2, <1>3, <1>4

(* Hpke::new and Clone: a seed that no configuration and no sender has. *)
LEMMA SeedStep ==
    ASSUME IInv, NEW j \in Instances, hpke[j] = None,
           NEW h \in Hpkes, h.prng = [seed |-> seeds, at |-> 0],
           hpke' = [hpke EXCEPT ![j] = h], seeds' = seeds + 1,
           UNCHANGED <<senders, receivers, wire>>
    PROVE  IInv'
<1>1. TypeInv'
  BY DEF IInv, TypeInv
<1>2. /\ \A i \in Instances : hpke'[i] = IF i = j THEN h ELSE hpke[i]
      /\ h.prng.seed = seeds /\ h.prng.at = 0 /\ seeds \in Nat
      /\ \A i \in Instances : hpke[i] # None => hpke[i].prng.seed \in Nat
  BY DEF IInv, TypeInv, Hpkes
<1>3. SeedsInv'
  BY <1>2 DEF IInv, SeedsInv
<1>4. PlacesInv'
  <2>1. \A s \in DOMAIN senders : Enc(senders[s].ctx.key)[1] \in Nat
    BY EncType DEF IInv, TypeInv
  <2>2. \A s \in DOMAIN senders : Enc(senders[s].ctx.key)[1] < seeds
    BY DEF IInv, PlacesInv
  <2> QED
    BY <1>2, <2>1, <2>2 DEF IInv, PlacesInv
<1>5. ContextsInv' /\ WireInv' /\ SealsUnderFreshNonces' /\ ReceiversInv'
  BY SameContexts
<1> QED
  BY <1>1, <1>3, <1>4, <1>5 DEF IInv

(* Drawing from a PRNG moves its place and nothing else. *)
LEMMA DrawnFacts ==
    ASSUME TypeInv, SeedsInv, NEW i \in Instances, hpke[i] # None,
           hpke' = Drawn(i), seeds' = seeds
    PROVE  /\ hpke' \in [Instances -> Hpkes \cup {None}]
           /\ hpke[i].prng.seed \in Nat /\ hpke[i].prng.at \in Nat
           /\ hpke[i].prng.seed < seeds
           /\ hpke'[i].prng.seed = hpke[i].prng.seed
           /\ hpke'[i].prng.at = hpke[i].prng.at + 1
           /\ \A j \in Instances : j # i => hpke'[j] = hpke[j]
           /\ SeedsInv'
<1>1. hpke[i] \in Hpkes /\ hpke \in [Instances -> Hpkes \cup {None}]
  BY DEF TypeInv
<1>2. hpke[i].prng \in [seed : Nat, at : Nat]
  BY <1>1 DEF Hpkes
<1> DEFINE prng == [hpke[i].prng EXCEPT !.at = hpke[i].prng.at + 1]
           h == [hpke[i] EXCEPT !.prng = prng]
<1>3. hpke' = [hpke EXCEPT ![i] = h]
  BY <1>1, <1>2 DEF Drawn, Hpkes
<1>4. /\ prng \in [seed : Nat, at : Nat] /\ prng.seed = hpke[i].prng.seed
      /\ prng.at = hpke[i].prng.at + 1
  BY <1>2
<1> HIDE DEF prng
<1>5. h \in Hpkes /\ h.prng = prng
  BY <1>1, <1>4 DEF Hpkes
<1> HIDE DEF h
<1>6. hpke'[i] = h /\ \A j \in Instances : j # i => hpke'[j] = hpke[j]
  BY <1>1, <1>3
<1>7. SeedsInv'
  BY <1>4, <1>5, <1>6 DEF SeedsInv
<1>8. hpke' \in [Instances -> Hpkes \cup {None}]
  BY <1>1, <1>3, <1>5
<1>9. hpke[i].prng.seed < seeds
  BY DEF SeedsInv
<1> QED
  BY <1>2, <1>4, <1>5, <1>6, <1>7, <1>8, <1>9

(* A set-up that fails after drawing. *)
LEMMA DrawStep ==
    ASSUME IInv, NEW i \in Instances, hpke[i] # None,
           hpke' = Drawn(i), UNCHANGED <<seeds, senders, receivers, wire>>
    PROVE  IInv'
<1>1. TypeInv /\ SeedsInv /\ seeds' = seeds
  BY DEF IInv
<1>2. TypeInv' /\ SeedsInv'
  BY <1>1, DrawnFacts DEF TypeInv
<1>3. PlacesInv'
  <2>1. \A s \in DOMAIN senders : Enc(senders[s].ctx.key)[2] \in Nat
    BY EncType DEF IInv, TypeInv
  <2> QED
    BY <1>1, <2>1, DrawnFacts DEF IInv, PlacesInv
<1>4. ContextsInv' /\ WireInv' /\ SealsUnderFreshNonces' /\ ReceiversInv'
  BY SameContexts
<1> QED
  BY <1>2, <1>3, <1>4 DEF IInv

(* A sender joins, and perhaps its first ciphertext. *)
SenderJoins(c) ==
    /\ senders' = Append(senders, c)
    /\ \/ wire' = wire
       \/ \E w \in Ciphertexts : wire' = Append(wire, w) /\ Made(w, c)

(* setup_sender and the one-shot seal: a sender at the place just drawn. *)
LEMMA SenderStep ==
    ASSUME IInv, NEW i \in Instances, hpke[i] # None,
           hpke' = Drawn(i), UNCHANGED <<seeds, receivers>>,
           NEW c \in Contexts, Coherent(c), Enc(c.ctx.key) = Random(hpke[i]),
           SenderJoins(c)
    PROVE  IInv'
<1>1. TypeInv /\ SeedsInv /\ seeds' = seeds /\ senders \in Seq(Contexts)
      /\ wire \in Seq(Ciphertexts)
  BY DEF IInv, TypeInv
<1> PICK new \in Nat : new = Len(senders) + 1
  BY <1>1
<1>2. /\ senders' \in Seq(Contexts)
      /\ DOMAIN senders = 1 .. Len(senders) /\ DOMAIN senders' = 1 .. new
      /\ Len(senders) \in Nat
      /\ \A s \in DOMAIN senders : senders'[s] = senders[s] /\ s # new
      /\ senders'[new] = c
      /\ DOMAIN senders' = DOMAIN senders \cup {new}
  <2>1. /\ senders' \in Seq(Contexts)
        /\ Len(senders) \in Nat /\ DOMAIN senders = 1 .. Len(senders)
        /\ DOMAIN senders' = 1 .. Len(senders) + 1
        /\ \A k \in 1 .. Len(senders) : senders'[k] = senders[k]
        /\ senders'[Len(senders) + 1] = c
    BY <1>1, AppendFacts DEF SenderJoins
  <2> QED
    BY <2>1
<1>3. TypeInv' /\ SeedsInv'
  <2>1. wire' \in Seq(Ciphertexts)
    <3>1. CASE wire' = wire
      BY <1>1, <3>1
    <3>2. CASE \E w \in Ciphertexts : wire' = Append(wire, w)
      BY <1>1, <3>2, AppendFacts
    <3> QED
      BY <3>1, <3>2 DEF SenderJoins
  <2>2. hpke' \in [Instances -> Hpkes \cup {None}] /\ SeedsInv'
    BY <1>1, DrawnFacts
  <2> QED
    BY <1>1, <1>2, <2>1, <2>2 DEF TypeInv
<1>4. ContextsInv'
  BY <1>2 DEF IInv, ContextsInv
<1>5. Enc(c.ctx.key)[1] = hpke[i].prng.seed /\ Enc(c.ctx.key)[2] = hpke[i].prng.at
  BY DEF Random
<1>6. \A s \in DOMAIN senders : Enc(senders[s].ctx.key) # Enc(c.ctx.key)
  <2>1. \A s \in DOMAIN senders :
           Enc(senders[s].ctx.key)[1] = hpke[i].prng.seed
              => Enc(senders[s].ctx.key)[2] < hpke[i].prng.at
    BY DEF IInv, PlacesInv
  <2>2. hpke[i].prng.at \in Nat
    BY <1>1, DrawnFacts
  <2> QED
    BY <1>5, <2>1, <2>2
<1>7. PlacesInv'
  <2>1. \A s \in DOMAIN senders' : Enc(senders'[s].ctx.key)[1] < seeds'
    <3>1. \A s \in DOMAIN senders : Enc(senders[s].ctx.key)[1] < seeds
      BY DEF IInv, PlacesInv
    <3>2. Enc(c.ctx.key)[1] < seeds
      BY <1>1, <1>5, DrawnFacts
    <3> QED
      BY <1>1, <1>2, <3>1, <3>2
  <2>2. ASSUME NEW s \in DOMAIN senders', NEW j \in Instances, hpke'[j] # None,
               Enc(senders'[s].ctx.key)[1] = hpke'[j].prng.seed
        PROVE  Enc(senders'[s].ctx.key)[2] < hpke'[j].prng.at
    <3>1. /\ hpke[i].prng.seed \in Nat /\ hpke[i].prng.at \in Nat
          /\ hpke'[i].prng.seed = hpke[i].prng.seed
          /\ hpke'[i].prng.at = hpke[i].prng.at + 1
          /\ j # i => hpke'[j] = hpke[j]
      BY <1>1, DrawnFacts
    <3>2. CASE s = new
      <4>1. j = i
        BY <1>2, <1>5, <2>2, <3>1, <3>2 DEF IInv, SeedsInv
      <4> QED
        BY <1>2, <1>5, <3>1, <3>2, <4>1
    <3>3. CASE s \in DOMAIN senders
      <4>1. Enc(senders[s].ctx.key)[2] \in Nat
        BY <1>1, <3>3, EncType
      <4>2. Enc(senders[s].ctx.key)[1] = hpke[j].prng.seed /\ hpke[j] # None
        BY <1>2, <2>2, <3>1, <3>3
      <4>3. Enc(senders[s].ctx.key)[2] < hpke[j].prng.at
        BY <3>3, <4>2 DEF IInv, PlacesInv
      <4> QED
        BY <1>2, <3>1, <3>3, <4>1, <4>3
    <3> QED
      BY <1>2, <3>2, <3>3
  <2>3. \A s, t \in DOMAIN senders' :
           Enc(senders'[s].ctx.key) = Enc(senders'[t].ctx.key) => s = t
    BY <1>2, <1>6 DEF IInv, PlacesInv
  <2> QED
    BY <2>1, <2>2, <2>3 DEF PlacesInv
<1>8. Grows
  <2>1. \A s \in DOMAIN senders : Len(senders[s].log) \in Nat
    BY <1>1 DEF Contexts
  <2> QED
    BY <1>2, <2>1 DEF Grows
<1>9. ASSUME NEW v \in Ciphertexts, NEW s \in DOMAIN senders, From(v, s)
      PROVE  s \in DOMAIN senders' /\ From(v, s)'
  BY <1>1, <1>2, <1>3, <1>8, <1>9, GrowsKeeps
<1>10. WireInv' /\ SealsUnderFreshNonces'
  <2>1. CASE wire' = wire
    <3>1. SealsUnderFreshNonces'
      BY <2>1 DEF IInv, SealsUnderFreshNonces
    <3>2. ASSUME NEW n \in DOMAIN wire'
          PROVE  \E s \in DOMAIN senders' : From(wire[n], s)'
      <4>1. PICK s \in DOMAIN senders : From(wire[n], s)
        BY <2>1 DEF IInv, WireInv
      <4>2. PICK v \in Ciphertexts : v = wire[n]
        BY <1>1, <2>1
      <4>3. s \in DOMAIN senders' /\ From(v, s)'
        BY <1>9, <4>1, <4>2
      <4> QED
        BY <2>1, <4>2, <4>3
    <3> QED
      BY <2>1, <3>1, <3>2 DEF WireInv
  <2>2. ASSUME NEW w \in Ciphertexts, wire' = Append(wire, w), Made(w, c)
        PROVE  WireInv' /\ SealsUnderFreshNonces'
    <3>1. /\ Len(wire) \in Nat /\ DOMAIN wire = 1 .. Len(wire)
          /\ DOMAIN wire' = 1 .. Len(wire) + 1
          /\ \A k \in 1 .. Len(wire) : wire'[k] = wire[k]
          /\ wire'[Len(wire) + 1] = w
      BY <1>1, <2>2, AppendFacts
    <3>2. From(w, new)' /\ new \in DOMAIN senders'
      BY <1>2, <2>2 DEF From, Made
    <3>3. ASSUME NEW n \in DOMAIN wire'
          PROVE  \E s \in DOMAIN senders' : From(wire[n], s)'
      <4>1. CASE n = Len(wire) + 1
        BY <3>1, <3>2, <4>1
      <4>2. CASE n \in DOMAIN wire
        <5>1. PICK s \in DOMAIN senders : From(wire[n], s)
          BY <4>2 DEF IInv, WireInv
        <5>2. PICK v \in Ciphertexts : v = wire[n]
          BY <1>1, <4>2
        <5>3. s \in DOMAIN senders' /\ From(v, s)' /\ wire'[n] = v
          BY <1>9, <3>1, <4>2, <5>1, <5>2
        <5> QED
          BY <5>3
      <4> QED
        BY <3>1, <4>1, <4>2
    <3>4. \A n \in DOMAIN wire : ~(wire[n].key = w.key /\ wire[n].nonce = w.nonce)
      <4>1. \A n \in DOMAIN wire : \E s \in DOMAIN senders :
                wire[n].key = senders[s].ctx.key
        BY DEF IInv, WireInv, From, Made
      <4>2. w.key = c.ctx.key
        BY <2>2 DEF Made
      <4> QED
        BY <1>6, <4>1, <4>2
    <3>5. SealsUnderFreshNonces'
      BY <1>1, <2>2, <3>4, FreshJoins DEF IInv
    <3> QED
      BY <3>3, <3>5 DEF WireInv
  <2> QED
    BY <2>1, <2>2 DEF SenderJoins
<1>11. ReceiversInv'
  <2> SUFFICES ASSUME NEW r \in DOMAIN receivers PROVE Matched(receivers[r])'
    BY DEF ReceiversInv
  <2>1. PICK v \in Contexts : v = receivers[r]
    BY <1>1 DEF TypeInv
  <2>2. Matched(v)
    BY <2>1 DEF IInv, ReceiversInv
  <2>3. Matched(v)'
    BY <1>1, <1>3, <1>8, <2>2, GrowsMatches
  <2> QED
    BY <2>1, <2>3
<1> QED
  BY <1>3, <1>4, <1>7, <1>10, <1>11 DEF IInv

(* A sender moves on, with its next ciphertext. *)
SealsNext(s, aad, pt) ==
    /\ ~IncrementSeqFails(senders[s].ctx)
    /\ senders' = [senders EXCEPT ![s] = Advance(@, aad, pt)]
    /\ wire' = Append(wire, Sealed(senders[s].ctx, aad, pt))

(* seal: the next ciphertext of a sender. *)
LEMMA SealStep ==
    ASSUME IInv, NEW s \in DOMAIN senders, NEW aad \in Aads, NEW pt \in Plaintexts,
           SealsNext(s, aad, pt), UNCHANGED <<hpke, seeds, receivers>>
    PROVE  IInv'
<1>1. /\ TypeInv /\ senders \in Seq(Contexts) /\ wire \in Seq(Ciphertexts)
      /\ senders[s] \in Contexts /\ Coherent(senders[s])
  BY DEF IInv, TypeInv, ContextsInv
<1>2. PICK c \in Contexts : c = senders[s]
  BY <1>1
<1>3. PICK d \in Contexts :
         /\ d = Advance(c, aad, pt) /\ Coherent(d)
         /\ d.ctx.key = c.ctx.key /\ d.ctx.nonce = c.ctx.nonce
         /\ d.log = Append(c.log, <<aad, pt>>)
  BY <1>1, <1>2, AdvanceContext DEF SealsNext
<1>4. /\ senders' \in Seq(Contexts) /\ DOMAIN senders' = DOMAIN senders
      /\ \A t \in DOMAIN senders : senders'[t] = IF t = s THEN d ELSE senders[t]
  BY <1>1, <1>2, <1>3 DEF SealsNext
<1>5. PICK w \in Ciphertexts :
         /\ w = Sealed(c.ctx, aad, pt) /\ w.key = c.ctx.key
         /\ w.nonce[1] = c.ctx.nonce /\ w.nonce[2] = c.ctx.seq
         /\ w.aad = aad /\ w.pt = pt
  BY SealedCiphertext
<1>6. wire' = Append(wire, w)
  BY <1>2, <1>5 DEF SealsNext
<1>7. c.ctx.seq = Len(c.log) /\ c.log \in Seq(Messages) /\ Len(c.log) \in Nat
      /\ <<aad, pt>> \in Messages
  <2>1. c.ctx.seq = Len(c.log)
    BY <1>1, <1>2 DEF Coherent
  <2>2. c.log \in Seq(Messages)
    BY DEF Contexts
  <2>3. <<aad, pt>> \in Messages
    BY DEF Messages
  <2> QED
    BY <2>1, <2>2, <2>3
<1>8. /\ Len(d.log) = Len(c.log) + 1 /\ d.log[Len(c.log) + 1] = <<aad, pt>>
      /\ \A k \in 1 .. Len(c.log) : d.log[k] = c.log[k]
  BY <1>3, <1>7, AppendFacts
<1>9. TypeInv'
  <2>1. wire' \in Seq(Ciphertexts)
    BY <1>1, <1>6, AppendFacts
  <2> QED
    BY <1>1, <1>4, <2>1 DEF TypeInv
<1>10. ContextsInv'
  BY <1>3, <1>4 DEF IInv, ContextsInv
<1>11. \A t \in DOMAIN senders : senders'[t].ctx.key = senders[t].ctx.key
                                 /\ senders'[t].ctx.nonce = senders[t].ctx.nonce
  BY <1>2, <1>3, <1>4
<1>12. SeedsInv' /\ PlacesInv'
  <2>1. \A t \in DOMAIN senders : Enc(senders'[t].ctx.key) = Enc(senders[t].ctx.key)
    BY <1>11
  <2>2. SeedsInv'
    BY DEF IInv, SeedsInv
  <2>3. PlacesInv /\ hpke' = hpke /\ seeds' = seeds
    BY DEF IInv
  <2> HIDE DEF Enc
  <2>4. DOMAIN senders' = DOMAIN senders
    BY <1>4
  <2>5. \A t \in DOMAIN senders' : Enc(senders'[t].ctx.key)[1] < seeds'
    BY <2>1, <2>3, <2>4 DEF PlacesInv
  <2>6. \A t \in DOMAIN senders', i \in Instances :
           hpke'[i] # None /\ Enc(senders'[t].ctx.key)[1] = hpke'[i].prng.seed
              => Enc(senders'[t].ctx.key)[2] < hpke'[i].prng.at
    BY <2>1, <2>3, <2>4 DEF PlacesInv
  <2>7. \A t, u \in DOMAIN senders' :
           Enc(senders'[t].ctx.key) = Enc(senders'[u].ctx.key) => t = u
    BY <2>1, <2>3, <2>4 DEF PlacesInv
  <2> QED
    BY <2>2, <2>5, <2>6, <2>7 DEF PlacesInv
<1>13. Grows
  <2>1. \A t \in DOMAIN senders : Len(senders[t].log) \in Nat
    BY <1>1 DEF Contexts
  <2> SUFFICES ASSUME NEW t \in DOMAIN senders
               PROVE  /\ Len(senders[t].log) <= Len(senders'[t].log)
                      /\ \A k \in 1 .. Len(senders[t].log) :
                            senders'[t].log[k] = senders[t].log[k]
    BY <1>4, <1>11 DEF Grows
  <2>2. CASE t = s
    <3>1. senders[t] = c /\ senders'[t] = d
      BY <1>2, <1>4, <2>2
    <3>2. Len(c.log) <= Len(d.log)
      BY <1>7, <1>8
    <3> QED
      BY <1>8, <3>1, <3>2
  <2>3. CASE t # s
    BY <1>4, <2>1, <2>3
  <2> QED
    BY <2>2, <2>3
<1>14. /\ Len(wire) \in Nat /\ DOMAIN wire = 1 .. Len(wire)
       /\ DOMAIN wire' = 1 .. Len(wire) + 1
       /\ \A k \in 1 .. Len(wire) : wire'[k] = wire[k]
       /\ wire'[Len(wire) + 1] = w
  BY <1>1, <1>6, AppendFacts
<1>15. WireInv'
  <2> SUFFICES ASSUME NEW n \in DOMAIN wire'
               PROVE  \E t \in DOMAIN senders' : From(wire[n], t)'
    BY DEF WireInv
  <2>1. CASE n = Len(wire) + 1
    <3>1. w.nonce[2] = Len(c.log) /\ w.nonce[2] < Len(d.log)
      BY <1>5, <1>7, <1>8
    <3>2. Made(w, d)
      BY <1>3, <1>5, <1>8, <3>1 DEF Made
    <3>3. wire'[n] = w /\ senders'[s] = d /\ s \in DOMAIN senders'
      BY <1>4, <1>14, <2>1
    <3> QED
      BY <3>2, <3>3 DEF From
  <2>2. CASE n \in DOMAIN wire
    <3>1. PICK t \in DOMAIN senders : From(wire[n], t)
      BY <2>2 DEF IInv, WireInv
    <3>2. PICK v \in Ciphertexts : v = wire[n]
      <4>1. wire \in Seq(Ciphertexts)
        BY <1>1
      <4>2. wire[n] \in Ciphertexts
        BY <2>2, <4>1
      <4> QED
        BY <4>2
    <3>3. From(v, t)' /\ wire'[n] = v
      BY <1>1, <1>9, <1>13, <1>14, <2>2, <3>1, <3>2, GrowsKeeps
    <3> QED
      BY <1>4, <3>3
  <2> QED
    BY <1>14, <2>1, <2>2
<1>16. SealsUnderFreshNonces'
  <2>1. ASSUME NEW n \in DOMAIN wire, wire[n].key = w.key, wire[n].nonce = w.nonce
        PROVE  FALSE
    <3>1. PICK t \in DOMAIN senders : From(wire[n], t)
      BY DEF IInv, WireInv
    <3>2. senders[t].ctx.key = senders[s].ctx.key
      BY <1>2, <1>5, <2>1, <3>1 DEF From, Made
    <3>3. t = s
      BY <3>2 DEF IInv, PlacesInv
    <3>4. wire[n].nonce[2] < Len(c.log)
      BY <1>2, <3>1, <3>3 DEF From, Made
    <3> QED
      BY <1>5, <1>7, <2>1, <3>4
  <2> QED
    BY <1>1, <1>6, <2>1, FreshJoins DEF IInv
<1>17. ReceiversInv'
  <2> SUFFICES ASSUME NEW r \in DOMAIN receivers PROVE Matched(receivers[r])'
    BY DEF ReceiversInv
  <2>1. PICK v \in Contexts : v = receivers[r]
    BY <1>1 DEF TypeInv
  <2>2. Matched(v)'
    BY <1>1, <1>9, <1>13, <2>1, GrowsMatches DEF IInv, ReceiversInv
  <2> QED
    BY <2>1, <2>2
<1> QED
  BY <1>9, <1>10, <1>12, <1>15, <1>16, <1>17 DEF IInv

-----------------------------------------------------------------------------
(* A context that may open a ciphertext of the wire has so far opened what *)
(* the ciphertext's sender sealed before it, and opens what comes next.    *)
LEMMA OpensNext ==
    ASSUME IInv, NEW c \in Contexts, Coherent(c), Matched(c),
           NEW n \in DOMAIN wire, NEW aad \in Aads,
           OpenCode(c.ctx, wire[n], aad) = "Ok"
    PROVE  LET d == Advance(c, aad, wire[n].pt)
           IN  /\ d \in Contexts /\ Coherent(d)
               /\ \E s \in DOMAIN senders : Follows(d, s)
<1> DEFINE w == wire[n]
           d == Advance(c, aad, w.pt)
<1>1. w \in Ciphertexts /\ TypeInv
  BY DEF IInv, TypeInv
<1>2. w.pt \in Plaintexts /\ w.nonce[2] \in Nat
  BY <1>1 DEF Ciphertexts
<1>3. /\ w.key = c.ctx.key /\ w.aad = aad /\ w.nonce = <<c.ctx.nonce, c.ctx.seq>>
      /\ ~IncrementSeqFails(c.ctx)
  BY DEF OpenCode, SealCode, ComputeNonce
<1> HIDE DEF w
<1>4. /\ d \in Contexts /\ Coherent(d) /\ d.ctx.key = c.ctx.key
      /\ d.log = Append(c.log, <<aad, w.pt>>)
  BY <1>2, <1>3, AdvanceContext
<1> HIDE DEF d
<1>5. PICK s \in DOMAIN senders : From(w, s)
  BY DEF IInv, WireInv, w
<1>6. c.ctx.seq = Len(c.log) /\ c.log \in Seq(Messages) /\ Len(c.log) \in Nat
      /\ <<aad, w.pt>> \in Messages
  <2>1. c.ctx.seq = Len(c.log)
    BY DEF Coherent
  <2>2. c.log \in Seq(Messages)
    BY DEF Contexts
  <2>3. <<aad, w.pt>> \in Messages
    BY <1>2 DEF Messages
  <2> QED
    BY <2>1, <2>2, <2>3
<1>7. /\ Len(d.log) = Len(c.log) + 1 /\ d.log[Len(c.log) + 1] = <<aad, w.pt>>
      /\ \A k \in 1 .. Len(c.log) : d.log[k] = c.log[k]
  BY <1>4, <1>6, AppendFacts
<1>8. /\ senders[s].ctx.key = c.ctx.key /\ Len(c.log) < Len(senders[s].log)
      /\ senders[s].log[Len(c.log) + 1] = <<aad, w.pt>>
  <2>1. w.nonce[2] = Len(c.log)
    BY <1>3, <1>6
  <2> QED
    BY <1>3, <1>5, <2>1 DEF From, Made
<1>9. \A k \in 1 .. Len(c.log) : c.log[k] = senders[s].log[k]
  <2>1. CASE c.log = <<>>
    BY <2>1
  <2>2. CASE c.log # <<>>
    <3>1. PICK t \in DOMAIN senders : Follows(c, t)
      BY <2>2 DEF Matched
    <3>2. senders[t].ctx.key = senders[s].ctx.key
      BY <1>8, <3>1 DEF Follows
    <3>3. t = s
      BY <3>2 DEF IInv, PlacesInv
    <3> QED
      BY <3>1, <3>3 DEF Follows
  <2> QED
    BY <2>1, <2>2
<1>10. Len(senders[s].log) \in Nat
  <2>1. senders[s] \in Contexts
    BY DEF IInv, TypeInv
  <2> QED
    BY <2>1 DEF Contexts
<1>11. \A k \in 1 .. Len(d.log) : d.log[k] = senders[s].log[k]
  <2> SUFFICES ASSUME NEW k \in 1 .. Len(d.log) PROVE d.log[k] = senders[s].log[k]
    OBVIOUS
  <2>1. k = Len(c.log) + 1 \/ k \in 1 .. Len(c.log)
    BY <1>6, <1>7
  <2> QED
    BY <1>7, <1>8, <1>9, <2>1
<1>12. Len(d.log) <= Len(senders[s].log)
  BY <1>6, <1>7, <1>8, <1>10
<1>13. Follows(d, s)
  BY <1>4, <1>8, <1>11, <1>12 DEF Follows
<1> QED
  BY <1>4, <1>13 DEF d, w

(* setup_receiver and the one-shot open: a receiver joins. *)
LEMMA ReceiverStep ==
    ASSUME IInv, NEW c \in Contexts, Coherent(c), Matched(c),
           receivers' = Append(receivers, c), UNCHANGED <<hpke, seeds, senders, wire>>
    PROVE  IInv'
<1>1. receivers \in Seq(Contexts)
  BY DEF IInv, TypeInv
<1>2. /\ receivers' \in Seq(Contexts) /\ Len(receivers) \in Nat
      /\ DOMAIN receivers = 1 .. Len(receivers)
      /\ DOMAIN receivers' = 1 .. Len(receivers) + 1
      /\ \A k \in 1 .. Len(receivers) : receivers'[k] = receivers[k]
      /\ receivers'[Len(receivers) + 1] = c
  BY <1>1, AppendFacts
<1>3. \A r \in DOMAIN receivers' : receivers'[r] = c \/ \E q \in DOMAIN receivers :
                                                       receivers'[r] = receivers[q]
  BY <1>2
<1>4. TypeInv' /\ SeedsInv' /\ PlacesInv' /\ WireInv' /\ SealsUnderFreshNonces'
  BY <1>2 DEF IInv, TypeInv, SeedsInv, PlacesInv, WireInv, From, SealsUnderFreshNonces
<1>5. ContextsInv'
  BY <1>3 DEF IInv, ContextsInv
<1>6. ReceiversInv'
  <2>1. ASSUME NEW v, Matched(v) PROVE Matched(v)'
    BY <2>1 DEF Matched, Follows
  <2>2. \A q \in DOMAIN receivers : Matched(receivers[q])
    BY DEF IInv, ReceiversInv
  <2>3. \A r \in DOMAIN receivers' : \E v : v = receivers'[r] /\ Matched(v)
    BY <1>3, <2>2
  <2> QED
    BY <2>1, <2>3 DEF ReceiversInv
<1> QED
  BY <1>4, <1>5, <1>6 DEF IInv

(* open: a receiver moves on. *)
LEMMA OpenStep ==
    ASSUME IInv, NEW r \in DOMAIN receivers, NEW c \in Contexts, Coherent(c), Matched(c),
           receivers' = [receivers EXCEPT ![r] = c], UNCHANGED <<hpke, seeds, senders, wire>>
    PROVE  IInv'
<1>1. receivers \in Seq(Contexts)
  BY DEF IInv, TypeInv
<1>2. /\ receivers' \in Seq(Contexts) /\ DOMAIN receivers' = DOMAIN receivers
      /\ \A q \in DOMAIN receivers : receivers'[q] = IF q = r THEN c ELSE receivers[q]
  BY <1>1
<1>3. TypeInv' /\ SeedsInv' /\ PlacesInv' /\ WireInv' /\ SealsUnderFreshNonces'
  BY <1>2 DEF IInv, TypeInv, SeedsInv, PlacesInv, WireInv, From, SealsUnderFreshNonces
<1>4. ContextsInv'
  BY <1>2 DEF IInv, ContextsInv
<1>5. ReceiversInv'
  BY <1>2 DEF IInv, ReceiversInv, Matched, Follows
<1> QED
  BY <1>3, <1>4, <1>5 DEF IInv

-----------------------------------------------------------------------------
(* A call that is refused, and any step that only changes the result. *)
LEMMA RefusedStep ==
    ASSUME IInv, UNCHANGED <<hpke, seeds, senders, receivers, wire>>
    PROVE  IInv'
<1>1. TypeInv' /\ SeedsInv'
  BY DEF IInv, TypeInv, SeedsInv
<1>2. PlacesInv'
  BY DEF IInv, PlacesInv
<1> QED
  BY <1>1, <1>2, SameContexts DEF IInv

(* The owner of a context lets go of it. *)
LEMMA Dropped ==
    ASSUME NEW c \in Contexts, Coherent(c)
    PROVE  LET d == [c EXCEPT !.live = FALSE]
           IN  /\ d \in Contexts /\ Coherent(d)
               /\ d.ctx = c.ctx /\ d.log = c.log
<1> DEFINE d == [c EXCEPT !.live = FALSE]
<1>1. d \in Contexts /\ d.ctx = c.ctx /\ d.log = c.log /\ d.about = c.about
  BY DEF Contexts
<1> HIDE DEF d
<1>2. Coherent(d)
  BY <1>1 DEF Coherent
<1> QED
  BY <1>1, <1>2 DEF d

(* What a configuration sets up for a sender. *)
LEMMA SenderContext ==
    ASSUME IInv, NEW i \in Instances, hpke[i] # None, NEW u \in SetupInputs
    PROVE  LET c == Sender(i, u.key, u.info, u.psk, u.psk_id, u.peer)
           IN  /\ c \in Contexts /\ Coherent(c) /\ c.log = <<>>
               /\ Enc(c.ctx.key) = Random(hpke[i])
<1> DEFINE from == IF Auth(hpke[i].mode) THEN u.peer ELSE None
           zz == Encaps(Random(hpke[i]), u.key, from)
<1>1. hpke[i] \in Hpkes
  BY DEF IInv, TypeInv
<1>2. Random(hpke[i]) \in Nat \X Nat
  BY <1>1 DEF Hpkes, Random
<1>3. u.key \in Keys /\ from \in Peers
  BY DEF Keys, Peers
<1>4. u.info \in Infos /\ u.psk \in Psks /\ u.psk_id \in PskIds
  BY DEF Infos, Psks, PskIds
<1>5. zz \in SharedSecrets /\ zz.enc = Random(hpke[i])
  BY <1>2, <1>3 DEF Encaps, SharedSecrets
<1>6. Sender(i, u.key, u.info, u.psk, u.psk_id, u.peer)
          = Context(hpke[i], zz, u.info, u.psk, u.psk_id)
  BY DEF Sender
<1> DEFINE c == Context(hpke[i], zz, u.info, u.psk, u.psk_id)
<1> HIDE DEF zz
<1>7. c \in Contexts /\ Coherent(c) /\ c.log = <<>> /\ Enc(c.ctx.key) = zz.enc
  BY <1>1, <1>4, <1>5, NewContext
<1> HIDE DEF c
<1> QED
  BY <1>5, <1>6, <1>7 DEF c

(* What a configuration sets up for a receiver. *)
LEMMA ReceiverContext ==
    ASSUME IInv, NEW i \in Instances, hpke[i] # None, NEW u \in SetupInputs,
           NEW s \in DOMAIN senders
    PROVE  LET c == Receiver(i, senders[s].about.zz.enc, u.key, u.info, u.psk,
                             u.psk_id, u.peer)
           IN  c \in Contexts /\ Coherent(c) /\ c.log = <<>>
<1> DEFINE from == IF Auth(hpke[i].mode) THEN u.peer ELSE None
           enc == senders[s].about.zz.enc
           zz == Decaps(enc, u.key, from)
<1>1. hpke[i] \in Hpkes /\ senders[s] \in Contexts
  BY DEF IInv, TypeInv
<1>2. senders[s].about \in Abouts
  BY <1>1 DEF Contexts
<1>3. senders[s].about.zz \in SharedSecrets
  BY <1>2 DEF Abouts
<1>4. enc \in Nat \X Nat
  BY <1>3 DEF SharedSecrets
<1>5. u.key \in Keys /\ from \in Peers
  BY DEF Keys, Peers
<1>6. u.info \in Infos /\ u.psk \in Psks /\ u.psk_id \in PskIds
  BY DEF Infos, Psks, PskIds
<1>7. zz \in SharedSecrets
  BY <1>4, <1>5 DEF Decaps, SharedSecrets
<1>8. Receiver(i, enc, u.key, u.info, u.psk, u.psk_id, u.peer)
          = Context(hpke[i], zz, u.info, u.psk, u.psk_id)
  BY DEF Receiver
<1> DEFINE c == Context(hpke[i], zz, u.info, u.psk, u.psk_id)
<1> HIDE DEF zz
<1>9. c \in Contexts /\ Coherent(c) /\ c.log = <<>>
  BY <1>1, <1>6, <1>7, NewContext
<1> HIDE DEF c
<1> QED
  BY <1>8, <1>9 DEF c

-----------------------------------------------------------------------------
(* Nothing is set up at first. *)
LEMMA InitIInv == Init => IInv
<1> SUFFICES ASSUME Init PROVE IInv
  OBVIOUS
<1>1. senders = <<>> /\ receivers = <<>> /\ wire = <<>> /\ seeds = 0
      /\ \A i \in Instances : hpke[i] = None
  BY DEF Init
<1>2. DOMAIN senders = {} /\ DOMAIN receivers = {} /\ DOMAIN wire = {}
  BY <1>1
<1>3. TypeInv
  BY <1>1 DEF Init, TypeInv
<1> QED
  BY <1>1, <1>2, <1>3 DEF IInv, ContextsInv, SeedsInv, PlacesInv, WireInv,
     SealsUnderFreshNonces, ReceiversInv

(* Every call preserves the invariant. *)
LEMMA NextIInv == IInv /\ [Next]_vars => IInv'
<1> SUFFICES ASSUME IInv, [Next]_vars PROVE IInv'
  OBVIOUS
<1>1. ASSUME NEW i \in Instances, NEW config \in Configs, New(i, config) PROVE IInv'
  <2> DEFINE h == [mode |-> config.mode, kem |-> config.kem, aead |-> config.aead,
                   prng |-> [seed |-> seeds, at |-> 0]]
  <2>1. seeds \in Nat
    BY DEF IInv, TypeInv
  <2>2. h \in Hpkes /\ h.prng = [seed |-> seeds, at |-> 0]
    BY <2>1, ConfigsAssumption DEF Hpkes
  <2> QED
    BY <1>1, <2>2, SeedStep DEF New
<1>2. ASSUME NEW i \in Instances, NEW j \in Instances, Clone(i, j) PROVE IInv'
  <2> DEFINE h == [hpke[i] EXCEPT !.prng = [seed |-> seeds, at |-> 0]]
  <2>1. seeds \in Nat /\ hpke[i] \in Hpkes
    BY <1>2 DEF IInv, TypeInv, Clone
  <2>2. h \in Hpkes /\ h.prng = [seed |-> seeds, at |-> 0]
    BY <2>1 DEF Hpkes
  <2>3. /\ hpke[j] = None /\ hpke' = [hpke EXCEPT ![j] = h] /\ seeds' = seeds + 1
        /\ UNCHANGED <<senders, receivers, wire>>
    BY <1>2 DEF Clone
  <2> HIDE DEF h
  <2> QED
    BY <2>2, <2>3, SeedStep
<1>3. ASSUME NEW i \in Instances, NEW u \in SetupInputs, CanDraw(i),
             SetupSender(i, u.key, u.info, u.psk, u.psk_id, u.peer)
      PROVE  IInv'
  <2>1. hpke[i] # None
    BY <1>3 DEF CanDraw
  <2>2. \/ UNCHANGED <<hpke, seeds, senders, receivers, wire>>
        \/ /\ hpke' = Drawn(i) /\ UNCHANGED <<seeds, receivers, wire>>
           /\ \/ UNCHANGED senders
              \/ senders' = Append(senders,
                               Sender(i, u.key, u.info, u.psk, u.psk_id, u.peer))
    BY <1>3 DEF SetupSender, Fail
  <2>3. CASE UNCHANGED <<hpke, seeds, senders, receivers, wire>>
    BY <2>3, RefusedStep
  <2>4. CASE hpke' = Drawn(i) /\ UNCHANGED <<seeds, senders, receivers, wire>>
    BY <2>1, <2>4, DrawStep
  <2>5. CASE /\ hpke' = Drawn(i) /\ UNCHANGED <<seeds, receivers, wire>>
             /\ senders' = Append(senders,
                             Sender(i, u.key, u.info, u.psk, u.psk_id, u.peer))
    <3>1. PICK c \in Contexts :
             /\ c = Sender(i, u.key, u.info, u.psk, u.psk_id, u.peer)
             /\ Coherent(c) /\ Enc(c.ctx.key) = Random(hpke[i])
      BY <2>1, SenderContext
    <3> QED
      BY <2>1, <2>5, <3>1, SenderStep DEF SenderJoins
  <2> QED
    BY <2>2, <2>3, <2>4, <2>5
<1>4. ASSUME NEW i \in Instances, NEW u \in SetupInputs, NEW s \in DOMAIN senders,
             SetupReceiver(i, s, u.key, u.info, u.psk, u.psk_id, u.peer)
      PROVE  IInv'
  <2> DEFINE receiver == Receiver(i, senders[s].about.zz.enc, u.key, u.info, u.psk,
                                  u.psk_id, u.peer)
  <2>1. hpke[i] # None
    BY <1>4 DEF SetupReceiver
  <2>2. \/ UNCHANGED <<hpke, seeds, senders, receivers, wire>>
        \/ /\ receivers' = Append(receivers, receiver)
           /\ UNCHANGED <<hpke, seeds, senders, wire>>
    BY <1>4 DEF SetupReceiver, Fail
  <2>3. PICK c \in Contexts : c = receiver /\ Coherent(c) /\ c.log = <<>>
    BY <2>1, ReceiverContext
  <2>4. Matched(c)
    BY <2>3 DEF Matched
  <2> HIDE DEF receiver
  <2> QED
    BY <2>2, <2>3, <2>4, RefusedStep, ReceiverStep
<1>5. ASSUME NEW s \in DOMAIN senders, NEW aad \in Aads, NEW pt \in Plaintexts,
             Seal(s, aad, pt)
      PROVE  IInv'
  <2>1. CASE UNCHANGED <<hpke, seeds, senders, receivers, wire>>
    BY <2>1, RefusedStep
  <2>2. CASE /\ SealCode(senders[s].ctx) = "Ok"
             /\ senders' = [senders EXCEPT ![s] = Advance(@, aad, pt)]
             /\ wire' = Append(wire, Sealed(senders[s].ctx, aad, pt))
             /\ UNCHANGED <<hpke, seeds, receivers>>
    <3>1. ~IncrementSeqFails(senders[s].ctx)
      BY <2>2 DEF SealCode
    <3> QED
      BY <2>2, <3>1, SealStep DEF SealsNext
  <2> QED
    BY <1>5, <2>1, <2>2 DEF Seal, Fail
<1>6. ASSUME NEW i \in Instances, NEW u \in SetupInputs, NEW aad \in Aads,
             NEW pt \in Plaintexts,
             SealOnce(i, u.key, u.info, u.psk, u.psk_id, u.peer, aad, pt)
      PROVE  IInv'
  <2> DEFINE sender == Sender(i, u.key, u.info, u.psk, u.psk_id, u.peer)
  <2>1. hpke[i] # None /\ hpke' = Drawn(i) /\ UNCHANGED <<seeds, receivers>>
    BY <1>6 DEF SealOnce
  <2>2. PICK c \in Contexts : /\ c = sender /\ Coherent(c) /\ c.log = <<>>
                              /\ Enc(c.ctx.key) = Random(hpke[i])
    BY <2>1, SenderContext
  <2>3. \/ UNCHANGED <<senders, wire>>
        \/ /\ SealCode(c.ctx) = "Ok"
           /\ senders' = Append(senders, [Advance(c, aad, pt) EXCEPT !.live = FALSE])
           /\ wire' = Append(wire, Sealed(c.ctx, aad, pt))
    BY <1>6, <2>2 DEF SealOnce
  <2> HIDE DEF sender
  <2>4. CASE UNCHANGED <<senders, wire>>
    BY <2>1, <2>4, DrawStep
  <2>5. CASE /\ SealCode(c.ctx) = "Ok"
             /\ senders' = Append(senders, [Advance(c, aad, pt) EXCEPT !.live = FALSE])
             /\ wire' = Append(wire, Sealed(c.ctx, aad, pt))
    <3>1. ~IncrementSeqFails(c.ctx)
      BY <2>5 DEF SealCode
    <3>2. PICK a \in Contexts :
             /\ a = Advance(c, aad, pt) /\ Coherent(a)
             /\ a.ctx.key = c.ctx.key /\ a.ctx.nonce = c.ctx.nonce
             /\ a.log = Append(c.log, <<aad, pt>>)
      BY <2>2, <3>1, AdvanceContext
    <3>3. PICK d \in Contexts :
             /\ d = [a EXCEPT !.live = FALSE] /\ Coherent(d)
             /\ d.ctx = a.ctx /\ d.log = a.log
      BY <3>2, Dropped
    <3>4. Len(d.log) = 1 /\ d.log[1] = <<aad, pt>>
      <4>1. ASSUME NEW m PROVE Len(Append(<<>>, m)) = 1 /\ Append(<<>>, m)[1] = m
        OBVIOUS
      <4>2. d.log = Append(<<>>, <<aad, pt>>)
        BY <2>2, <3>2, <3>3
      <4> QED
        BY <4>1, <4>2, Zenon
    <3>5. PICK w \in Ciphertexts :
             /\ w = Sealed(c.ctx, aad, pt) /\ w.key = c.ctx.key
             /\ w.nonce[1] = c.ctx.nonce /\ w.nonce[2] = c.ctx.seq
             /\ w.aad = aad /\ w.pt = pt
      BY SealedCiphertext
    <3>6. w.nonce[2] = 0
      <4>1. c.ctx.seq = Len(c.log)
        BY <2>2 DEF Coherent
      <4> QED
        BY <2>2, <3>5, <4>1
    <3>7. Made(w, d) /\ Enc(d.ctx.key) = Random(hpke[i])
      BY <2>2, <3>2, <3>3, <3>4, <3>5, <3>6 DEF Made
    <3>8. SenderJoins(d)
      BY <2>5, <3>2, <3>3, <3>5, <3>7 DEF SenderJoins
    <3> QED
      BY <2>1, <3>3, <3>7, <3>8, SenderStep
  <2> QED
    BY <2>3, <2>4, <2>5
<1>7. ASSUME NEW r \in DOMAIN receivers, NEW n \in DOMAIN wire, NEW aad \in Aads,
             Open(r, wire[n], aad)
      PROVE  IInv'
  <2>1. PICK c \in Contexts : c = receivers[r] /\ Coherent(c) /\ Matched(c)
    BY DEF IInv, TypeInv, ContextsInv, ReceiversInv
  <2>2. CASE UNCHANGED <<hpke, seeds, senders, receivers, wire>>
    BY <2>2, RefusedStep
  <2>3. CASE /\ OpenCode(c.ctx, wire[n], aad) = "Ok"
             /\ receivers' = [receivers EXCEPT ![r] = Advance(c, aad, wire[n].pt)]
             /\ UNCHANGED <<hpke, seeds, senders, wire>>
    <3>1. PICK d \in Contexts : /\ d = Advance(c, aad, wire[n].pt) /\ Coherent(d)
                                /\ \E s \in DOMAIN senders : Follows(d, s)
      BY <2>1, <2>3, OpensNext
    <3>2. Matched(d)
      BY <3>1 DEF Matched
    <3> QED
      BY <2>3, <3>1, <3>2, OpenStep
  <2> QED
    BY <1>7, <2>1, <2>2, <2>3 DEF Open, Fail
<1>8. ASSUME NEW i \in Instances, NEW u \in SetupInputs, NEW s \in DOMAIN senders,
             NEW n \in DOMAIN wire, NEW aad \in Aads,
             OpenOnce(i, s, u.key, u.info, u.psk, u.psk_id, u.peer, wire[n], aad)
      PROVE  IInv'
  <2> DEFINE receiver == Receiver(i, senders[s].about.zz.enc, u.key, u.info, u.psk,
                                  u.psk_id, u.peer)
  <2>1. hpke[i] # None
    BY <1>8 DEF OpenOnce
  <2>2. PICK c \in Contexts : c = receiver /\ Coherent(c) /\ c.log = <<>>
    BY <2>1, ReceiverContext
  <2>3. \/ UNCHANGED <<hpke, seeds, senders, receivers, wire>>
        \/ /\ OpenCode(c.ctx, wire[n], aad) = "Ok"
           /\ receivers' = Append(receivers,
                               [Advance(c, aad, wire[n].pt) EXCEPT !.live = FALSE])
           /\ UNCHANGED <<hpke, seeds, senders, wire>>
    BY <1>8, <2>2 DEF OpenOnce, Fail
  <2> HIDE DEF receiver
  <2>4. CASE UNCHANGED <<hpke, seeds, senders, receivers, wire>>
    BY <2>4, RefusedStep
  <2>5. CASE /\ OpenCode(c.ctx, wire[n], aad) = "Ok"
             /\ receivers' = Append(receivers,
                                [Advance(c, aad, wire[n].pt) EXCEPT !.live = FALSE])
             /\ UNCHANGED <<hpke, seeds, senders, wire>>
    <3>1. Matched(c)
      BY <2>2 DEF Matched
    <3>2. PICK a \in Contexts : /\ a = Advance(c, aad, wire[n].pt) /\ Coherent(a)
                                /\ \E t \in DOMAIN senders : Follows(a, t)
      BY <2>2, <2>5, <3>1, OpensNext
    <3>3. PICK d \in Contexts :
             /\ d = [a EXCEPT !.live = FALSE] /\ Coherent(d)
             /\ d.ctx = a.ctx /\ d.log = a.log
      BY <3>2, Dropped
    <3>4. Matched(d)
      BY <3>2, <3>3 DEF Matched, Follows
    <3> QED
      BY <2>5, <3>2, <3>3, <3>4, ReceiverStep
  <2> QED
    BY <2>3, <2>4, <2>5
<1>9. CASE UNCHANGED vars
  BY <1>9, RefusedStep DEF vars
<1> QED
  BY <1>1, <1>2, <1>3, <1>4, <1>5, <1>6, <1>7, <1>8, <1>9 DEF Next

-----------------------------------------------------------------------------
(* No two ciphertexts that HPKE returns are made under one key and nonce,  *)
(* for any number of configurations, clones of them, contexts and          *)
(* messages, and at the end of the 64-bit counter too.                     *)
THEOREM NoncesFresh == Spec => []SealsUnderFreshNonces
<1>1. IInv => SealsUnderFreshNonces
  BY DEF IInv
<1> QED
  BY <1>1, InitIInv, NextIInv, PTL DEF Spec

(* A receiver context that opened anything opened the beginning of what    *)
(* one sender, set up for it with the same inputs, sealed.                 *)
THEOREM ReceiversFollowOneSender == Spec => []OpensWhatOneSenderSealed
<1>1. IInv => OpensWhatOneSenderSealed
  <2> SUFFICES ASSUME IInv, NEW r \in DOMAIN receivers, receivers[r].log # <<>>
               PROVE  \E s \in DOMAIN senders :
                         /\ senders[s].about = receivers[r].about
                         /\ Len(receivers[r].log) <= Len(senders[s].log)
                         /\ receivers[r].log
                                = SubSeq(senders[s].log, 1, Len(receivers[r].log))
    BY DEF OpensWhatOneSenderSealed
  <2>1. PICK s \in DOMAIN senders : Follows(receivers[r], s)
    BY DEF IInv, ReceiversInv, Matched
  <2>2. senders[s].about = receivers[r].about
    <3>1. Coherent(senders[s]) /\ Coherent(receivers[r])
      BY DEF IInv, ContextsInv
    <3> QED
      BY <2>1, <3>1 DEF Coherent, Follows
  <2>3. senders[s].log \in Seq(Messages) /\ receivers[r].log \in Seq(Messages)
    <3>1. senders[s] \in Contexts /\ receivers[r] \in Contexts
      BY DEF IInv, TypeInv
    <3> QED
      BY <3>1 DEF Contexts
  <2> DEFINE a == receivers[r].log
             b == senders[s].log
  <2>4. Len(a) <= Len(b) /\ \A k \in 1 .. Len(a) : a[k] = b[k]
    BY <2>1 DEF Follows
  <2>5. a \in Seq(Messages) /\ b \in Seq(Messages)
    BY <2>3
  <2> HIDE DEF a, b
  <2>6. a = SubSeq(b, 1, Len(a))
    <3>1. Len(SubSeq(b, 1, Len(a))) = Len(a) /\ SubSeq(b, 1, Len(a)) \in Seq(Messages)
          /\ \A k \in 1 .. Len(a) : SubSeq(b, 1, Len(a))[k] = b[k]
      BY <2>4, <2>5
    <3> QED
      BY <2>4, <2>5, <3>1
  <2> QED
    BY <2>2, <2>4, <2>6 DEF a, b
<1> QED
  BY <1>1, InitIInv, NextIInv, PTL DEF Spec
=============================================================================
