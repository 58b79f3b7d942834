----------------------------- MODULE HpkeContext -----------------------------
(***************************************************************************)
(* HPKE: configurations with their PRNG, the set-up of sender and receiver *)
(* contexts in the four modes, and the contexts, which seal and open under *)
(* a 64-bit sequence number.  Ciphertexts may be lost, repeated and        *)
(* reordered on their way.                                                 *)
(*                                                                         *)
(* Keys are symbolic: a value a KDF or a KEM gives is the record of what   *)
(* went in.  The random bytes of a PRNG are its seed and a position.       *)
(***************************************************************************)
EXTENDS Naturals, Sequences

CONSTANTS Instances,       \* Hpke configurations alive at a time
          Configs,         \* records [mode, kem, aead]
          SetupInputs,     \* records [key, info, psk, psk_id, peer]
          Aads, Plaintexts,
          MaxSeeds, MaxSenders, MaxReceivers, MaxWire,
          SeqMax,          \* 2^64 - 1, u64::MAX
          NonceLimit,      \* 2^96 - 1, the AEAD's
          Short, None

ASSUME SeqMaxAssumption == SeqMax \in Nat

ASSUME ConfigsAssumption ==
    Configs \subseteq [mode : STRING, kem : STRING, aead : STRING]

VARIABLES hpke,      \* instance -> its configuration, or None
          seeds,     \* PRNG seeds drawn from the system
          senders, receivers,    \* contexts, in the order they were set up
          wire,      \* ciphertexts that were returned to a caller
          last       \* the result of the last call

vars == <<hpke, seeds, senders, receivers, wire, last>>

Auth(mode) == mode \in {"Auth", "AuthPsk"}
Psk(mode) == mode \in {"Psk", "AuthPsk"}

-----------------------------------------------------------------------------
(* encaps and auth_encaps: an ephemeral key from the PRNG, and a shared    *)
(* secret that binds it, the receiver and an authenticated sender.         *)
Encaps(random, pk_r, sk_s) == [enc |-> random, to |-> pk_r, from |-> sk_s]

Decaps(enc, sk_r, pk_s) == [enc |-> enc, to |-> sk_r, from |-> pk_s]

(* verify_psk_inputs: the first failing check names the error. *)
VerifyPskInputs(mode, psk, psk_id) ==
    CASE (psk # None) # (psk_id # None) -> "InconsistentPsk"
      [] psk # None /\ psk_id # None /\ ~Psk(mode) -> "UnnecessaryPsk"
      [] psk = None /\ psk_id = None /\ Psk(mode) -> "MissingPsk"
      [] psk = Short /\ psk_id # None /\ Psk(mode) -> "InsecurePsk"
      [] OTHER -> "Ok"

KeyScheduleNoInfo(cfg, zz, info, psk, psk_id) ==
    LET secret == [suite |-> <<cfg.kem, cfg.aead>>, zz |-> zz, psk |-> psk,
                   context |-> <<cfg.mode, psk_id>>]
    IN  [key |-> <<"key", secret>>, nonce |-> <<"base_nonce", secret>>,
         exporter |-> <<"exp", secret>>, seq |-> 0, aead |-> cfg.aead]

(* key, base_nonce and exporter_secret come from one secret by labels. *)
KeySchedule(cfg, zz, info, psk, psk_id) ==
    LET secret == [suite |-> <<cfg.kem, cfg.aead>>, zz |-> zz, psk |-> psk,
                   context |-> <<cfg.mode, psk_id, info>>]
    IN  [key |-> <<"key", secret>>, nonce |-> <<"base_nonce", secret>>,
         exporter |-> <<"exp", secret>>, seq |-> 0, aead |-> cfg.aead]

ComputeNonce(ctx) == <<ctx.nonce, ctx.seq>>

IncrementSeqFails(ctx) == ctx.seq >= NonceLimit \/ ctx.seq = SeqMax

-----------------------------------------------------------------------------
Return(op, code) == last' = [op |-> op, code |-> code]

Fail(op, code) ==
    Return(op, code) /\ UNCHANGED <<hpke, seeds, senders, receivers, wire>>

(* Hpke::new: a PRNG seeded from the system. *)
New(i, config) ==
    /\ hpke[i] = None
    /\ hpke' = [hpke EXCEPT ![i] = [mode |-> config.mode, kem |-> config.kem,
                                    aead |-> config.aead,
                                    prng |-> [seed |-> seeds, at |-> 0]]]
    /\ seeds' = seeds + 1
    /\ Return("new", "Ok")
    /\ UNCHANGED <<senders, receivers, wire>>

CloneWithPrng(i, j) ==
    /\ hpke[i] # None /\ hpke[j] = None
    /\ hpke' = [hpke EXCEPT ![j] = hpke[i]]
    /\ seeds' = seeds + 1
    /\ Return("clone", "Ok")
    /\ UNCHANGED <<senders, receivers, wire>>

(* Clone: the same configuration, a PRNG of its own. *)
Clone(i, j) ==
    /\ hpke[i] # None /\ hpke[j] = None
    /\ hpke' = [hpke EXCEPT ![j] = [hpke[i] EXCEPT
                                       !.prng = [seed |-> seeds, at |-> 0]]]
    /\ seeds' = seeds + 1
    /\ Return("clone", "Ok")
    /\ UNCHANGED <<senders, receivers, wire>>

Random(cfg) == <<cfg.prng.seed, cfg.prng.at>>

CanDraw(i) == hpke[i] # None /\ hpke[i].prng.at < MaxSenders

Drawn(i) == [hpke EXCEPT ![i].prng.at = @ + 1]

(* An authenticated mode needs the sender's key, which only the DH KEMs    *)
(* take, before anything is drawn.                                         *)
SenderRefused(cfg, sk_s) ==
    CASE Auth(cfg.mode) /\ sk_s = None -> "InvalidInput"
      [] Auth(cfg.mode) /\ sk_s # None /\ cfg.kem # "dh" -> "UnsupportedKemOperation"
      [] OTHER -> "Ok"

(* A context, and as history what it was set up with, the messages it      *)
(* returned, and whether its owner still has it.                           *)
Context(cfg, zz, info, psk, psk_id) ==
    [ctx |-> KeySchedule(cfg, zz, info, psk, psk_id),
     about |-> [zz |-> zz, mode |-> cfg.mode, info |-> info, psk |-> psk,
                psk_id |-> psk_id],
     log |-> <<>>, live |-> TRUE]

Sender(i, pk_r, info, psk, psk_id, sk_s) ==
    Context(hpke[i], Encaps(Random(hpke[i]), pk_r,
                            IF Auth(hpke[i].mode) THEN sk_s ELSE None),
            info, psk, psk_id)

(* setup_sender.  Drawing fails, or the Diffie-Hellman does; the PSK is    *)
(* looked at last, when the randomness is spent.                           *)
SetupSender(i, pk_r, info, psk, psk_id, sk_s) ==
    LET cfg     == hpke[i]
        refused == SenderRefused(cfg, sk_s)
        code    == VerifyPskInputs(cfg.mode, psk, psk_id)
    IN  /\ cfg # None
        /\ \/ refused # "Ok" /\ Fail("setup_sender", refused)
           \/ refused = "Ok" /\ Fail("setup_sender", "InsufficientRandomness")
           \/ /\ refused = "Ok"
              /\ hpke' = Drawn(i)
              /\ \/ Return("setup_sender", "CryptoError") /\ UNCHANGED senders
                 \/ /\ code # "Ok"
                    /\ Return("setup_sender", code) /\ UNCHANGED senders
                 \/ /\ code = "Ok"
                    /\ Return("setup_sender", code)
                    /\ senders' = Append(senders,
                                     Sender(i, pk_r, info, psk, psk_id, sk_s))
              /\ UNCHANGED <<seeds, receivers, wire>>

Receiver(i, enc, sk_r, info, psk, psk_id, pk_s) ==
    Context(hpke[i], Decaps(enc, sk_r, IF Auth(hpke[i].mode) THEN pk_s ELSE None),
            info, psk, psk_id)

ReceiverRefused(cfg, psk, psk_id, pk_s) ==
    IF SenderRefused(cfg, pk_s) # "Ok" THEN SenderRefused(cfg, pk_s)
    ELSE VerifyPskInputs(cfg.mode, psk, psk_id)

(* setup_receiver, of an encapsulation some sender made. *)
SetupReceiver(i, s, sk_r, info, psk, psk_id, pk_s) ==
    LET code == ReceiverRefused(hpke[i], psk, psk_id, pk_s)
    IN  /\ hpke[i] # None
        /\ \/ code # "Ok" /\ Fail("setup_receiver", code)
           \/ Fail("setup_receiver", "CryptoError")
           \/ /\ code = "Ok"
              /\ Return("setup_receiver", code)
              /\ receivers' = Append(receivers,
                     Receiver(i, senders[s].about.zz.enc, sk_r, info, psk,
                              psk_id, pk_s))
              /\ UNCHANGED <<hpke, seeds, senders, wire>>

(* seal encrypts before it looks at the limit: at the limit the ciphertext *)
(* is dropped and the number stays.                                        *)
Sealed(ctx, aad, pt) == [key |-> ctx.key, nonce |-> ComputeNonce(ctx),
                         aad |-> aad, pt |-> pt]

SealCode(ctx) == CASE ctx.aead = "export" -> "InvalidConfig"
                   [] ctx.aead # "export" /\ IncrementSeqFails(ctx) ->
                          "MessageLimitReached"
                   [] OTHER -> "Ok"

(* increment_seq, on a u64. *)
Advance(context, aad, pt) ==
    [context EXCEPT !.ctx.seq = (@ + 1) % (SeqMax + 1),
                    !.log = Append(@, <<aad, pt>>)]

Seal(s, aad, pt) ==
    LET ctx == senders[s].ctx
    IN  /\ senders[s].live
        /\ \/ SealCode(ctx) # "Ok" /\ Fail("seal", SealCode(ctx))
           \/ /\ SealCode(ctx) = "Ok"
              /\ senders' = [senders EXCEPT ![s] = Advance(@, aad, pt)]
              /\ wire' = Append(wire, Sealed(ctx, aad, pt))
              /\ Return("seal", "Ok")
              /\ UNCHANGED <<hpke, seeds, receivers>>

(* The one-shot seal: a sender context for one message. *)
SealOnce(i, pk_r, info, psk, psk_id, sk_s, aad, pt) ==
    LET sender == Sender(i, pk_r, info, psk, psk_id, sk_s)
    IN  /\ hpke[i] # None
        /\ SenderRefused(hpke[i], sk_s) = "Ok"
        /\ VerifyPskInputs(hpke[i].mode, psk, psk_id) = "Ok"
        /\ hpke' = Drawn(i)
        /\ Return("seal_once", SealCode(sender.ctx))
        /\ IF SealCode(sender.ctx) = "Ok"
           THEN /\ senders' = Append(senders, [Advance(sender, aad, pt)
                                                 EXCEPT !.live = FALSE])
                /\ wire' = Append(wire, Sealed(sender.ctx, aad, pt))
           ELSE UNCHANGED <<senders, wire>>
        /\ UNCHANGED <<seeds, receivers>>

(* open: the AEAD accepts what was sealed under this key, nonce and        *)
(* associated data, and nothing else.                                      *)
OpenCode(ctx, c, aad) ==
    CASE ctx.aead = "export" -> "InvalidConfig"
      [] ctx.aead # "export" /\ (\/ c.key # ctx.key \/ c.aad # aad
                                 \/ c.nonce # ComputeNonce(ctx)) -> "OpenError"
      [] OTHER -> SealCode(ctx)

Open(r, c, aad) ==
    LET code == OpenCode(receivers[r].ctx, c, aad)
    IN  /\ receivers[r].live
        /\ \/ code # "Ok" /\ Fail("open", code)
           \/ /\ code = "Ok"
              /\ receivers' = [receivers EXCEPT ![r] = Advance(@, aad, c.pt)]
              /\ Return("open", "Ok")
              /\ UNCHANGED <<hpke, seeds, senders, wire>>

(* The one-shot open: a receiver context for one message. *)
OpenOnce(i, s, sk_r, info, psk, psk_id, pk_s, c, aad) ==
    LET receiver == Receiver(i, senders[s].about.zz.enc, sk_r, info, psk,
                             psk_id, pk_s)
        code     == OpenCode(receiver.ctx, c, aad)
    IN  /\ hpke[i] # None
        /\ ReceiverRefused(hpke[i], psk, psk_id, pk_s) = "Ok"
        /\ \/ code # "Ok" /\ Fail("open_once", code)
           \/ /\ code = "Ok"
              /\ receivers' = Append(receivers, [Advance(receiver, aad, c.pt)
                                                   EXCEPT !.live = FALSE])
              /\ Return("open_once", "Ok")
              /\ UNCHANGED <<hpke, seeds, senders, wire>>

Init == /\ hpke = [i \in Instances |-> None] /\ seeds = 0
        /\ senders = <<>> /\ receivers = <<>> /\ wire = <<>>
        /\ last = [op |-> "none", code |-> "Ok"]

Next ==
    \/ \E i \in Instances, config \in Configs :
          seeds < MaxSeeds /\ New(i, config)
    \/ \E i, j \in Instances : seeds < MaxSeeds /\ Clone(i, j)
    \/ \E i \in Instances, u \in SetupInputs :
          /\ Len(senders) < MaxSenders /\ CanDraw(i)
          /\ SetupSender(i, u.key, u.info, u.psk, u.psk_id, u.peer)
    \/ \E i \in Instances, u \in SetupInputs, s \in DOMAIN senders :
          /\ Len(receivers) < MaxReceivers
          /\ SetupReceiver(i, s, u.key, u.info, u.psk, u.psk_id, u.peer)
    \/ \E s \in DOMAIN senders, aad \in Aads, pt \in Plaintexts :
          Len(wire) < MaxWire /\ Seal(s, aad, pt)
    \/ \E i \in Instances, u \in SetupInputs, aad \in Aads, pt \in Plaintexts :
          /\ Len(senders) < MaxSenders /\ CanDraw(i) /\ Len(wire) < MaxWire
          /\ SealOnce(i, u.key, u.info, u.psk, u.psk_id, u.peer, aad, pt)
    \/ \E r \in DOMAIN receivers, n \in DOMAIN wire, aad \in Aads :
          Open(r, wire[n], aad)
    \/ \E i \in Instances, u \in SetupInputs, s \in DOMAIN senders,
          n \in DOMAIN wire, aad \in Aads :
          /\ Len(receivers) < MaxReceivers
          /\ OpenOnce(i, s, u.key, u.info, u.psk, u.psk_id, u.peer, wire[n], aad)

Spec == Init /\ [][Next]_vars

-----------------------------------------------------------------------------
(* No two ciphertexts that were returned were made under the same key and  *)
(* nonce: by one context, by two of one configuration, or by those of a    *)
(* configuration and its clone.                                            *)
SealsUnderFreshNonces ==
    \A m, n \in DOMAIN wire :
        wire[m].key = wire[n].key /\ wire[m].nonce = wire[n].nonce => m = n

(* What a receiver context has opened is the beginning of what one sender  *)
(* context sealed, in its order, though ciphertexts are lost, repeated and *)
(* reordered; and that sender was set up for this receiver in this mode,   *)
(* with its info, its PSK and, in the authenticated modes, its key.        *)
OpensWhatOneSenderSealed ==
    \A r \in DOMAIN receivers :
        receivers[r].log # <<>> =>
            \E s \in DOMAIN senders :
                /\ senders[s].about = receivers[r].about
                /\ Len(receivers[r].log) <= Len(senders[s].log)
                /\ receivers[r].log
                       = SubSeq(senders[s].log, 1, Len(receivers[r].log))
=============================================================================
