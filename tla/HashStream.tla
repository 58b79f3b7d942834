----------------------------- MODULE HashStream -----------------------------
(***************************************************************************)
(* What an incremental hash or MAC promises: a handle stands for the       *)
(* message fed to it since it was allocated or reset, and asking it for a  *)
(* digest gives what hashing that message in one call would give, as often *)
(* as one asks.  How the message was cut into pieces is not remembered.    *)
(***************************************************************************)
EXTENDS Naturals, Sequences

CONSTANTS Handles, Algs,
          Keys(_),              \* the keys an algorithm can be given
          Params(_),            \* the parameters it can be given
          Inputs(_),            \* the pieces of message that can be fed
          Hash(_, _, _, _),     \* one-shot: algorithm, key, parameters, message
          Capacity(_, _),       \* longest message of an algorithm and a key
          Default,              \* the parameters a reset goes back to
          Copies(_),            \* does the algorithm have a copy operation
          Lengths(_),           \* output lengths one may ask for
          None

VARIABLES stream,   \* handle -> what it stands for, or None
          reply     \* the result of the last call

Answer(op, code) == [op |-> op, code |-> code, hash |-> None, length |-> 0]

Output(hash, l) == [op |-> "digest", code |-> "Success", hash |-> hash,
                    length |-> l]

Init == /\ stream = [h \in Handles |-> None]
        /\ reply = Answer("none", "Success")

Live(h) == stream[h] # None

Malloc(h) ==
    /\ reply' = Answer("malloc", "Success")
    /\ ~Live(h)
    /\ \E alg \in Algs : \E key \in Keys(alg), params \in Params(alg) :
          stream' = [stream EXCEPT ![h] = [alg |-> alg, key |-> key,
                                           params |-> params, data |-> <<>>]]

Reset(h) ==
    \/ /\ reply' = Answer("reset", "Success")
       /\ \E key \in Keys(stream[h].alg) :
             /\ Len(key) = Len(stream[h].key)
             /\ stream' = [stream EXCEPT ![h].key = key, ![h].data = <<>>,
                                         ![h].params = Default]
    \/ /\ reply' = Answer("reset", "InvalidKeyLength")
       /\ UNCHANGED stream

Copy(h, g) ==
    /\ reply' = Answer("copy", "Success")
    /\ Copies(stream[h].alg)
    /\ ~Live(g)
    /\ stream' = [stream EXCEPT ![g] = stream[h]]

(* A message that would pass the limit is refused, and only such a one. *)
Update(h) ==
    \/ /\ reply' = Answer("update", "Success")
       /\ \E chunk \in Inputs(stream[h].alg) :
             stream' = [stream EXCEPT ![h].data = @ \o chunk]
       /\ Len(stream'[h].data) <= Capacity(stream[h].alg, stream[h].key)
    \/ /\ reply' = Answer("update", "MaximumLengthExceeded")
       /\ \E chunk \in Inputs(stream[h].alg) :
             Len(stream[h].data) + Len(chunk)
                 > Capacity(stream[h].alg, stream[h].key)
       /\ UNCHANGED stream

Digest(h) ==
    /\ reply'.op = "digest"
    /\ \E l \in Lengths(stream[h].alg) :
          reply' = Output(Hash(stream[h].alg, stream[h].key,
                               stream[h].params, stream[h].data), l)
    /\ UNCHANGED stream

Refused ==
    /\ \E code \in {"InvalidAlgorithm", "InvalidLength"} :
          reply' = Answer("digest", code)
    /\ UNCHANGED stream

Release(h) == /\ reply' = Answer("free", "Success")
              /\ stream' = [stream EXCEPT ![h] = None]

Next == \E h \in Handles :
            \/ Malloc(h)
            \/ /\ Live(h)
               /\ \/ Reset(h) \/ Update(h) \/ Digest(h) \/ Refused \/ Release(h)
                  \/ \E g \in Handles : Copy(h, g)

Spec == Init /\ [][Next]_<<stream, reply>>
=============================================================================
