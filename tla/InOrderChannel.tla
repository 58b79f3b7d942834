--------------------------- MODULE InOrderChannel ---------------------------
(***************************************************************************)
(* What a PSQ transport channel promises: on each stream the receiver      *)
(* obtains the payloads in the order in which the sender passed them in,   *)
(* with nothing skipped, repeated or invented.  It may stop early.         *)
(***************************************************************************)
EXTENDS Naturals, Sequences

CONSTANTS Streams, Payloads

VARIABLES sent,      \* stream -> payloads passed to write_message, in order
          received   \* stream -> payloads returned by read_message, in order

Init == /\ sent = [s \in Streams |-> <<>>]
        /\ received = [s \in Streams |-> <<>>]

Send(s) == \E p \in Payloads :
              /\ sent' = [sent EXCEPT ![s] = Append(@, p)]
              /\ UNCHANGED received

Receive(s) ==
    /\ Len(received[s]) < Len(sent[s])
    /\ received' = [received EXCEPT ![s] = Append(@, sent[s][Len(@) + 1])]
    /\ UNCHANGED sent

Next == \E s \in Streams : Send(s) \/ Receive(s)

Spec == Init /\ [][Next]_<<sent, received>>
=============================================================================
