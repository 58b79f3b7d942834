--------------------------- MODULE MCPsqTransport ---------------------------
EXTENDS PsqTransport

CONSTANTS MaxStreamLen      \* bound on the payloads passed to each stream

(* Writers stop before their keys do, on all streams but the initiator's   *)
(* first one: the other streams only need to interfere with it.            *)
BoundedWrites ==
    \A s \in Streams \ {<<"initiator", 0>>} : Len(sent[s]) <= MaxStreamLen

MCSpec == /\ Init /\ [][Next /\ BoundedWrites']_vars
          /\ Fairness
=============================================================================
