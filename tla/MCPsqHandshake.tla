--------------------------- MODULE MCPsqHandshake ---------------------------
(* The configurations of initiators and responders that TLC explores.      *)
EXTENDS PsqHandshake, TLC

CONSTANT TheResponder

Initiator(mode, suite, identity, context, nc) ==
    [mode |-> mode, peer |-> TheResponder, suite |-> suite,
     identity |-> identity, context |-> context, nc |-> nc]

Responder(suite, nc, bound) ==
    [suite |-> suite, context |-> "ctx", nc |-> nc, bound |-> bound]

(* Every pair of suites, contexts and builds, and queries. *)
InteropInitiators ==
    {Initiator("registration", s, "a", c, nc) :
        s \in Suites, c \in {"ctx", "other ctx"}, nc \in BOOLEAN}
    \cup {Initiator("query", QuerySuite, "a", "ctx", nc) : nc \in BOOLEAN}

InteropResponders == {Responder(s, nc, 1) : s \in Suites, nc \in BOOLEAN}

Suite(pq, auth) == [pq |-> pq, auth |-> auth, aead |-> "CHACHA20POLY1305"]

(* A PQ responder, and initiators it serves with and without PQ, by        *)
(* Diffie-Hellman and by signature, or only answers.                       *)
FaultInitiators ==
    {Initiator("registration", Suite("MLKEM768", "MLDSA65"), "a", "ctx",
               FALSE),
     Initiator("registration", Suite("NONE", "X25519"), "b", "ctx", FALSE),
     Initiator("query", QuerySuite, "c", "ctx", TRUE)}

FaultResponders == {Responder(Suite("MLKEM768", "MLDSA65"), FALSE, 1)}

(* Same PQ KEM, other authentication. *)
MixedInitiators ==
    {Initiator("registration", Suite("MLKEM768", "X25519"), "a", "ctx",
               FALSE)}

(* Initiators are told apart by their configurations only. *)
InitiatorSymmetry == Permutations(Initiators)

(* No step depends on the last result, nor does an invariant of the runs   *)
(* with this view.                                                         *)
ViewWithoutResult ==
    <<icfg, rcfg, ist, rst, working, recent, neph, net, seen, sealed,
      completed, sessions, answered>>
=============================================================================
