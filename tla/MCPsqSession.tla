---------------------------- MODULE MCPsqSession ----------------------------
(* PsqSession for TLC: bounds on what the two ends do together, namely the *)
(* keys they derive, the channels they open, the copies they store and the *)
(* loads of these, and the symmetry of the imported secrets, which are     *)
(* only compared.                                                          *)
EXTENDS PsqSession, FiniteSetsExt, TLC

CONSTANTS MaxKeys, MaxChannels, MaxStores, MaxLoads

Loads(e) == MapThenSumSet(LAMBDA k : storage[e][k].loads, DOMAIN storage[e])

Bounded ==
    /\ Cardinality(derived) <= MaxKeys
    /\ Len(channels["initiator"]) + Len(channels["responder"]) <= MaxChannels
    /\ Len(storage["initiator"]) + Len(storage["responder"]) <= MaxStores
    /\ Loads("initiator") + Loads("responder") <= MaxLoads

PskSymmetry == Permutations(Psks)
=============================================================================
