---------------------------- MODULE CpuFeatures -----------------------------
(***************************************************************************)
(* CPU feature detection of libcrux-platform (crates/sys/platform): the    *)
(* words that say what the machine supports are static atomics that every  *)
(* thread fills in on first use, without a lock (x86.rs, FeatureBits;      *)
(* linux_arm.rs, AES, PMULL, SHA256).                                      *)
(*                                                                         *)
(* Memory is weak.  A thread is sure to see a store only if it made it, or *)
(* saw it before, or learnt of it through an acquire load of initialized   *)
(* that read a release store made after it; of any other store it may or   *)
(* may not see the value.  view[t] holds the words whose stores t is sure  *)
(* to see; a release store carries the view of its thread.  All stores to  *)
(* a word write the same value, what the machine reports.                  *)
(***************************************************************************)
EXTENDS Naturals, Sequences

CONSTANTS
    Threads,
    Words,       \* the words, in the order publish stores them
    Machine      \* word -> what cpuid, xgetbv or getauxval reports

ASSUME WordsAssumption == Words \in Seq(DOMAIN Machine)

Zero == 0        \* the initial value of every word

AllWords == {Words[n] : n \in 1..Len(Words)}
Values == {Zero} \cup {Machine[w] : w \in AllWords}

VARIABLES
    pc,          \* thread -> where it is in init or supported
    next,        \* thread -> the next store of publish
    view,        \* thread -> words whose final value it must see
    sure,        \* thread -> it must see initialized true
    stored,      \* words some thread has stored
    released,    \* the views carried by the stores to initialized
    got          \* thread -> words and values it read in this call

vars == <<pc, next, view, sure, stored, released, got>>

Init == /\ pc = [t \in Threads |-> "idle"]
        /\ next = [t \in Threads |-> 1]
        /\ view = [t \in Threads |-> {}]
        /\ sure = [t \in Threads |-> FALSE]
        /\ stored = {}
        /\ released = {}
        /\ got = [t \in Threads |-> {}]

-----------------------------------------------------------------------------
(* init: the acquire load of initialized reads true from one of the stores *)
(* or, unless the thread knows better, the initial false.                  *)
LoadTrueRelaxed(t) ==
    /\ pc[t] = "idle"
    /\ released # {}
    /\ sure' = [sure EXCEPT ![t] = TRUE]
    /\ pc' = [pc EXCEPT ![t] = "ready"]
    /\ UNCHANGED <<next, view, stored, released, got>>

LoadTrue(t) ==
    /\ pc[t] = "idle"
    /\ \E v \in released : view' = [view EXCEPT ![t] = @ \cup v]
    /\ sure' = [sure EXCEPT ![t] = TRUE]
    /\ pc' = [pc EXCEPT ![t] = "ready"]
    /\ UNCHANGED <<next, stored, released, got>>

LoadFalse(t) ==
    /\ pc[t] = "idle"
    /\ ~sure[t]
    /\ pc' = [pc EXCEPT ![t] = "publishing"]
    /\ UNCHANGED <<next, view, sure, stored, released, got>>

(* publish: one relaxed store after the other, then the release store.     *)
Store(t) ==
    /\ pc[t] = "publishing"
    /\ next[t] <= Len(Words)
    /\ stored' = stored \cup {Words[next[t]]}
    /\ view' = [view EXCEPT ![t] = @ \cup {Words[next[t]]}]
    /\ next' = [next EXCEPT ![t] = @ + 1]
    /\ UNCHANGED <<pc, sure, released, got>>

PublishEarly(t) ==
    /\ pc[t] = "publishing"
    /\ next[t] = Len(Words)
    /\ released' = released \cup {view[t]}
    /\ sure' = [sure EXCEPT ![t] = TRUE]
    /\ pc' = [pc EXCEPT ![t] = "ready"]
    /\ UNCHANGED <<next, view, stored, got>>

Publish(t) ==
    /\ pc[t] = "publishing"
    /\ next[t] > Len(Words)
    /\ released' = released \cup {view[t]}
    /\ sure' = [sure EXCEPT ![t] = TRUE]
    /\ pc' = [pc EXCEPT ![t] = "ready"]
    /\ UNCHANGED <<next, view, stored, got>>

(* supported, aes, pmull, sha256: relaxed loads after init.                *)
Visible(t, w) ==
    IF w \in view[t] THEN {Machine[w]}
    ELSE IF w \in stored THEN {Zero, Machine[w]} ELSE {Zero}

Load(t, w) ==
    /\ pc[t] = "ready"
    /\ \E value \in Visible(t, w) :
          /\ got' = [got EXCEPT ![t] = @ \cup {<<w, value>>}]
          /\ view' = IF value = Machine[w]
                     THEN [view EXCEPT ![t] = @ \cup ({w} \cap stored)]
                     ELSE view
    /\ UNCHANGED <<pc, next, sure, stored, released>>

Return(t) ==
    /\ pc[t] = "ready"
    /\ pc' = [pc EXCEPT ![t] = "idle"]
    /\ got' = [got EXCEPT ![t] = {}]
    /\ UNCHANGED <<next, view, sure, stored, released>>

Next == \E t \in Threads :
            \/ LoadTrue(t)
            \/ LoadFalse(t)
            \/ Store(t)
            \/ Publish(t)
            \/ Return(t)
            \/ \E w \in AllWords : Load(t, w)

Spec == Init /\ [][Next]_vars

-----------------------------------------------------------------------------
(* Types: program counters, the store reached in publish, and views made   *)
(* of words that were stored.                                              *)
TypeOK ==
    /\ pc \in [Threads -> {"idle", "publishing", "ready"}]
    /\ next \in [Threads -> 1 .. Len(Words) + 1]
    /\ stored \in SUBSET AllWords
    /\ view \in [Threads -> SUBSET stored]
    /\ sure \in [Threads -> BOOLEAN]
    /\ released \in SUBSET SUBSET stored
    /\ got \in [Threads -> SUBSET (AllWords \X Values)]

(* Whatever threads run init at once, every word a thread reads after its  *)
(* own init is what the machine reports, never the initial zero and never  *)
(* a mix of the two: "different threads will always write the same         *)
(* results", and the load-acquire gives the happens-before edge.           *)
ReadsFinalValues ==
    \A t \in Threads : \A g \in got[t] : g[2] = Machine[g[1]]
=============================================================================
