--------------------------- MODULE MCCpuFeatures ----------------------------
(* CpuFeatures for TLC: the four words of x86.rs, each with a value of its *)
(* own, and interchangeable threads.                                       *)
EXTENDS CpuFeatures, TLC

X86Words == <<"leaf1_ecx", "leaf1_edx", "leaf7_ebx", "xcr0">>

X86Machine == [w \in {"leaf1_ecx", "leaf1_edx", "leaf7_ebx", "xcr0"} |->
                  CHOOSE n \in 1..4 : X86Words[n] = w]

ThreadSymmetry == Permutations(Threads)
=============================================================================
