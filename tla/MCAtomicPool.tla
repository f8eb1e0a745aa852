---------------------------- MODULE MCAtomicPool ----------------------------
(* Two threads allocate, and a third one also gives back what it is handed. *)
EXTENDS AtomicPool, TLC

CONSTANTS t1, t2, t3, a, b, c

MCThreads    == {t1, t2, t3}
MCAllocators == {t1, t2}
MCBlocks     == {a, b, c}
MCChunk      == <<a, b>>
Symmetry     == Permutations(MCAllocators)
=============================================================================
