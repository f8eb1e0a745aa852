------------------------------- MODULE MCSector -------------------------------
(* Three sectors let a player go on before the first one has noticed.       *)
EXTENDS Sector, TLC

CONSTANTS a, b, c, w1, w2

MCSectors == {a, b, c}
MCPair    == {a, b}
MCWorkers == {w1, w2}

MCSymmetry == Permutations(Sectors) \cup Permutations(Workers)
=============================================================================
