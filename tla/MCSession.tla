------------------------------ MODULE MCSession ------------------------------
(* One connection served by interchangeable workers and borrowed by other   *)
(* threads.                                                                 *)
EXTENDS Session, TLC

CONSTANTS w1, w2, w3, b1, b2

MCTwoWorkers   == {w1, w2}
MCThreeWorkers == {w1, w2, w3}
MCBorrower     == {b1}
MCBorrowers    == {b1, b2}

MCSymmetry == Permutations(Workers) \cup Permutations(Borrowers)
=============================================================================
