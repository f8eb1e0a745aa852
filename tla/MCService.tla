------------------------------ MODULE MCService ------------------------------
(* More sessions than slots, so that slots are reused and clients refused.  *)
EXTENDS Service, TLC

CONSTANTS s1, s2, s3, r1

MCSessions == {s1, s2, s3}
MCReaders  == {r1}

MCSymmetry == Permutations(Sessions)
=============================================================================
