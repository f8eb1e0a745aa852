------------------------------- MODULE MCLogin -------------------------------
(* Three connections of one user, of which two may be lost.                *)
EXTENDS Login, TLC

CONSTANTS s1, s2, s3, n1

MCSessions == {s1, s2, s3}
MCNames    == {n1}
MCUser     == s1 :> n1 @@ s2 :> n1 @@ s3 :> n1
MCLossy    == {s1, s2}
=============================================================================
