------------------------------- MODULE MCFuture -------------------------------
(* Model-checking values for Future.                                        *)
EXTENDS Future

CONSTANTS s1, s2, s3

ThreeSetters == {s1, s2, s3}
==============================================================================
