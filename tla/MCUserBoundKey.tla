---------------------------- MODULE MCUserBoundKey ----------------------------
(* Model-checking values for UserBoundKey.                                  *)
EXTENDS UserBoundKey

CONSTANTS c1, c2, n1

TwoCallers   == {c1, c2}
OneName      == {n1}

(* An option the host knows, and one it maps to another.                    *)
KnownAndOther == {0, 7}

AllFaults == {"system", "return"}
==============================================================================
