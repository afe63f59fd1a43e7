--------------------------- MODULE MCRestrictAccess ---------------------------
(* Model-checking values for RestrictAccess.                                *)
EXTENDS RestrictAccess

CONSTANTS t1, t2, t3

ThreeThreads == {t1, t2, t3}
==============================================================================
