----------------------------- MODULE MCRangeCheck -----------------------------
(* Model-checking values for RangeCheck.                                    *)
EXTENDS RangeCheck, TLC

CONSTANTS t1, t2

TwoThreads == {t1, t2}

ThreadSymmetry == Permutations(Threads)
==============================================================================
