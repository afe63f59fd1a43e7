----------------------------- MODULE MCTaskpool -----------------------------
(* Model-checking values for Taskpool.                                     *)
EXTENDS TaskpoolInv, TLC

CONSTANTS w1, w2, owner, peer

OneWorker  == {w1}
TwoWorkers == {w1, w2}
OwnerOnly  == {owner}
TwoUsers   == {owner, peer}
None       == {}

WorkerSymmetry == Permutations(Workers)
==============================================================================
