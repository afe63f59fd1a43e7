------------------------------- MODULE MCAbiCall -------------------------------
(* Model-checking values for AbiCall.                                       *)
EXTENDS AbiCall, TLC

CONSTANTS t1, t2, b1, b2, b3, b4, b5

TwoThreads  == {t1, t2}
FiveBuffers == {b1, b2, b3, b4, b5}

(* Everything but what leaks a buffer; and that alone.                      *)
TidyFaults   == Fault \ {"context"}
ContextFault == {"context"}

CallSymmetry == Permutations(Threads) \cup Permutations(Buffers)
==============================================================================
