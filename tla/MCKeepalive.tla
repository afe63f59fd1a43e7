----------------------------- MODULE MCKeepalive -----------------------------
(* Model-checking values for Keepalive.                                     *)
EXTENDS Keepalive

CONSTANTS c1, c2, c3

ThreeCallers == {c1, c2, c3}
==============================================================================
