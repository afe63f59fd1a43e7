----------------------------- MODULE RestrictProofs -----------------------------
(***************************************************************************)
(* No export runs unrestricted, for any number of threads and on either    *)
(* kind of system.                                                         *)
(***************************************************************************)
EXTENDS RestrictAccess, TLAPS

Working == Critical \ {"unlock"}

(* Where the thread with the lock is tells what it has done: nothing until *)
(* it has probed, and the system takes value for TRUE from then on.  Once  *)
(* ran is set the work is done, and it is set before anybody is in.        *)
Progress ==
  \A t \in Threads :
    /\ pc[t] \in {"recheck", "probe"} /\ ~ran => restricted = initial
    /\ pc[t] \in Working \ {"recheck"} => ~ran
    /\ pc[t] \in {"probe_again", "revert"} => restricted # inverted /\ found = initial
    /\ pc[t] \in {"revert", "set"} => value # inverted
    /\ pc[t] = "set" => restricted = initial
    /\ pc[t] = "store" => restricted
    /\ pc[t] \in {"unlock", "in"} => ran

Idle == lock = "none" /\ ~ran => restricted = initial

IInv == TypeOK /\ Progress /\ Idle /\ (ran => restricted)

(* The inductive invariant holds at the start.                             *)
LEMMA InitIInv == Init => IInv
BY RestrictAssumption
   DEF Init, IInv, TypeOK, Progress, Idle, Pc, Critical, Working

(* Every step preserves it.                                                *)
LEMMA NextIInv == IInv /\ [Next]_vars => IInv'
<1> SUFFICES ASSUME IInv, [Next]_vars PROVE IInv'
  OBVIOUS
<1> USE RestrictAssumption
    DEF IInv, TypeOK, Progress, Idle, Pc, Critical, Working, Calling,
        At, Goto, system, System
<1>1. ASSUME NEW t \in Threads, Call(t) PROVE IInv'
  BY <1>1 DEF Call
<1>2. ASSUME NEW t \in Threads, Leave(t) PROVE IInv'
  BY <1>2 DEF Leave
<1>3. ASSUME NEW t \in Threads, Check(t) PROVE IInv'
  BY <1>3 DEF Check
<1>4. ASSUME NEW t \in Threads, Acquire(t) PROVE IInv'
  BY <1>4 DEF Acquire
<1>5. ASSUME NEW t \in Threads, Recheck(t) PROVE IInv'
  BY <1>5 DEF Recheck
<1>6. ASSUME NEW t \in Threads, Probe(t) PROVE IInv'
  BY <1>6 DEF Probe
<1>7. ASSUME NEW t \in Threads, ProbeAgain(t) PROVE IInv'
  BY <1>7 DEF ProbeAgain
<1>8. ASSUME NEW t \in Threads, Revert(t) PROVE IInv'
  BY <1>8 DEF Revert
<1>9. ASSUME NEW t \in Threads, SetRestricted(t) PROVE IInv'
  BY <1>9 DEF SetRestricted
<1>10. ASSUME NEW t \in Threads, Store(t) PROVE IInv'
  BY <1>10 DEF Store
<1>11. ASSUME NEW t \in Threads, Unlock(t) PROVE IInv'
  BY <1>11 DEF Unlock
<1>12. ASSUME NEW t \in Threads, SystemFails(t) PROVE IInv'
  BY <1>12 DEF SystemFails
<1>13. CASE UNCHANGED vars
  BY <1>13 DEF vars
<1> QED
  BY <1>1, <1>2, <1>3, <1>4, <1>5, <1>6, <1>7, <1>8, <1>9, <1>10, <1>11, <1>12,
     <1>13 DEF Next, Step

(* The invariant holds in every reachable state.                           *)
THEOREM Invariance == Safety => []IInv
BY InitIInv, NextIInv, PTL DEF Safety

(* The state is always well typed and the lock has one holder              *)
(* (EnclaveHelpers.h:30-46).                                               *)
THEOREM Typing == Safety => []TypeOK
<1>1. IInv => TypeOK
  BY DEF IInv
<1> QED
  BY <1>1, Invariance, PTL

(* No export runs before the enclave may not touch its host's memory by    *)
(* accident (EnclaveHelpers.h:30-46, MemoryChecks.h:124-188).              *)
THEOREM Restricted == Safety => []RestrictedInside
<1>1. IInv => RestrictedInside
  BY DEF IInv, Progress, RestrictedInside
<1> QED
  BY <1>1, Invariance, PTL

(* The probe puts back what it found, whatever the system makes of TRUE    *)
(* (MemoryChecks.h:138, 147).                                              *)
THEOREM Reverts == Safety => []ProbeReverts
<1>1. IInv => ProbeReverts
  BY DEF IInv, Progress, ProbeReverts
<1> QED
  BY <1>1, Invariance, PTL
==============================================================================
