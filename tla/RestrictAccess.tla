---------------------------- MODULE RestrictAccess ----------------------------
(***************************************************************************)
(* Every export of an enclave first makes sure, once for all threads, that *)
(* the enclave may not touch its host's memory by accident                 *)
(* (EnableEnclaveRestrictContainingProcessAccessOnce).  The system call    *)
(* that does it takes TRUE on a new system and FALSE on an old one, so the *)
(* enclave probes which it is by calling it, and puts back what it found.  *)
(***************************************************************************)
CONSTANT Threads

VARIABLES
  pc,         \* where each thread is
  inverted,   \* the system is an old one
  restricted, \* the setting, as the system has it
  initial,    \* what it was when the enclave was loaded
  found,      \* initialValue of the probe
  value,      \* s_restrictionBooleanValue, once probed
  ran,        \* s_have_run_once
  lock,       \* holder of s_lock, or "none"
  failed      \* FAIL_FAST has ended the process

vars == <<pc, inverted, restricted, initial, found, value, ran, lock, failed>>

system == <<inverted, initial>>

Critical == {"recheck", "probe", "probe_again", "revert", "set", "store", "unlock"}
Calling  == {"probe", "probe_again", "revert", "set"}
Pc       == Critical \cup {"out", "check", "acquire", "in"}

At(t, l)   == ~failed /\ pc[t] = l
Goto(t, l) == pc' = [pc EXCEPT ![t] = l]

ASSUME RestrictAssumption == "none" \notin Threads

(* EnclaveRestrictContainingProcessAccess(in, &previous): the value of     *)
(* restricted before the step is what previous receives.                   *)
System(in) == restricted' = (in # inverted)

Init ==
  /\ pc = [t \in Threads |-> "out"]
  /\ inverted \in BOOLEAN /\ initial \in BOOLEAN /\ restricted = initial
  /\ found = FALSE /\ value = FALSE /\ ran = FALSE /\ lock = "none"
  /\ failed = FALSE

(* A call into the enclave begins, and one that ran ends.                  *)
Call(t) ==
  /\ At(t, "out")
  /\ Goto(t, "check")
  /\ UNCHANGED <<system, restricted, found, value, ran, lock, failed>>

Leave(t) ==
  /\ At(t, "in")
  /\ Goto(t, "out")
  /\ UNCHANGED <<system, restricted, found, value, ran, lock, failed>>

Check(t) ==
  /\ At(t, "check")
  /\ Goto(t, IF ran THEN "in" ELSE "acquire")
  /\ UNCHANGED <<system, restricted, found, value, ran, lock, failed>>

(* Mutant: nobody waits for the lock.                                      *)
AcquireShared(t) ==
  /\ At(t, "acquire")
  /\ lock' = t
  /\ Goto(t, "recheck")
  /\ UNCHANGED <<system, restricted, found, value, ran, failed>>

Acquire(t) ==
  /\ At(t, "acquire") /\ lock = "none"
  /\ lock' = t
  /\ Goto(t, "recheck")
  /\ UNCHANGED <<system, restricted, found, value, ran, failed>>

(* Mutant: a thread that finds the work done keeps the lock.               *)
RecheckKeepsLock(t) ==
  /\ At(t, "recheck")
  /\ Goto(t, IF ran THEN "in" ELSE "probe")
  /\ UNCHANGED <<system, restricted, found, value, ran, lock, failed>>

Recheck(t) ==
  /\ At(t, "recheck")
  /\ Goto(t, IF ran THEN "unlock" ELSE "probe")
  /\ UNCHANGED <<system, restricted, found, value, ran, lock, failed>>

(* ApiExpectsInvertedBoolean: set TRUE twice, see what the second call     *)
(* says of the first, and put back the initial setting.                    *)
Probe(t) ==
  /\ At(t, "probe")
  /\ found' = restricted
  /\ System(TRUE)
  /\ Goto(t, "probe_again")
  /\ UNCHANGED <<system, value, ran, lock, failed>>

ProbeAgain(t) ==
  /\ At(t, "probe_again")
  /\ value' = restricted
  /\ System(TRUE)
  /\ Goto(t, "revert")
  /\ UNCHANGED <<system, found, ran, lock, failed>>

Revert(t) ==
  /\ At(t, "revert")
  /\ System(IF value THEN found ELSE ~found)
  /\ Goto(t, "set")
  /\ UNCHANGED <<system, found, value, ran, lock, failed>>

(* Mutant: every system is taken for a new one.                            *)
SetTrue(t) ==
  /\ At(t, "set")
  /\ System(TRUE)
  /\ Goto(t, "store")
  /\ UNCHANGED <<system, found, value, ran, lock, failed>>

SetRestricted(t) ==
  /\ At(t, "set")
  /\ System(value)
  /\ Goto(t, "store")
  /\ UNCHANGED <<system, found, value, ran, lock, failed>>

Store(t) ==
  /\ At(t, "store")
  /\ ran' = TRUE
  /\ Goto(t, "unlock")
  /\ UNCHANGED <<system, restricted, found, value, lock, failed>>

Unlock(t) ==
  /\ At(t, "unlock")
  /\ lock' = "none"
  /\ Goto(t, "in")
  /\ UNCHANGED <<system, restricted, found, value, ran, failed>>

(* A system call fails: nothing in the enclave runs again.                 *)
SystemFails(t) ==
  /\ ~failed /\ pc[t] \in Calling
  /\ failed' = TRUE
  /\ UNCHANGED <<pc, system, restricted, found, value, ran, lock>>

Step(t) == \/ Check(t) \/ Acquire(t) \/ Recheck(t) \/ Probe(t) \/ ProbeAgain(t)
           \/ Revert(t) \/ SetRestricted(t) \/ Store(t) \/ Unlock(t)

Next == \E t \in Threads : Call(t) \/ Leave(t) \/ Step(t) \/ SystemFails(t)

Safety == Init /\ [][Next]_vars
Spec   == Safety /\ \A t \in Threads : WF_vars(Step(t))

-----------------------------------------------------------------------------
(* Type invariant, with the lock and its holder.                           *)
TypeOK ==
  /\ pc \in [Threads -> Pc]
  /\ inverted \in BOOLEAN /\ initial \in BOOLEAN /\ restricted \in BOOLEAN
  /\ found \in BOOLEAN /\ ran \in BOOLEAN /\ failed \in BOOLEAN
  /\ value \in BOOLEAN
  /\ \A t \in Threads : pc[t] \in Critical <=> lock = t

(* No thread runs an export before the restriction is on, whichever system *)
(* it is and whoever came first, and it stays on                           *)
(* (EnclaveHelpers.h:30-46, MemoryChecks.h:124-188).                       *)
RestrictedInside == \A t \in Threads : pc[t] = "in" => restricted

(* The probe leaves the setting as it found it: "Revert setting to initial *)
(* value" (MemoryChecks.h:138, 147).                                       *)
ProbeReverts == \A t \in Threads : pc[t] = "set" => restricted = initial

(* Every call gets into the enclave unless the process ends                *)
(* (EnclaveHelpers.h:30-46).                                               *)
GetsIn == \A t \in Threads : pc[t] = "check" ~> pc[t] = "in" \/ failed
==============================================================================
