------------------------------ MODULE Keepalive ------------------------------
(***************************************************************************)
(* How an enclave object with automatic storage survives the calls VTL0    *)
(* makes on it: weak_object_table, keepalive_mechanism and the             *)
(* keepalive_object_proxy whose destructor fulfils a promise.              *)
(*                                                                         *)
(* VTL0 names the object by id and may call at any time and any number of  *)
(* times, also while the object is being destroyed.  A call resolves the   *)
(* id to a strong reference, uses the object, and drops the reference; the *)
(* owner erases the id, drops its own reference and waits for the promise. *)
(***************************************************************************)
EXTENDS Naturals

CONSTANTS Callers, Owner

ASSUME KeepaliveAssumption == Owner \notin Callers

VARIABLES
  pc,      \* where each thread is
  entry,   \* the weak table has the id
  refs,    \* threads that own a strong reference to the proxy
  ready,   \* shared_state.m_ready of the proxy's promise
  signals, \* calls of set_value on that promise (at most 2 are counted)
  object   \* the object's storage exists

vars == <<pc, entry, refs, ready, signals, object>>

Threads == Callers \cup {Owner}
At(c, l)   == pc[c] = l
Goto(c, l) == pc' = [pc EXCEPT ![c] = l]

CallerPc == {"out", "resolve", "use", "drop", "signal"}
OwnerPc  == {"live", "erase", "drop", "signal", "wait", "blocked", "woken", "gone"}

Init ==
  /\ pc = [c \in Threads |-> IF c = Owner THEN "live" ELSE "out"]
  /\ entry = TRUE /\ refs = {Owner}
  /\ ready = FALSE /\ signals = 0 /\ object = TRUE

-----------------------------------------------------------------------------
(* A call from VTL0 arrives.                                               *)
CallIn(c) ==
  /\ At(c, "out")
  /\ Goto(c, "resolve")
  /\ UNCHANGED <<entry, refs, ready, signals, object>>

(* resolve_strong_reference: find and weak_ptr::lock under the shared lock. *)
Resolve(c) ==
  /\ At(c, "resolve")
  /\ IF entry /\ refs # {}
     THEN refs' = refs \cup {c} /\ Goto(c, "use")
     ELSE UNCHANGED refs /\ Goto(c, "out")
  /\ UNCHANGED <<entry, ready, signals, object>>

(* The call works on the object and is done with it.                       *)
Use(c) ==
  /\ At(c, "use")
  /\ Goto(c, "drop")
  /\ UNCHANGED <<entry, refs, ready, signals, object>>

(* Mutant: the owner fulfils the promise itself as well.                   *)
DropSignals(c) ==
  /\ At(c, "drop")
  /\ refs' = refs \ {c}
  /\ Goto(c, IF refs = {c} \/ c = Owner THEN "signal" ELSE "out")
  /\ UNCHANGED <<entry, ready, signals, object>>

(* Mutant: the owner leaves without waiting for the promise.               *)
DropLeaves(c) ==
  /\ At(c, "drop")
  /\ refs' = refs \ {c}
  /\ Goto(c, IF refs = {c} THEN "signal" ELSE "out")
  /\ UNCHANGED <<entry, ready, signals, object>>

(* A shared_ptr goes: the last one destroys the proxy.                     *)
Drop(c) ==
  /\ At(c, "drop")
  /\ refs' = refs \ {c}
  /\ Goto(c, IF refs = {c} THEN "signal" ELSE IF c = Owner THEN "wait" ELSE "out")
  /\ UNCHANGED <<entry, ready, signals, object>>

(* ~keepalive_object_proxy: set_value under the state's lock, notify_all.  *)
Signal(c) ==
  /\ At(c, "signal")
  /\ ready' = TRUE
  /\ signals' = IF signals = 2 THEN 2 ELSE signals + 1
  /\ pc' = [t \in Threads |->
              IF t = c THEN IF c = Owner THEN "wait" ELSE "out"
              ELSE IF pc[t] = "blocked" THEN "woken" ELSE pc[t]]
  /\ UNCHANGED <<entry, refs, object>>

-----------------------------------------------------------------------------
(* The destructor of the object begins.                                    *)
Destroy ==
  /\ At(Owner, "live")
  /\ Goto(Owner, "erase")
  /\ UNCHANGED <<entry, refs, ready, signals, object>>

(* Mutant: the id stays in the weak table.                                 *)
EraseNothing ==
  /\ At(Owner, "erase")
  /\ Goto(Owner, "drop")
  /\ UNCHANGED <<entry, refs, ready, signals, object>>

Erase ==
  /\ At(Owner, "erase")
  /\ entry' = FALSE
  /\ Goto(Owner, "drop")
  /\ UNCHANGED <<refs, ready, signals, object>>

(* Mutant: a wake-up is taken for the promise.                             *)
WaitForAnyWake ==
  /\ At(Owner, "wait") \/ At(Owner, "woken")
  /\ Goto(Owner, IF ready \/ At(Owner, "woken") THEN "gone" ELSE "blocked")
  /\ object' = (object /\ ~ready /\ ~At(Owner, "woken"))
  /\ UNCHANGED <<entry, refs, ready, signals>>

(* wait_for_ready: test m_ready with the lock held, sleep if it is not     *)
(* set; get returns and the members are destroyed once it is.              *)
WaitForReady ==
  /\ At(Owner, "wait") \/ At(Owner, "woken")
  /\ Goto(Owner, IF ready THEN "gone" ELSE "blocked")
  /\ object' = (object /\ ~ready)
  /\ UNCHANGED <<entry, refs, ready, signals>>

SpuriousWake ==
  /\ At(Owner, "blocked")
  /\ Goto(Owner, "woken")
  /\ UNCHANGED <<entry, refs, ready, signals, object>>

CallerStep(c) == Resolve(c) \/ Use(c) \/ Drop(c) \/ Signal(c)
OwnerStep     == Erase \/ Drop(Owner) \/ Signal(Owner) \/ WaitForReady

Next == \/ \E c \in Callers : CallIn(c) \/ CallerStep(c)
        \/ Destroy \/ OwnerStep \/ SpuriousWake

Safety == Init /\ [][Next]_vars

(* A call that has arrived and a destructor that has begun keep running;   *)
(* nothing makes VTL0 call, stop calling, or the owner destroy.            *)
Spec == Safety /\ WF_vars(OwnerStep) /\ \A c \in Callers : WF_vars(CallerStep(c))

-----------------------------------------------------------------------------
(* Type invariant.                                                         *)
TypeOK ==
  /\ pc \in [Threads -> CallerPc \cup OwnerPc]
  /\ pc[Owner] \in OwnerPc /\ \A c \in Callers : pc[c] \in CallerPc
  /\ entry \in BOOLEAN /\ ready \in BOOLEAN /\ object \in BOOLEAN
  /\ refs \subseteq Threads /\ signals \in 0..2

(* A reference obtained from the proxy "is guaranteed" to be outlived by   *)
(* the object (object_table.vtl1.h:48): no call uses the object after its  *)
(* storage is gone.                                                        *)
UseIsAlive == \A c \in Callers : pc[c] \in {"use", "drop"} => object

(* The proxy is destroyed by one thread only, so its promise is set once   *)
(* and set_value never throws out of a destructor                          *)
(* (object_table.vtl1.h:35-38, future.vtl1.h:128-138).                     *)
SignalOnce == signals <= 1

(* The destructor returns however many calls VTL0 keeps making: the id is  *)
(* erased first, so the references in use can only drain                   *)
(* (taskpool.vtl1.h:139-146, object_table.vtl1.h:76).                      *)
DestructorReturns == At(Owner, "erase") ~> ~object

-----------------------------------------------------------------------------
(* The references, the erased id and the promise implement KeepaliveAbs:   *)
(* a call uses the object while it owns a reference.                       *)
Abs == INSTANCE KeepaliveAbs WITH
         Threads <- Callers,
         phase   <- IF ~object THEN "gone" ELSE IF entry THEN "known" ELSE "erased",
         using   <- refs \ {Owner}
==============================================================================
