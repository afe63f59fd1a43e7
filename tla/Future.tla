-------------------------------- MODULE Future --------------------------------
(***************************************************************************)
(* veil::vtl1::promise and future: one shared state, the threads that may  *)
(* set its promise (each once), and the thread that owns its future.       *)
(*                                                                         *)
(* A critical section of the state's lock is one action.  The owner sleeps *)
(* on the condition variable exactly when its counter is "blocked".        *)
(***************************************************************************)
EXTENDS FiniteSets

CONSTANTS
  Setters,     \* threads that hold the promise
  Owner,       \* the thread that holds the future
  MayFail,     \* whether a setter may set an exception
  MayAbandon   \* whether a setter may let go of the promise without setting it

ASSUME FutureAssumption == /\ Owner \notin Setters
                           /\ MayFail \in BOOLEAN /\ MayAbandon \in BOOLEAN

VARIABLES
  pc,       \* where each thread is
  ready,    \* m_ready
  content,  \* what the state holds: nothing, a value or an exception
  offer,    \* what each setter has come to set
  valid,    \* the future has a state
  inDtor,   \* the wait is the destructor's
  result,   \* how the owner's last call on the future ended
  crashed   \* std::terminate was called

vars == <<pc, ready, content, offer, valid, inDtor, result, crashed>>

Threads  == Setters \cup {Owner}
Contents == {"nothing", "value", "exception"}
SetterPc == {"work", "set", "kept", "refused", "abandoned"}
OwnerPc  == {"own", "wait", "blocked", "woken", "take", "gone"}

At(c, l)   == ~crashed /\ pc[c] = l
Goto(c, l) == pc' = [pc EXCEPT ![c] = l]

Init ==
  /\ pc = [c \in Threads |-> IF c = Owner THEN "own" ELSE "work"]
  /\ ready = FALSE /\ content = "nothing"
  /\ offer = [c \in Setters |-> "nothing"]
  /\ valid = TRUE /\ inDtor = FALSE /\ result = "none" /\ crashed = FALSE

-----------------------------------------------------------------------------
(* The work ends with a value, an exception, or without a word.            *)
Work(c) ==
  /\ At(c, "work")
  /\ \/ /\ offer' = [offer EXCEPT ![c] = "value"]
        /\ Goto(c, "set")
     \/ /\ MayFail
        /\ offer' = [offer EXCEPT ![c] = "exception"]
        /\ Goto(c, "set")
     \/ MayAbandon /\ Goto(c, "abandoned") /\ UNCHANGED offer
  /\ UNCHANGED <<ready, content, valid, inDtor, result, crashed>>

(* Mutant: a state that is set may be set again.                           *)
SetAgain(c) ==
  /\ At(c, "set")
  /\ content' = offer[c] /\ ready' = TRUE
  /\ pc' = [pc EXCEPT ![c] = "kept",
                      ![Owner] = IF @ = "blocked" THEN "woken" ELSE @]
  /\ UNCHANGED <<offer, valid, inDtor, result, crashed>>

(* Mutant: the waiter is not notified.                                     *)
SetSilently(c) ==
  /\ At(c, "set")
  /\ IF ready THEN Goto(c, "refused") /\ UNCHANGED <<ready, content>>
     ELSE Goto(c, "kept") /\ content' = offer[c] /\ ready' = TRUE
  /\ UNCHANGED <<offer, valid, inDtor, result, crashed>>

(* set_value and set_exception: a second one throws                        *)
(* promise_already_satisfied; the first one wakes the waiter.              *)
Set(c) ==
  /\ At(c, "set")
  /\ IF ready
     THEN Goto(c, "refused") /\ UNCHANGED <<ready, content>>
     ELSE /\ content' = offer[c] /\ ready' = TRUE
          /\ pc' = [pc EXCEPT ![c] = "kept",
                              ![Owner] = IF @ = "blocked" THEN "woken" ELSE @]
  /\ UNCHANGED <<offer, valid, inDtor, result, crashed>>

-----------------------------------------------------------------------------
(* Mutant: get leaves the state in the future.                             *)
GetKeeps ==
  /\ At(Owner, "own") /\ valid
  /\ Goto(Owner, "wait")
  /\ UNCHANGED <<ready, content, offer, valid, inDtor, result, crashed>>

(* get takes the state out of the future first, and waits.                 *)
GetStart ==
  /\ At(Owner, "own") /\ valid
  /\ valid' = FALSE
  /\ Goto(Owner, "wait")
  /\ UNCHANGED <<ready, content, offer, inDtor, result, crashed>>

(* A future without a state throws no_state.                               *)
GetNoState ==
  /\ At(Owner, "own") /\ ~valid
  /\ result' = "no_state"
  /\ UNCHANGED <<pc, ready, content, offer, valid, inDtor, crashed>>

Detach ==
  /\ At(Owner, "own")
  /\ valid' = FALSE
  /\ UNCHANGED <<pc, ready, content, offer, inDtor, result, crashed>>

(* ~future gets what was not got.                                          *)
Destroy ==
  /\ At(Owner, "own")
  /\ inDtor' = valid /\ valid' = FALSE
  /\ Goto(Owner, IF valid THEN "wait" ELSE "gone")
  /\ UNCHANGED <<ready, content, offer, result, crashed>>

(* Mutant: a wake-up is taken for the result.                              *)
WaitForAnyWake ==
  /\ At(Owner, "wait") \/ At(Owner, "woken")
  /\ Goto(Owner, IF ready \/ pc[Owner] = "woken" THEN "take" ELSE "blocked")
  /\ UNCHANGED <<ready, content, offer, valid, inDtor, result, crashed>>

(* wait_for_ready tests m_ready with the lock held, before it sleeps and   *)
(* after it wakes.                                                         *)
WaitForReady ==
  /\ At(Owner, "wait") \/ At(Owner, "woken")
  /\ Goto(Owner, IF ready THEN "take" ELSE "blocked")
  /\ UNCHANGED <<ready, content, offer, valid, inDtor, result, crashed>>

SpuriousWake ==
  /\ At(Owner, "blocked")
  /\ Goto(Owner, "woken")
  /\ UNCHANGED <<ready, content, offer, valid, inDtor, result, crashed>>

(* The exception or the value is moved out of the state.  An exception     *)
(* leaves get, and cannot leave the destructor.                            *)
Take ==
  /\ At(Owner, "take")
  /\ content' = "nothing"
  /\ IF inDtor
     THEN /\ crashed' = (content = "exception")
          /\ Goto(Owner, "gone")
          /\ UNCHANGED result
     ELSE result' = content /\ Goto(Owner, "own") /\ UNCHANGED crashed
  /\ UNCHANGED <<ready, offer, valid, inDtor>>

SetterStep(c) == Work(c) \/ Set(c)
OwnerStep     == WaitForReady \/ Take
OwnerChoice   == GetStart \/ GetNoState \/ Detach \/ Destroy \/ SpuriousWake

Next == (\E c \in Setters : SetterStep(c)) \/ OwnerStep \/ OwnerChoice

Safety == Init /\ [][Next]_vars
Spec   == Safety /\ WF_vars(OwnerStep) /\ \A c \in Setters : WF_vars(SetterStep(c))
-----------------------------------------------------------------------------
(* Type invariant; a future that is waited for has given up its state.     *)
TypeOK ==
  /\ pc \in [Threads -> SetterPc \cup OwnerPc]
  /\ pc[Owner] \in OwnerPc /\ \A c \in Setters : pc[c] \in SetterPc
  /\ ready \in BOOLEAN /\ content \in Contents
  /\ offer \in [Setters -> Contents]
  /\ valid \in BOOLEAN /\ inDtor \in BOOLEAN /\ crashed \in BOOLEAN
  /\ result \in Contents \cup {"none", "no_state"}
  /\ valid => pc[Owner] = "own"

(* One setter's outcome is accepted, whichever comes first, and a setter   *)
(* is refused only because another was accepted (future.vtl1.h:127-138,    *)
(* 146-156).                                                               *)
KeptOnce ==
  /\ \A c, d \in Setters : pc[c] = "kept" /\ pc[d] = "kept" => c = d
  /\ (\E c \in Setters : pc[c] = "refused") => \E d \in Setters : pc[d] = "kept"

(* What get returns or throws is what the accepted setter came to set:     *)
(* neither an empty state nor a loser's outcome (future.vtl1.h:112-125,    *)
(* 194-218).                                                               *)
Delivered ==
  result \notin {"none", "no_state"} =>
    \E c \in Setters : pc[c] = "kept" /\ offer[c] = result

(* Once the promise is set the wait for it ends, however the set and the   *)
(* sleep interleave (future.vtl1.h:112-119, 137).                          *)
Waiting == pc[Owner] \in {"wait", "blocked", "woken"}
WakesUp == ready /\ Waiting ~> ~Waiting
==============================================================================
