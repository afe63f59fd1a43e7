--------------------------- MODULE KeepaliveProofs ---------------------------
(***************************************************************************)
(* The keepalive mechanism is safe for every set of callers.               *)
(***************************************************************************)
EXTENDS Keepalive, TLAPS

(* Who owns a reference is known from the counters, and the promise is set *)
(* or about to be set by exactly one thread only once nobody owns one: the *)
(* proxy cannot come back to life.                                         *)
RefsMatch ==
  /\ \A c \in Callers : c \in refs <=> pc[c] \in {"use", "drop"}
  /\ Owner \in refs <=> pc[Owner] \in {"live", "erase", "drop"}

LastSignals ==
  /\ \A c \in Threads : pc[c] = "signal" => refs = {} /\ ~ready
  /\ \A c, d \in Threads : pc[c] = "signal" /\ pc[d] = "signal" => c = d
  /\ ready => refs = {}
  /\ signals = IF ready THEN 1 ELSE 0
  /\ ~object => ready

IInv == TypeOK /\ RefsMatch /\ LastSignals

(* The inductive invariant holds at the start.                             *)
LEMMA InitIInv == Init => IInv
<1> SUFFICES ASSUME Init PROVE IInv
  OBVIOUS
<1> USE KeepaliveAssumption DEF Init, Threads
<1>1. TypeOK
  <2>1. pc \in [Threads -> CallerPc \cup OwnerPc]
    BY DEF CallerPc, OwnerPc
  <2>2. pc[Owner] \in OwnerPc /\ \A c \in Callers : pc[c] \in CallerPc
    BY DEF CallerPc, OwnerPc
  <2>3. entry \in BOOLEAN /\ ready \in BOOLEAN /\ object \in BOOLEAN
    BY Zenon
  <2>4. refs \subseteq Threads /\ signals \in 0..2
    BY SMT
  <2> QED
    BY <2>1, <2>2, <2>3, <2>4, Zenon DEF TypeOK
<1>2. RefsMatch
  BY DEF RefsMatch
<1>3. LastSignals
  BY DEF LastSignals
<1> QED
  BY <1>1, <1>2, <1>3 DEF IInv

(* Every step preserves it.                                                *)
LEMMA NextIInv == IInv /\ [Next]_vars => IInv'
<1> USE KeepaliveAssumption
    DEF IInv, TypeOK, RefsMatch, LastSignals, Threads, CallerPc, OwnerPc, At, Goto
<1> SUFFICES ASSUME IInv, [Next]_vars PROVE IInv'
  OBVIOUS
<1>1. ASSUME NEW c \in Callers, CallIn(c) PROVE IInv'
  BY <1>1 DEF CallIn
<1>2. ASSUME NEW c \in Callers, Resolve(c) PROVE IInv'
  BY <1>2 DEF Resolve
<1>3. ASSUME NEW c \in Callers, Use(c) PROVE IInv'
  BY <1>3 DEF Use
<1>4. ASSUME NEW c \in Threads, Drop(c) PROVE IInv'
  BY <1>4 DEF Drop
<1>5. ASSUME NEW c \in Threads, Signal(c) PROVE IInv'
  BY <1>5 DEF Signal
<1>6. CASE Destroy
  BY <1>6 DEF Destroy
<1>7. CASE Erase
  BY <1>7 DEF Erase
<1>8. CASE WaitForReady
  BY <1>8 DEF WaitForReady
<1>9. CASE SpuriousWake
  BY <1>9 DEF SpuriousWake
<1>10. CASE UNCHANGED vars
  BY <1>10 DEF vars
<1> QED
  BY <1>1, <1>2, <1>3, <1>4, <1>5, <1>6, <1>7, <1>8, <1>9, <1>10
     DEF Next, CallerStep, OwnerStep

(* The state is always well typed (object_table.vtl1.h:82-129, 206-265).   *)
THEOREM Typing == Safety => []TypeOK
<1>1. IInv => TypeOK
  BY DEF IInv
<1> QED
  BY <1>1, InitIInv, NextIInv, PTL DEF Safety

(* No call ever uses the object after its storage is gone, whatever calls  *)
(* VTL0 makes (object_table.vtl1.h:48-52).                                 *)
THEOREM AliveWhenUsed == Safety => []UseIsAlive
<1>1. IInv => UseIsAlive
  BY DEF IInv, RefsMatch, LastSignals, UseIsAlive
<1> QED
  BY <1>1, InitIInv, NextIInv, PTL DEF Safety

(* The proxy's promise is set at most once, whichever thread drops the     *)
(* last reference (object_table.vtl1.h:35-38).                             *)
THEOREM SignalledOnce == Safety => []SignalOnce
<1>1. IInv => SignalOnce
  BY DEF IInv, LastSignals, SignalOnce
<1> QED
  BY <1>1, InitIInv, NextIInv, PTL DEF Safety

-----------------------------------------------------------------------------
(* What the destructor waits for: a promise that is not set yet, which     *)
(* somebody else has in hand.                                              *)
WaitIsAnswered ==
  pc[Owner] \in {"wait", "blocked", "woken"} =>
    IF ready THEN pc[Owner] # "blocked"
    ELSE \E c \in Callers : pc[c] \in {"use", "drop", "signal"}

(* The promise is never forgotten: while it is not set, somebody owns a    *)
(* reference or is about to set it.                                        *)
InHand == /\ ~ready => refs # {} \/ \E c \in Threads : pc[c] = "signal"
          /\ pc[Owner] = "blocked" => ~ready

LEMMA NextInHand == IInv /\ InHand /\ [Next]_vars => InHand'
<1> USE KeepaliveAssumption
    DEF IInv, TypeOK, InHand, Threads, CallerPc, OwnerPc, At, Goto
<1> SUFFICES ASSUME IInv, InHand, [Next]_vars PROVE InHand'
  OBVIOUS
<1>1. ASSUME NEW c \in Callers, CallIn(c) PROVE InHand'
  BY <1>1 DEF CallIn
<1>2. ASSUME NEW c \in Callers, Resolve(c) PROVE InHand'
  BY <1>2 DEF Resolve
<1>3. ASSUME NEW c \in Callers, Use(c) PROVE InHand'
  BY <1>3 DEF Use
<1>4. ASSUME NEW c \in Threads, Drop(c) PROVE InHand'
  <2>1. pc'[c] = "signal" \/ refs' # {}
    BY <1>4 DEF Drop, RefsMatch
  <2> QED
    BY <1>4, <2>1 DEF Drop
<1>5. ASSUME NEW c \in Threads, Signal(c) PROVE InHand'
  BY <1>5 DEF Signal
<1>6. CASE Destroy
  BY <1>6 DEF Destroy
<1>7. CASE Erase
  BY <1>7 DEF Erase
<1>8. CASE WaitForReady
  BY <1>8 DEF WaitForReady
<1>9. CASE SpuriousWake
  BY <1>9 DEF SpuriousWake
<1>10. CASE UNCHANGED vars
  BY <1>10 DEF vars
<1> QED
  BY <1>1, <1>2, <1>3, <1>4, <1>5, <1>6, <1>7, <1>8, <1>9, <1>10
     DEF Next, CallerStep, OwnerStep

(* The destructor sleeps on no promise that is set, and waits for one only *)
(* while a call that will set it, or lead to it, is under way: no wake-up  *)
(* is lost and no last reference slips away unnoticed                      *)
(* (object_table.vtl1.h:35-38, 206-265, future.vtl1.h:112-138).            *)
THEOREM WaitsForSomebody == Safety => []WaitIsAnswered
<1>1. Init => InHand
  BY KeepaliveAssumption DEF Init, InHand, Threads
<1>2. IInv /\ InHand => WaitIsAnswered
  <2> SUFFICES ASSUME IInv, InHand, pc[Owner] \in {"wait", "blocked", "woken"}
               PROVE  WaitIsAnswered
    BY DEF WaitIsAnswered
  <2>1. CASE ready
    BY <2>1 DEF InHand, WaitIsAnswered
  <2>2. CASE ~ready
    <3>1. CASE refs # {}
      <4>1. PICK c \in Threads : c \in refs
        BY <3>1 DEF IInv, TypeOK
      <4>2. c \in Callers /\ pc[c] \in {"use", "drop"}
        BY <4>1 DEF IInv, RefsMatch, Threads
      <4> QED
        BY <2>2, <4>2 DEF WaitIsAnswered
    <3>2. CASE \E c \in Threads : pc[c] = "signal"
      BY <2>2, <3>2 DEF WaitIsAnswered, Threads
    <3> QED
      BY <2>2, <3>1, <3>2 DEF InHand
  <2> QED
    BY <2>1, <2>2
<1> QED
  BY <1>1, <1>2, InitIInv, NextIInv, NextInHand, PTL DEF Safety

-----------------------------------------------------------------------------
(* The id is in the table exactly until the owner has erased it.           *)
EntryMatch == entry <=> pc[Owner] \in {"live", "erase"}

AbsPhase == IF ~object THEN "gone" ELSE IF entry THEN "known" ELSE "erased"

AbsUsing == refs \ {Owner}

LEMMA NextEntryMatch == IInv /\ EntryMatch /\ [Next]_vars => EntryMatch'
<1> USE KeepaliveAssumption
    DEF IInv, TypeOK, EntryMatch, Threads, CallerPc, OwnerPc, At, Goto
<1> SUFFICES ASSUME IInv, EntryMatch, [Next]_vars PROVE EntryMatch'
  OBVIOUS
<1>1. ASSUME NEW c \in Callers, CallIn(c) \/ Resolve(c) \/ Use(c) PROVE EntryMatch'
  BY <1>1 DEF CallIn, Resolve, Use
<1>2. ASSUME NEW c \in Threads, Drop(c) PROVE EntryMatch'
  BY <1>2 DEF Drop
<1>3. ASSUME NEW c \in Threads, Signal(c) PROVE EntryMatch'
  BY <1>3 DEF Signal
<1>4. CASE Destroy \/ Erase \/ WaitForReady \/ SpuriousWake
  BY <1>4 DEF Destroy, Erase, WaitForReady, SpuriousWake
<1>5. CASE UNCHANGED vars
  BY <1>5 DEF vars
<1> QED
  BY <1>1, <1>2, <1>3, <1>4, <1>5 DEF Next, CallerStep, OwnerStep

(* A step on a reference, on the id or on the storage is one of the        *)
(* abstract object; every other step is none.                              *)
LEMMA RefinementStep ==
  ASSUME IInv, EntryMatch, [Next]_vars PROVE [Abs!Next]_(Abs!vars)
<1> DEFINE Goal == [Abs!Next]_(Abs!vars)
<1> SUFFICES Goal
  OBVIOUS
<1> USE KeepaliveAssumption DEF Threads, At, Goto
<1>t. TypeOK /\ RefsMatch /\ LastSignals
  BY DEF IInv
<1>s. ASSUME AbsPhase' = AbsPhase, AbsUsing' = AbsUsing PROVE Goal
  BY <1>s DEF Abs!vars, AbsPhase, AbsUsing
<1>u. ASSUME UNCHANGED <<entry, refs, object>> PROVE Goal
  BY <1>s, <1>u DEF AbsPhase, AbsUsing
<1> HIDE DEF Goal
<1>1. ASSUME NEW c \in Callers, CallIn(c) \/ Use(c) PROVE Goal
  BY <1>1, <1>u DEF CallIn, Use
<1>2. ASSUME NEW c \in Callers, Resolve(c) PROVE Goal
  <2>1. CASE ~(entry /\ refs # {})
    BY <1>2, <1>u, <2>1 DEF Resolve
  <2>2. CASE entry /\ refs # {}
    <3>1. refs' = refs \cup {c} /\ UNCHANGED <<entry, object>>
      BY <1>2, <2>2 DEF Resolve
    <3>2. object
      BY <1>t, <2>2 DEF TypeOK, LastSignals
    <3>3. AbsPhase = "known" /\ AbsPhase' = AbsPhase /\ AbsUsing' = AbsUsing \cup {c}
      BY <2>2, <3>1, <3>2 DEF AbsPhase, AbsUsing
    <3>4. Abs!Resolve(c)
      BY <3>3 DEF Abs!Resolve, AbsPhase, AbsUsing
    <3> QED
      BY <3>4 DEF Goal, Abs!Next
  <2> QED
    BY <2>1, <2>2
<1>3. ASSUME NEW c \in Callers, Drop(c) PROVE Goal
  <2>1. refs' = refs \ {c} /\ UNCHANGED <<entry, object>> /\ c \in refs
    BY <1>3, <1>t DEF Drop, RefsMatch
  <2>2. AbsPhase' = AbsPhase /\ c \in AbsUsing /\ AbsUsing' = AbsUsing \ {c}
    BY <2>1 DEF AbsPhase, AbsUsing
  <2>3. Abs!LetGo(c)
    BY <2>2 DEF Abs!LetGo, AbsPhase, AbsUsing
  <2> QED
    BY <2>3 DEF Goal, Abs!Next
<1>4. CASE Drop(Owner)
  BY <1>4, <1>s DEF Drop, AbsPhase, AbsUsing
<1>5. ASSUME NEW c \in Threads, Signal(c) PROVE Goal
  BY <1>5, <1>u DEF Signal
<1>6. CASE Destroy \/ SpuriousWake
  BY <1>6, <1>u DEF Destroy, SpuriousWake
<1>7. CASE Erase
  <2>1. entry /\ entry' = FALSE /\ UNCHANGED <<refs, object>>
    BY <1>7 DEF Erase, EntryMatch
  <2>2. object
    BY <1>7, <1>t DEF Erase, TypeOK, RefsMatch, LastSignals
  <2>3. AbsPhase = "known" /\ AbsPhase' = "erased" /\ AbsUsing' = AbsUsing
    BY <2>1, <2>2 DEF AbsPhase, AbsUsing
  <2>4. Abs!Erase
    BY <2>3 DEF Abs!Erase, AbsPhase, AbsUsing
  <2> QED
    BY <2>4 DEF Goal, Abs!Next
<1>8. CASE WaitForReady
  <2>1. ~entry /\ UNCHANGED <<entry, refs>> /\ object' = (object /\ ~ready)
    BY <1>8 DEF WaitForReady, EntryMatch
  <2>2. CASE object /\ ready
    <3>1. refs = {} /\ object' = FALSE
      BY <1>t, <2>1, <2>2 DEF LastSignals
    <3>2. /\ AbsPhase = "erased" /\ AbsPhase' = "gone"
          /\ AbsUsing = {} /\ AbsUsing' = AbsUsing
      BY <2>1, <2>2, <3>1 DEF AbsPhase, AbsUsing
    <3>3. Abs!Destroy
      BY <3>2 DEF Abs!Destroy, AbsPhase, AbsUsing
    <3> QED
      BY <3>3 DEF Goal, Abs!Next
  <2>3. CASE ~(object /\ ready)
    <3>1. object' = object
      BY <1>t, <2>1, <2>3 DEF TypeOK
    <3> QED
      BY <1>u, <2>1, <3>1
  <2> QED
    BY <2>2, <2>3
<1>9. CASE UNCHANGED vars
  BY <1>9, <1>u DEF vars
<1> QED
  BY <1>1, <1>2, <1>3, <1>4, <1>5, <1>6, <1>7, <1>8, <1>9
     DEF Next, CallerStep, OwnerStep

(* References, the erased id and the promise do what KeepaliveAbs says: a  *)
(* call gets to the object while its id is known, and the storage goes     *)
(* when the id is erased and no call is at work on it                      *)
(* (object_table.vtl1.h:48-76, 206-265, taskpool.vtl1.h:139-146).          *)
THEOREM Implements == Safety => Abs!Safety
<1>1. Init => EntryMatch
  BY KeepaliveAssumption DEF Init, EntryMatch, Threads
<1>2. Init => Abs!Init
  BY DEF Init, Abs!Init
<1>3. IInv /\ EntryMatch /\ [Next]_vars => [Abs!Next]_(Abs!vars)
  BY RefinementStep
<1> QED
  BY <1>1, <1>2, <1>3, InitIInv, NextIInv, NextEntryMatch, PTL DEF Safety, Abs!Safety
==============================================================================
