----------------------------- MODULE FutureProofs -----------------------------
(***************************************************************************)
(* A promise is kept once and delivered as kept, for any number of threads *)
(* that hold it.                                                           *)
(***************************************************************************)
EXTENDS Future, TLAPS

(* The state is set exactly when somebody was accepted, and holds what that *)
(* setter offered until the owner has taken it, which it does once.        *)
Untaken == valid \/ pc[Owner] \in {"wait", "blocked", "woken", "take"}

Bookkeeping ==
  /\ ready <=> \E c \in Setters : pc[c] = "kept"
  /\ ready /\ Untaken => \E c \in Setters : pc[c] = "kept" /\ content = offer[c]
  /\ pc[Owner] = "take" => ready

IInv == TypeOK /\ KeptOnce /\ Delivered /\ Bookkeeping

(* The inductive invariant holds at the start.                             *)
LEMMA InitIInv == Init => IInv
<1> SUFFICES ASSUME Init PROVE IInv
  OBVIOUS
<1> USE FutureAssumption DEF Init, Threads
<1>1. /\ pc \in [Threads -> SetterPc \cup OwnerPc]
      /\ pc[Owner] \in OwnerPc /\ \A c \in Setters : pc[c] \in SetterPc
  BY DEF SetterPc, OwnerPc
<1>2. ready \in BOOLEAN /\ valid \in BOOLEAN /\ inDtor \in BOOLEAN /\ crashed \in BOOLEAN
  BY Zenon
<1>3. /\ content \in Contents /\ offer \in [Setters -> Contents]
      /\ result \in Contents \cup {"none", "no_state"} /\ pc[Owner] = "own"
  BY DEF Contents
<1>4. TypeOK
  BY <1>1, <1>2, <1>3, Zenon DEF TypeOK
<1>5. pc[Owner] = "own" /\ \A c \in Setters : pc[c] = "work"
  OBVIOUS
<1>6. ~ready /\ valid /\ result = "none"
  BY Zenon
<1>7. KeptOnce /\ Delivered /\ Bookkeeping
  BY <1>5, <1>6 DEF KeptOnce, Delivered, Bookkeeping
<1> QED
  BY <1>4, <1>7 DEF IInv

(* Every step preserves it.                                                *)
LEMMA NextIInv == IInv /\ [Next]_vars => IInv'
<1> SUFFICES ASSUME IInv, [Next]_vars PROVE IInv'
  OBVIOUS
<1> USE FutureAssumption
    DEF IInv, TypeOK, KeptOnce, Delivered, Bookkeeping, Untaken, Threads,
        SetterPc, OwnerPc, Contents, At, Goto
<1>1. ASSUME NEW c \in Setters, Work(c) PROVE IInv'
  BY <1>1 DEF Work
<1>2. ASSUME NEW c \in Setters, Set(c) PROVE IInv'
  <2>1. CASE ready
    BY <1>2, <2>1 DEF Set
  <2>2. CASE ~ready
    <3>1. /\ content' = offer[c] /\ ready' = TRUE /\ pc[c] = "set"
          /\ UNCHANGED <<offer, valid, inDtor, result, crashed>>
      BY <1>2, <2>2 DEF Set
    <3>2. pc' = [pc EXCEPT ![c] = "kept",
                           ![Owner] = IF @ = "blocked" THEN "woken" ELSE @]
      BY <1>2, <2>2 DEF Set
    <3>3. /\ pc'[c] = "kept" /\ c \in Threads
          /\ \A d \in Setters \ {c} : pc'[d] = pc[d] /\ pc[d] # "kept"
          /\ pc'[Owner] = IF pc[Owner] = "blocked" THEN "woken" ELSE pc[Owner]
      BY <2>2, <3>2
    <3>4. TypeOK'
      BY <3>1, <3>2
    <3>5. KeptOnce' /\ Delivered'
      BY <2>2, <3>1, <3>3
    <3>6. Bookkeeping'
      BY <2>2, <3>1, <3>3
    <3> QED
      BY <3>4, <3>5, <3>6
  <2> QED
    BY <2>1, <2>2
<1>3. CASE GetStart
  BY <1>3 DEF GetStart
<1>4. CASE GetNoState
  BY <1>4 DEF GetNoState
<1>5. CASE Detach
  BY <1>5 DEF Detach
<1>6. CASE Destroy
  BY <1>6 DEF Destroy
<1>7. CASE WaitForReady
  BY <1>7 DEF WaitForReady
<1>8. CASE SpuriousWake
  BY <1>8 DEF SpuriousWake
<1>9. CASE Take
  BY <1>9 DEF Take
<1>10. CASE UNCHANGED vars
  BY <1>10 DEF vars
<1> QED
  BY <1>1, <1>2, <1>3, <1>4, <1>5, <1>6, <1>7, <1>8, <1>9, <1>10
     DEF Next, SetterStep, OwnerStep, OwnerChoice

(* The state is always well typed (future.vtl1.h:100-274).                 *)
THEOREM Typing == Safety => []TypeOK
<1>1. IInv => TypeOK
  BY DEF IInv
<1> QED
  BY <1>1, InitIInv, NextIInv, PTL DEF Safety

(* A promise is kept once, however many threads race to set it             *)
(* (future.vtl1.h:127-138).                                                *)
THEOREM SetOnce == Safety => []KeptOnce
<1>1. IInv => KeptOnce
  BY DEF IInv
<1> QED
  BY <1>1, InitIInv, NextIInv, PTL DEF Safety

(* get delivers what the accepted setter came to set                       *)
(* (future.vtl1.h:194-218).                                                *)
THEOREM DeliversWhatWasKept == Safety => []Delivered
<1>1. IInv => Delivered
  BY DEF IInv
<1> QED
  BY <1>1, InitIInv, NextIInv, PTL DEF Safety

-----------------------------------------------------------------------------
(* What get and the destructor wait for: a promise that is not set yet,    *)
(* which somebody still holds, or that all have let go of.                 *)
WaitIsAnswered ==
  Waiting =>
    IF ready THEN pc[Owner] # "blocked"
    ELSE \/ \E c \in Setters : pc[c] \in {"work", "set"}
         \/ \A c \in Setters : pc[c] = "abandoned"

Awake == pc[Owner] = "blocked" => ~ready

LEMMA NextAwake == IInv /\ Awake /\ [Next]_vars => Awake'
<1> SUFFICES ASSUME IInv, Awake, [Next]_vars PROVE Awake'
  OBVIOUS
<1> USE FutureAssumption DEF IInv, TypeOK, Awake, Threads, At, Goto
<1>1. ASSUME NEW c \in Setters, Work(c) PROVE Awake'
  BY <1>1 DEF Work
<1>2. ASSUME NEW c \in Setters, Set(c) PROVE Awake'
  BY <1>2 DEF Set
<1>3. CASE GetStart \/ GetNoState \/ Detach \/ Destroy
  BY <1>3 DEF GetStart, GetNoState, Detach, Destroy
<1>4. CASE WaitForReady
  BY <1>4 DEF WaitForReady
<1>5. CASE SpuriousWake
  BY <1>5 DEF SpuriousWake
<1>6. CASE Take
  BY <1>6 DEF Take
<1>7. CASE UNCHANGED vars
  BY <1>7 DEF vars
<1> QED
  BY <1>1, <1>2, <1>3, <1>4, <1>5, <1>6, <1>7 DEF Next, SetterStep, OwnerStep, OwnerChoice

(* The owner sleeps on no promise that is set, and waits for one in vain   *)
(* only if everybody has let go of it: a setter that is refused leaves a   *)
(* promise that is set (future.vtl1.h:112-138, 178, 194-218).              *)
THEOREM WaitsForSetter == Safety => []WaitIsAnswered
<1>1. Init => Awake
  BY FutureAssumption DEF Init, Awake, Threads
<1>2. IInv /\ Awake => WaitIsAnswered
  BY DEF IInv, TypeOK, KeptOnce, Bookkeeping, SetterPc, Awake, WaitIsAnswered, Waiting
<1> QED
  BY <1>1, <1>2, InitIInv, NextIInv, NextAwake, PTL DEF Safety
==============================================================================
