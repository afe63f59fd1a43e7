--------------------------- MODULE RangeCheckProofs ---------------------------
(***************************************************************************)
(* The range checks are sound and complete for every word size, enclave,   *)
(* number of threads and buffer.                                           *)
(***************************************************************************)
EXTENDS RangeCheck, TLAPS

(* A buffer that does not wrap touches the addresses it looks to touch.    *)
LEMMA BytesInterval ==
  ASSUME NEW b \in Address, NEW n \in Address, b + n < Word
  PROVE  Bytes(b, n) = b..(b + n - 1)
<1>1. \A i \in 0..(n - 1) : Wrap(b + i) = b + i
  BY RangeCheckAssumption DEF Wrap, Address
<1>2. ASSUME NEW a \in b..(b + n - 1) PROVE a \in Bytes(b, n)
  <2>1. a - b \in 0..(n - 1) /\ b + (a - b) = a
    BY RangeCheckAssumption DEF Address
  <2> QED
    BY <1>1, <2>1 DEF Bytes
<1>3. ASSUME NEW a \in Bytes(b, n) PROVE a \in b..(b + n - 1)
  <2>1. PICK i \in 0..(n - 1) : a = b + i
    BY <1>1 DEF Bytes
  <2> QED
    BY <2>1, RangeCheckAssumption DEF Address
<1> QED
  BY <1>2, <1>3

(* The two comparisons, with the right bounds, decide exactly the two      *)
(* questions about bytes.                                                  *)
LEMMA CheckDecides ==
  ASSUME NEW b \in Address, NEW n \in Address \ {0}, b + n < Word,
         begin = Base, end = Base + Size
  PROVE  /\ Outside(b, n) <=> Bytes(b, n) \cap Enclave = {}
         /\ Inside(b, n) <=> Bytes(b, n) \subseteq Enclave
<1> USE RangeCheckAssumption DEF Address
<1>1. Bytes(b, n) = b..(b + n - 1)
  BY BytesInterval
<1>2. ASSUME Outside(b, n) PROVE Bytes(b, n) \cap Enclave = {}
  BY <1>1, <1>2 DEF Outside, SafeAdd, Enclave
<1>3. ASSUME ~Outside(b, n) PROVE Bytes(b, n) \cap Enclave # {}
  <2>1. CASE b >= Base
    <3>1. b \in Bytes(b, n) /\ b \in Enclave
      BY <1>1, <1>3, <2>1 DEF Outside, SafeAdd, Enclave
    <3> QED
      BY <3>1
  <2>2. CASE b < Base
    <3>1. Base \in Bytes(b, n) /\ Base \in Enclave
      BY <1>1, <1>3, <2>2 DEF Outside, SafeAdd, Enclave
    <3> QED
      BY <3>1
  <2> QED
    BY <2>1, <2>2
<1>4. ASSUME Inside(b, n) PROVE Bytes(b, n) \subseteq Enclave
  BY <1>1, <1>4 DEF Inside, SafeAdd, Enclave
<1>5. ASSUME Bytes(b, n) \subseteq Enclave PROVE Inside(b, n)
  <2>1. b \in Bytes(b, n) /\ b + n - 1 \in Bytes(b, n)
    BY <1>1
  <2>2. b \in Enclave /\ b + n - 1 \in Enclave
    BY <1>5, <2>1
  <2> QED
    BY <2>2 DEF Inside, SafeAdd, Enclave
<1> QED
  BY <1>2, <1>3, <1>4, <1>5

(* The bounds are right once the flag is set, and for every thread that    *)
(* has computed them itself; every check under way is of a buffer that is  *)
(* not empty and does not wrap.                                            *)
Known == begin = Base /\ end = Base + Size /\ Base + Size < Word

Bounds ==
  /\ calculated => Known
  /\ \A t \in Threads :
       /\ pc[t] \in {"store", "compare"} => Known
       /\ pc[t] = "write_end" => begin = Base
       /\ pc[t] # "idle" => /\ verdict[t] = "none" /\ length[t] # 0
                            /\ buffer[t] + length[t] < Word

IInv == TypeOK /\ Bounds /\ AcceptsOnlyGood /\ RejectsOnlyBad

(* The inductive invariant holds at the start.                             *)
LEMMA InitIInv == Init => IInv
<1> SUFFICES ASSUME Init PROVE IInv
  OBVIOUS
<1> USE RangeCheckAssumption DEF Init, Address
<1>1. /\ pc \in [Threads -> {"idle", "load", "query", "write_end", "store", "compare"}]
      /\ check \in [Threads -> {"VTL0", "VTL1"}]
      /\ verdict \in [Threads -> {"none", "S_OK", "E_FAIL", "E_INVALIDARG", "query_failed"}]
  OBVIOUS
<1>2. /\ buffer \in [Threads -> Address] /\ length \in [Threads -> Address]
      /\ begin \in {0, Base} /\ end \in {0, Base + Size}
  OBVIOUS
<1>3. calculated \in BOOLEAN
  BY Zenon
<1>4. TypeOK
  BY <1>1, <1>2, <1>3, Zenon DEF TypeOK
<1>5. ~calculated /\ \A t \in Threads : pc[t] = "idle" /\ verdict[t] = "none"
  BY Zenon
<1>6. Bounds /\ AcceptsOnlyGood /\ RejectsOnlyBad
  BY <1>5 DEF Bounds, AcceptsOnlyGood, RejectsOnlyBad
<1> QED
  BY <1>4, <1>6 DEF IInv

(* Every step preserves it.                                                *)
LEMMA NextIInv == IInv /\ [Next]_vars => IInv'
<1> SUFFICES ASSUME IInv, [Next]_vars PROVE IInv'
  OBVIOUS
<1> USE RangeCheckAssumption
    DEF IInv, TypeOK, Bounds, Known, AcceptsOnlyGood, RejectsOnlyBad, At, Goto, Return, args, bounds
<1>1. ASSUME NEW t \in Threads, NEW which \in {"VTL0", "VTL1"},
             NEW b \in Address, NEW n \in Address, Call(t, which, b, n)
      PROVE  IInv'
  <2>1. n = 0 => Bytes(b, n) = {}
    BY DEF Bytes
  <2>2. CASE n = 0
    BY <1>1, <2>1, <2>2 DEF Call, Address
  <2>3. CASE n # 0 /\ ~(b + n < Word)
    <3>1. /\ pc' = [pc EXCEPT ![t] = "idle"]
          /\ verdict' = [verdict EXCEPT ![t] = "E_INVALIDARG"]
          /\ check' = [check EXCEPT ![t] = which]
          /\ buffer' = [buffer EXCEPT ![t] = b] /\ length' = [length EXCEPT ![t] = n]
          /\ UNCHANGED bounds
      BY <1>1, <2>3 DEF Call, SafeAdd
    <3> b + n >= Word
      BY <2>3 DEF Address
    <3>2. TypeOK'
      BY <3>1
    <3>3. Bounds'
      BY <3>1
    <3>4. AcceptsOnlyGood'
      BY <3>1
    <3>5. RejectsOnlyBad'
      BY <3>1
    <3> QED
      BY <3>2, <3>3, <3>4, <3>5
  <2>4. CASE n # 0 /\ b + n < Word
    <3>1. /\ pc' = [pc EXCEPT ![t] = "load"]
          /\ verdict' = [verdict EXCEPT ![t] = "none"]
          /\ check' = [check EXCEPT ![t] = which]
          /\ buffer' = [buffer EXCEPT ![t] = b] /\ length' = [length EXCEPT ![t] = n]
          /\ UNCHANGED bounds
      BY <1>1, <2>4 DEF Call, SafeAdd
    <3>2. TypeOK'
      BY <3>1, <2>4
    <3>3. Bounds'
      BY <3>1, <2>4
    <3>4. AcceptsOnlyGood'
      BY <3>1, <2>4
    <3>5. RejectsOnlyBad'
      BY <3>1, <2>4
    <3> QED
      BY <3>2, <3>3, <3>4, <3>5
  <2> QED
    BY <2>2, <2>3, <2>4
<1>2. ASSUME NEW t \in Threads, LoadCalculated(t) PROVE IInv'
  BY <1>2 DEF LoadCalculated
<1>3. ASSUME NEW t \in Threads, QueryFails(t) PROVE IInv'
  BY <1>3 DEF QueryFails
<1>4. ASSUME NEW t \in Threads, WriteBegin(t) PROVE IInv'
  BY <1>4 DEF WriteBegin
<1>5. ASSUME NEW t \in Threads, WriteEnd(t) PROVE IInv'
  <2>1. CASE Base + Size < Word
    <3>1. /\ pc' = [pc EXCEPT ![t] = "store"] /\ end' = Base + Size /\ begin = Base
          /\ UNCHANGED <<args, begin, calculated, verdict>>
      BY <1>5, <2>1 DEF WriteEnd, SafeAdd
    <3>2. TypeOK'
      BY <3>1, <2>1, <1>5 DEF WriteEnd
    <3>3. Bounds'
      BY <3>1, <2>1, <1>5 DEF WriteEnd
    <3>4. AcceptsOnlyGood'
      BY <3>1, <2>1, <1>5 DEF WriteEnd
    <3>5. RejectsOnlyBad'
      BY <3>1, <2>1, <1>5 DEF WriteEnd
    <3> QED
      BY <3>2, <3>3, <3>4, <3>5
  <2>2. CASE ~(Base + Size < Word)
    <3>1. /\ pc' = [pc EXCEPT ![t] = "idle"] /\ UNCHANGED <<args, bounds>>
          /\ verdict' = [verdict EXCEPT ![t] = "E_FAIL"]
      BY <1>5, <2>2 DEF WriteEnd, SafeAdd
    <3>2. TypeOK'
      BY <3>1, <2>2
    <3>3. Bounds'
      BY <3>1, <2>2
    <3>4. AcceptsOnlyGood'
      BY <3>1, <2>2
    <3>5. RejectsOnlyBad'
      BY <3>1, <2>2
    <3> QED
      BY <3>2, <3>3, <3>4, <3>5
  <2> QED
    BY <2>1, <2>2
<1>6. ASSUME NEW t \in Threads, StoreCalculated(t) PROVE IInv'
  BY <1>6 DEF StoreCalculated
<1>7. ASSUME NEW t \in Threads, Compare(t) PROVE IInv'
  <2>1. /\ buffer[t] \in Address /\ length[t] \in Address \ {0}
        /\ buffer[t] + length[t] < Word /\ Known
    BY <1>7 DEF Compare
  <2>2. begin # 0 /\ end # 0
    BY <2>1
  <2>3. /\ Outside(buffer[t], length[t]) <=> Bytes(buffer[t], length[t]) \cap Enclave = {}
        /\ Inside(buffer[t], length[t]) <=> Bytes(buffer[t], length[t]) \subseteq Enclave
    BY <2>1, CheckDecides
  <2> QED
    BY <1>7, <2>1, <2>2, <2>3 DEF Compare
<1>8. CASE UNCHANGED vars
  BY <1>8 DEF vars
<1> QED
  BY <1>1, <1>2, <1>3, <1>4, <1>5, <1>6, <1>7, <1>8 DEF Next, Step

(* The state is always well typed (MemoryChecks.h:13-112).                 *)
THEOREM Typing == Safety => []TypeOK
<1>1. IInv => TypeOK
  BY DEF IInv
<1> QED
  BY <1>1, InitIInv, NextIInv, PTL DEF Safety

(* No check accepts a buffer with a byte on the wrong side                 *)
(* (MemoryChecks.h:64-112).                                                *)
THEOREM Sound == Safety => []AcceptsOnlyGood
<1>1. IInv => AcceptsOnlyGood
  BY DEF IInv
<1> QED
  BY <1>1, InitIInv, NextIInv, PTL DEF Safety

(* No check rejects a buffer on the right side, but at the top of the      *)
(* address space (MemoryChecks.h:64-112).                                  *)
THEOREM Complete == Safety => []RejectsOnlyBad
<1>1. IInv => RejectsOnlyBad
  BY DEF IInv
<1> QED
  BY <1>1, InitIInv, NextIInv, PTL DEF Safety
==============================================================================
