------------------------------ MODULE RangeCheck ------------------------------
(***************************************************************************)
(* The checks that a buffer lies outside (AbiCheckForVTL0Buffer) or inside *)
(* (AbiCheckForVTL1Buffer) the enclave, on machine words, with the bounds  *)
(* of the enclave that the first threads to check compute lazily and       *)
(* without a lock.                                                         *)
(***************************************************************************)
EXTENDS Integers

CONSTANTS
  Threads,     \* threads of the enclave that check buffers
  Word,        \* number of addresses, 2^64 in the program
  Base, Size   \* what EnclaveGetEnclaveInformation reports

ASSUME RangeCheckAssumption ==
  /\ Word \in Nat /\ Base \in 1..(Word - 1) /\ Size \in 1..(Word - 1)

Address == 0..(Word - 1)

VARIABLES
  pc,          \* where each thread's check is
  check,       \* which check it is
  buffer, length,
  begin, end,  \* s_enclave_memory_begin and _end, 0 when not yet written
  calculated,  \* s_memory_bounds_calculated
  verdict      \* what each thread's last check returned

vars == <<pc, check, buffer, length, begin, end, calculated, verdict>>

args   == <<check, buffer, length>>
bounds == <<begin, end, calculated>>

At(t, l) == pc[t] = l
Goto(t, l) == pc' = [pc EXCEPT ![t] = l]
Return(t, hr) == /\ pc' = [pc EXCEPT ![t] = "idle"]
                 /\ verdict' = [verdict EXCEPT ![t] = hr]

(* msl::utilities::SafeAdd on size_t.                                      *)
SafeAdd(a, b) == [ok |-> a + b < Word, sum |-> a + b]

Init ==
  /\ pc = [t \in Threads |-> "idle"]
  /\ check = [t \in Threads |-> "VTL0"]
  /\ buffer = [t \in Threads |-> 0] /\ length = [t \in Threads |-> 0]
  /\ begin = 0 /\ end = 0 /\ calculated = FALSE
  /\ verdict = [t \in Threads |-> "none"]

(* A check begins: an empty buffer is anywhere, one that runs over the top *)
(* of the address space is nowhere.                                        *)
Call(t, which, b, n) ==
  /\ At(t, "idle")
  /\ check' = [check EXCEPT ![t] = which]
  /\ buffer' = [buffer EXCEPT ![t] = b] /\ length' = [length EXCEPT ![t] = n]
  /\ IF n = 0 THEN Return(t, "S_OK")
     ELSE IF ~SafeAdd(b, n).ok THEN Return(t, "E_INVALIDARG")
     ELSE Goto(t, "load") /\ verdict' = [verdict EXCEPT ![t] = "none"]
  /\ UNCHANGED bounds

(* InitializeEnclaveDetails, each access to a shared variable by itself.   *)
LoadCalculated(t) ==
  /\ At(t, "load")
  /\ Goto(t, IF calculated THEN "compare" ELSE "query")
  /\ UNCHANGED <<args, bounds, verdict>>

QueryFails(t) ==
  /\ At(t, "query")
  /\ Return(t, "query_failed")
  /\ UNCHANGED <<args, bounds>>

(* Mutant: the flag is set with the begin only.                            *)
WriteBeginReady(t) ==
  /\ At(t, "query")
  /\ begin' = Base /\ calculated' = TRUE
  /\ Goto(t, "write_end")
  /\ UNCHANGED <<args, end, verdict>>

WriteBegin(t) ==
  /\ At(t, "query")
  /\ begin' = Base
  /\ Goto(t, "write_end")
  /\ UNCHANGED <<args, end, calculated, verdict>>

(* Mutant: the size is kept for the end.                                   *)
WriteEndSize(t) ==
  /\ At(t, "write_end")
  /\ IF SafeAdd(Base, Size).ok
     THEN end' = Size /\ Goto(t, "store") /\ UNCHANGED verdict
     ELSE Return(t, "E_FAIL") /\ UNCHANGED end
  /\ UNCHANGED <<args, begin, calculated>>

WriteEnd(t) ==
  /\ At(t, "write_end")
  /\ IF SafeAdd(Base, Size).ok
     THEN end' = SafeAdd(Base, Size).sum /\ Goto(t, "store") /\ UNCHANGED verdict
     ELSE Return(t, "E_FAIL") /\ UNCHANGED end
  /\ UNCHANGED <<args, begin, calculated>>

StoreCalculated(t) ==
  /\ At(t, "store")
  /\ calculated' = TRUE
  /\ Goto(t, "compare")
  /\ UNCHANGED <<args, begin, end, verdict>>

(* Mutants: an inclusive end, an exclusive one, and only the start tested. *)
OutsideInclusive(b, n) == SafeAdd(b, n).sum < begin \/ b >= end
InsideStart(b, n)      == b >= begin /\ b < end

Outside(b, n) == SafeAdd(b, n).sum <= begin \/ b >= end
Inside(b, n)  == b >= begin /\ SafeAdd(b, n).sum <= end

Compare(t) ==
  /\ At(t, "compare")
  /\ Return(t, IF begin # 0 /\ end # 0
                  /\ IF check[t] = "VTL0" THEN Outside(buffer[t], length[t])
                                          ELSE Inside(buffer[t], length[t])
               THEN "S_OK" ELSE "E_FAIL")
  /\ UNCHANGED <<args, bounds>>

Step(t) == \/ LoadCalculated(t) \/ QueryFails(t) \/ WriteBegin(t) \/ WriteEnd(t)
           \/ StoreCalculated(t) \/ Compare(t)

Next == \E t \in Threads :
          \/ \E which \in {"VTL0", "VTL1"}, b, n \in Address : Call(t, which, b, n)
          \/ Step(t)

Safety == Init /\ [][Next]_vars
-----------------------------------------------------------------------------
(* What the machine touches: the addresses from b on, over the top of the  *)
(* address space if need be.                                               *)
Wrap(a)     == IF a < Word THEN a ELSE a - Word
Bytes(b, n) == {Wrap(b + i) : i \in 0..(n - 1)}
Enclave     == Base..(Base + Size - 1)

(* Type invariant.                                                         *)
TypeOK ==
  /\ pc \in [Threads -> {"idle", "load", "query", "write_end", "store", "compare"}]
  /\ check \in [Threads -> {"VTL0", "VTL1"}]
  /\ buffer \in [Threads -> Address] /\ length \in [Threads -> Address]
  /\ begin \in {0, Base} /\ end \in {0, Base + Size}
  /\ calculated \in BOOLEAN
  /\ verdict \in [Threads -> {"none", "S_OK", "E_FAIL", "E_INVALIDARG", "query_failed"}]

(* A buffer that passed is where it was said to be, to the last byte, even *)
(* if other threads were still computing the bounds                        *)
(* (MemoryChecks.h:64-112).                                                *)
AcceptsOnlyGood ==
  \A t \in Threads : verdict[t] = "S_OK" =>
    IF check[t] = "VTL0"
    THEN Bytes(buffer[t], length[t]) \cap Enclave = {}
    ELSE Bytes(buffer[t], length[t]) \subseteq Enclave

(* A buffer that failed is not where it was said to be, unless it reaches  *)
(* the top of the address space or the enclave's own range does: no race   *)
(* over the bounds turns a good buffer away (MemoryChecks.h:17-43).        *)
RejectsOnlyBad ==
  \A t \in Threads :
    /\ verdict[t] = "E_INVALIDARG" => buffer[t] + length[t] >= Word
    /\ verdict[t] = "E_FAIL" /\ Base + Size < Word =>
         IF check[t] = "VTL0"
         THEN Bytes(buffer[t], length[t]) \cap Enclave # {}
         ELSE ~(Bytes(buffer[t], length[t]) \subseteq Enclave)
==============================================================================
