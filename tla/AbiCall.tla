-------------------------------- MODULE AbiCall --------------------------------
(***************************************************************************)
(* Calls between the host (VTL0) and the enclave (VTL1), nested to any     *)
(* depth: the host calls an export of the enclave, whose implementation    *)
(* calls back into the host, whose callback may call an export again.      *)
(* What passes between the two lies in buffers of the host's heap, which   *)
(* both sides allocate and which change hands.                             *)
(*                                                                         *)
(* A call is named by its thread and its depth: odd depths are exports,    *)
(* even ones callbacks.  Only the innermost call of a thread moves.        *)
(***************************************************************************)
EXTENDS Integers

CONSTANTS
  Threads,   \* threads of the host
  MaxDepth,  \* bound on the nesting
  Buffers,   \* bound on the host's heap
  Faults     \* what may go wrong

Fault == {"allocate", "copy", "context", "unpack", "throw", "call", "free"}

ASSUME AbiCallAssumption ==
  MaxDepth \in Nat /\ "none" \notin Buffers /\ Faults \subseteq Fault

Calls == Threads \X (1..MaxDepth)
Slots == {"params", "context", "returned", "result"}

VARIABLES
  depth,   \* number of calls each thread is in
  pc,      \* where each call is
  ok,      \* the call has a result and no error
  slot,    \* the buffers a call refers to: "returned" is the field of its context
  heap     \* what each buffer of the host's heap holds, and of which call

vars == <<depth, pc, ok, slot, heap>>

IsExport(c) == c[2] % 2 = 1
Top(c)      == depth[c[1]] = c[2]
At(c, l)    == Top(c) /\ pc[c] = l
Goto(c, l)  == pc' = [pc EXCEPT ![c] = l]

Holding(w, c) == [what |-> w, of |-> c]
Unused(b)     == heap[b].what = "unused"
NoCall        == <<"none", 0>>
Nothing       == Holding("unused", NoCall)
Empty         == [s \in Slots |-> "none"]

MayGoWrong(f) == f \in Faults
Fail(c)       == Goto(c, "unwind") /\ ok' = [ok EXCEPT ![c] = FALSE]

Init ==
  /\ depth = [t \in Threads |-> 0]
  /\ pc = [c \in Calls |-> "none"] /\ ok = [c \in Calls |-> FALSE]
  /\ slot = [c \in Calls |-> Empty]
  /\ heap = [b \in Buffers |-> Nothing]

-----------------------------------------------------------------------------
(* Code of the host, or of an implementation on either side, makes a call. *)
Call(t) ==
  LET c == <<t, depth[t] + 1>>
  IN  /\ depth[t] < MaxDepth
      /\ depth[t] > 0 => pc[<<t, depth[t]>>] = "implementation"
      /\ depth' = [depth EXCEPT ![t] = @ + 1]
      /\ Goto(c, IF IsExport(c) THEN "enter" ELSE "params")
      /\ ok' = [ok EXCEPT ![c] = FALSE]
      /\ slot' = [slot EXCEPT ![c] = Empty]
      /\ UNCHANGED heap

(* A new buffer of the host's heap for slot s.                             *)
Allocate(c, s, w, next) ==
  \/ \E b \in Buffers :
       /\ Unused(b)
       /\ heap' = [heap EXCEPT ![b] = Holding(w, c)]
       /\ slot' = [slot EXCEPT ![c][s] = b]
       /\ Goto(c, next)
       /\ UNCHANGED <<depth, ok>>
  \/ /\ MayGoWrong("allocate") \/ \A b \in Buffers : ~Unused(b)
     /\ Fail(c)
     /\ UNCHANGED <<depth, slot, heap>>

(* EnclaveCopyOutOfEnclave into the buffer of slot s.                      *)
CopyOut(c, s, w, next) ==
  \/ /\ heap' = [heap EXCEPT ![slot[c][s]] = Holding(w, c)]
     /\ Goto(c, next)
     /\ UNCHANGED <<depth, ok, slot>>
  \/ /\ MayGoWrong("copy")
     /\ Fail(c)
     /\ UNCHANGED <<depth, slot, heap>>

(* A step that only may go wrong.                                          *)
Pass(c, faults, next) ==
  /\ \/ Goto(c, next) /\ UNCHANGED ok
     \/ (\E f \in faults : MayGoWrong(f)) /\ Fail(c)
  /\ UNCHANGED <<depth, slot, heap>>

-----------------------------------------------------------------------------
(* CallVtl1ExportFromVtl1: take the arguments in, run the implementation,  *)
(* put its result into the host's heap and its address into the context.   *)
EnterExport(c) ==
  At(c, "enter") /\ Pass(c, {"call", "allocate", "copy", "unpack"}, "implementation")

Implementation(c) ==
  /\ At(c, "implementation")
  /\ Pass(c, {"throw"}, IF IsExport(c) THEN "allocate" ELSE "answer")

AllocateReturn(c) ==
  At(c, "allocate") /\ Allocate(c, "result", "blank", "write")

WriteReturn(c) == At(c, "write") /\ CopyOut(c, "result", "result", "publish")

(* Mutant: the pointer is not released when the context has its copy.      *)
PublishKeeps(c) ==
  /\ At(c, "publish")
  /\ slot' = [slot EXCEPT ![c].returned = slot[c].result]
  /\ ok' = [ok EXCEPT ![c] = TRUE]
  /\ Goto(c, "unwind")
  /\ UNCHANGED <<depth, heap>>

Publish(c) ==
  /\ At(c, "publish")
  /\ \/ /\ slot' = [slot EXCEPT ![c].returned = slot[c].result, ![c].result = "none"]
        /\ ok' = [ok EXCEPT ![c] = TRUE]
        /\ Goto(c, "unwind")
     \/ MayGoWrong("copy") /\ Fail(c) /\ UNCHANGED slot
  /\ UNCHANGED <<depth, heap>>

(* CallVtl1ExportFromVtl0, back in the host: an error is thrown, a result  *)
(* is unpacked, which may throw too, and freed.                            *)
ReturnToHost(c) ==
  /\ At(c, "back")
  /\ heap' = [b \in Buffers |-> IF ok[c] /\ b = slot[c].returned
                                THEN Nothing ELSE heap[b]]
  /\ slot' = [slot EXCEPT ![c].returned = "none"]
  /\ depth' = [depth EXCEPT ![c[1]] = @ - 1]
  /\ Goto(c, "none")
  /\ UNCHANGED ok

-----------------------------------------------------------------------------
(* CallVtl0CallbackFromVtl1Impl: look the callback up, put its arguments   *)
(* and a context into the host's heap, and call it.                        *)
AllocateParams(c) ==
  /\ At(c, "params")
  /\ \/ Allocate(c, "params", "blank", "write_params")
     \/ MayGoWrong("call") /\ Fail(c) /\ UNCHANGED <<depth, slot, heap>>

(* Mutant: an error of the copy is not looked at.                          *)
WriteParamsUnchecked(c) ==
  /\ At(c, "write_params")
  /\ \/ CopyOut(c, "params", "params", "context")
     \/ Goto(c, "context") /\ UNCHANGED <<depth, ok, slot, heap>>

WriteParams(c) == At(c, "write_params") /\ CopyOut(c, "params", "params", "context")

AllocateContext(c) ==
  At(c, "context") /\ Allocate(c, "context", "blank", "write_context")

WriteContext(c) ==
  At(c, "write_context") /\ CopyOut(c, "context", "context", "call")

EnterCallback(c) ==
  At(c, "call") /\ Pass(c, {"call", "unpack"}, "implementation")

(* CallVtl0CallbackImplFromVtl0, after the implementation: the result goes *)
(* into a buffer whose address the context keeps.                          *)
Answer(c) == At(c, "answer") /\ Allocate(c, "returned", "result", "answered")

(* Back in the enclave: the context is copied in, and only then does the   *)
(* enclave own the result.                                                 *)
CopyContext(c) ==
  /\ At(c, "answered")
  /\ \/ /\ slot' = [slot EXCEPT ![c].result = slot[c].returned, ![c].returned = "none"]
        /\ Goto(c, "copy_result")
        /\ UNCHANGED ok
     \/ MayGoWrong("context") /\ Fail(c) /\ UNCHANGED slot
  /\ UNCHANGED <<depth, heap>>

CopyResult(c) ==
  /\ At(c, "copy_result")
  /\ \/ ok' = [ok EXCEPT ![c] = TRUE] /\ Goto(c, "unwind")
     \/ (\E f \in {"allocate", "copy", "unpack"} : MayGoWrong(f)) /\ Fail(c)
  /\ UNCHANGED <<depth, slot, heap>>

-----------------------------------------------------------------------------
(* The destructors of the enclave's vtl0_memory_ptr, last one first.  Each *)
(* calls the host, logs what goes wrong and goes on: a buffer that the     *)
(* host would not free is "lost".  A context that is gone takes its fields *)
(* along.                                                                  *)
Owned(c) == {s \in Slots \ {"returned"} : slot[c][s] # "none"}

Last(c) == CHOOSE s \in Owned(c) :
             \/ s = "result"
             \/ s = "context" /\ "result" \notin Owned(c)
             \/ Owned(c) = {"params"}

Dropped(c, s) == [slot[c] EXCEPT ![s] = "none",
                    !.returned = IF s = "context" THEN "none" ELSE @]

(* Mutant: on an error the arguments are left to the callback to free.     *)
DestroySome(c) ==
  /\ At(c, "unwind") /\ Owned(c) # {}
  /\ slot' = [slot EXCEPT ![c] = Dropped(c, Last(c))]
  /\ heap' = IF Last(c) = "params" /\ ~ok[c] THEN heap
             ELSE [heap EXCEPT ![slot[c][Last(c)]] = Nothing]
  /\ UNCHANGED <<depth, pc, ok>>

Destroy(c) ==
  /\ At(c, "unwind") /\ Owned(c) # {}
  /\ slot' = [slot EXCEPT ![c] = Dropped(c, Last(c))]
  /\ \/ heap' = [heap EXCEPT ![slot[c][Last(c)]] = Nothing]
     \/ /\ MayGoWrong("free")
        /\ heap' = [heap EXCEPT ![slot[c][Last(c)]] = Holding("lost", NoCall)]
  /\ UNCHANGED <<depth, pc, ok>>

(* Mutant: a call ends before its destructors have run.                    *)
ReturnEarly(c) ==
  /\ At(c, "unwind")
  /\ IF IsExport(c) THEN Goto(c, "back") /\ UNCHANGED depth
     ELSE depth' = [depth EXCEPT ![c[1]] = @ - 1] /\ Goto(c, "none")
  /\ UNCHANGED <<ok, slot, heap>>

(* The enclave is left by its export, or goes on after its callback.       *)
Return(c) ==
  /\ At(c, "unwind") /\ Owned(c) = {}
  /\ IF IsExport(c) THEN Goto(c, "back") /\ UNCHANGED depth
     ELSE depth' = [depth EXCEPT ![c[1]] = @ - 1] /\ Goto(c, "none")
  /\ UNCHANGED <<ok, slot, heap>>

Export(c)   == \/ EnterExport(c) \/ AllocateReturn(c) \/ WriteReturn(c)
               \/ Publish(c) \/ ReturnToHost(c)
Callback(c) == \/ AllocateParams(c) \/ WriteParams(c) \/ AllocateContext(c)
               \/ WriteContext(c) \/ EnterCallback(c) \/ Answer(c)
               \/ CopyContext(c) \/ CopyResult(c)

Next == \/ \E t \in Threads : Call(t)
        \/ \E c \in Calls : \/ Export(c) \/ Callback(c) \/ Implementation(c)
                            \/ Destroy(c) \/ Return(c)

Safety == Init /\ [][Next]_vars
-----------------------------------------------------------------------------
(* Type invariant; a call that is over refers to nothing.                  *)
Pcs == {"none", "enter", "implementation", "allocate", "write", "publish", "unwind",
        "back", "params", "write_params", "context", "write_context", "call",
        "answer", "answered", "copy_result"}

TypeOK ==
  /\ depth \in [Threads -> 0..MaxDepth]
  /\ pc \in [Calls -> Pcs] /\ ok \in [Calls -> BOOLEAN]
  /\ slot \in [Calls -> [Slots -> Buffers \cup {"none"}]]
  /\ heap \in [Buffers -> [what : {"unused", "blank", "params", "context", "result",
                                   "lost"},
                           of : Calls \cup {NoCall}]]
  /\ \A c \in Calls : IF depth[c[1]] < c[2] THEN pc[c] = "none" /\ slot[c] = Empty
                                            ELSE pc[c] # "none"

(* Whoever refers to a buffer is the only one who does, and nobody else    *)
(* has freed it: no buffer is freed twice or used after it was freed,      *)
(* however calls fail and nest (EnclaveHelpers.h:82-106, 119-178,          *)
(* HostHelpers.h:57-59, 110-122).                                          *)
OneOwner ==
  \A c \in Calls, s \in Slots : slot[c][s] # "none" =>
    /\ ~Unused(slot[c][s]) /\ heap[slot[c][s]].of = c
    /\ \A r \in Slots \ {s} : slot[c][r] # slot[c][s]

(* Each side reads what the other wrote for this very call, however calls  *)
(* of other threads and other depths reuse the heap (EnclaveHelpers.h:     *)
(* 144-178, HostHelpers.h:57-64, 95-102).                                  *)
Has(c, s, w) == slot[c][s] # "none" /\ heap[slot[c][s]] = Holding(w, c)

ReadsOwn ==
  \A c \in Calls :
    /\ pc[c] = "call" => Has(c, "params", "params") /\ Has(c, "context", "context")
    /\ pc[c] = "answered" => Has(c, "context", "context")
    /\ pc[c] = "copy_result" => Has(c, "result", "result")
    /\ pc[c] = "back" /\ ok[c] => Has(c, "returned", "result")

(* A buffer in use belongs to a call that goes on, so that the heap holds  *)
(* only what the host would not free when no thread is in a call, also     *)
(* after calls that failed: "Make sure returned params are freed before we *)
(* leave the function" (EnclaveHelpers.h:157).                             *)
NothingLeaks ==
  \A b \in Buffers :
    heap[b].what \notin {"unused", "lost"} => \E c \in Calls, s \in Slots : slot[c][s] = b
==============================================================================
