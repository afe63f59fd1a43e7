----------------------------- MODULE AbiCallProofs -----------------------------
(***************************************************************************)
(* Whatever goes wrong, for any number of threads, any nesting and any     *)
(* heap: a buffer has one owner, each side reads what the other wrote for  *)
(* it, and what leaks is the answer of a callback, if anything.            *)
(***************************************************************************)
EXTENDS AbiCall, TLAPS

(* A call's buffers are its own and distinct.                              *)
Owner(c) ==
  \A s \in Slots : slot[c][s] # "none" =>
    /\ ~Unused(slot[c][s]) /\ heap[slot[c][s]].of = c
    /\ \A r \in Slots \ {s} : slot[c][r] # slot[c][s]

(* How far a call has come tells what it has written.                      *)
Wrote(c) ==
  /\ IsExport(c) => slot[c].params = "none" /\ slot[c].context = "none"
  /\ ~IsExport(c) /\ slot[c].returned # "none" => slot[c].context # "none"
  /\ ok[c] => pc[c] \in {"none", "unwind", "back"}
  /\ pc[c] \in {"enter", "allocate", "write", "publish", "back"} => IsExport(c)
  /\ pc[c] \in {"params", "write_params", "context", "write_context", "call",
                "answer", "answered", "copy_result"} => ~IsExport(c)
  /\ pc[c] = "write" => slot[c].result # "none"
  /\ pc[c] = "publish" => Has(c, "result", "result")
  /\ pc[c] \in {"unwind", "back"} /\ IsExport(c) /\ ok[c] => Has(c, "returned", "result")
  /\ pc[c] = "back" => slot[c].result = "none"
  /\ pc[c] = "write_params" => slot[c].params # "none"
  /\ pc[c] \in {"context", "write_context", "call", "answer", "answered"}
       => Has(c, "params", "params")
  /\ pc[c] = "implementation" /\ ~IsExport(c)
       => Has(c, "params", "params") /\ Has(c, "context", "context")
  /\ pc[c] = "write_context" => slot[c].context # "none"
  /\ pc[c] \in {"call", "answer", "answered"} => Has(c, "context", "context")
  /\ pc[c] = "answered" => Has(c, "returned", "result")
  /\ pc[c] = "copy_result" => Has(c, "result", "result")

CallInv(c) == Owner(c) /\ Wrote(c)

IInv == TypeOK /\ \A c \in Calls : CallInv(c)

(* What is destroyed next is something that is owned.                      *)
LEMMA LastOwned ==
  ASSUME NEW c \in Calls, Owned(c) # {}
  PROVE  Last(c) \in Owned(c)
<1>1. Owned(c) \subseteq {"params", "context", "result"}
  BY DEF Owned, Slots
<1>2. \E s \in Owned(c) : \/ s = "result"
                          \/ s = "context" /\ "result" \notin Owned(c)
                          \/ Owned(c) = {"params"}
  BY <1>1
<1> QED
  BY <1>2 DEF Last

(* The inductive invariant holds at the start.                             *)
LEMMA InitIInv == Init => IInv
<1> SUFFICES ASSUME Init PROVE IInv
  OBVIOUS
<1>1. Empty \in [Slots -> Buffers \cup {"none"}]
  BY DEF Empty
<1>2. Nothing \in [what : {"unused", "blank", "params", "context", "result", "lost"},
                   of : Calls \cup {NoCall}]
  BY DEF Nothing, Holding
<1>3. \A c \in Calls : depth[c[1]] = 0 /\ c[2] > 0
  BY AbiCallAssumption DEF Init, Calls
<1>4. TypeOK
  BY <1>1, <1>2, <1>3, AbiCallAssumption DEF Init, TypeOK, Pcs
<1>5. \A c \in Calls, s \in Slots : slot[c][s] = "none"
  BY DEF Init, Empty
<1>6. \A c \in Calls : pc[c] = "none" /\ ~ok[c]
  BY DEF Init
<1>7. \A c \in Calls : Owner(c)
  BY <1>5 DEF Owner
<1>8. \A c \in Calls : Wrote(c)
  BY <1>5, <1>6 DEF Wrote, Slots
<1> QED
  BY <1>4, <1>7, <1>8 DEF IInv, CallInv

(* A step of call c leaves the other calls and their buffers alone.        *)
LEMMA Frame ==
  ASSUME IInv, TypeOK', NEW c \in Calls, CallInv(c)',
         \A d \in Calls \ {c} : pc'[d] = pc[d] /\ ok'[d] = ok[d] /\ slot'[d] = slot[d],
         \A d \in Calls \ {c}, s \in Slots :
           slot[d][s] # "none" => heap'[slot[d][s]] = heap[slot[d][s]]
  PROVE  IInv'
<1> SUFFICES ASSUME NEW d \in Calls \ {c} PROVE CallInv(d)'
  BY DEF IInv
<1>1. CallInv(d)
  BY DEF IInv
<1>2. pc'[d] = pc[d] /\ ok'[d] = ok[d] /\ slot'[d] = slot[d]
  OBVIOUS
<1>3. \A s \in Slots : slot[d][s] # "none" => heap'[slot[d][s]] = heap[slot[d][s]]
  OBVIOUS
<1>4. Owner(d)'
  BY <1>1, <1>2, <1>3 DEF CallInv, Owner, Unused
<1>5. \A s \in Slots, w \in {"params", "context", "result"} : Has(d, s, w) => Has(d, s, w)'
  BY <1>2, <1>3 DEF Has
<1>6. Wrote(d)'
  BY <1>1, <1>2, <1>5 DEF CallInv, Wrote, Slots
<1> QED
  BY <1>4, <1>6 DEF CallInv

(* A step of call c that changes neither its buffers nor the heap.         *)
LEMMA Moves ==
  ASSUME IInv, NEW c \in Calls, pc[c] # "none", UNCHANGED <<depth, slot, heap>>,
         NEW l \in Pcs \ {"none"}, Goto(c, l), ok' \in [Calls -> BOOLEAN],
         \A d \in Calls \ {c} : ok'[d] = ok[d], Wrote(c)'
  PROVE  IInv'
<1>1. TypeOK'
  BY DEF IInv, TypeOK, Goto
<1>2. Owner(c)'
  BY DEF IInv, CallInv, Owner, Unused
<1>3. \A d \in Calls \ {c} : pc'[d] = pc[d]
  BY DEF IInv, TypeOK, Goto
<1> QED
  BY <1>1, <1>2, <1>3, Frame DEF CallInv

(* So does one that fails.                                                 *)
LEMMA Fails ==
  ASSUME IInv, NEW c \in Calls, pc[c] # "none", UNCHANGED <<depth, slot, heap>>, Fail(c)
  PROVE  IInv'
<1>1. pc'[c] = "unwind" /\ ~ok'[c] /\ slot'[c] = slot[c]
  BY DEF IInv, TypeOK, Fail, Goto
<1>2. Wrote(c)'
  BY <1>1 DEF IInv, CallInv, Wrote
<1> QED
  BY <1>2, Moves DEF Fail, Pcs, IInv, TypeOK

(* A buffer that a call allocates was nobody's.                            *)
LEMMA Allocates ==
  ASSUME IInv, NEW c \in Calls, pc[c] # "none", NEW b \in Buffers, Unused(b),
         NEW s \in Slots, NEW w \in {"blank", "result"},
         NEW l \in Pcs \ {"none"}, Goto(c, l), UNCHANGED <<depth, ok>>,
         heap' = [heap EXCEPT ![b] = Holding(w, c)], slot' = [slot EXCEPT ![c][s] = b],
         Wrote(c)'
  PROVE  IInv'
<1>1. /\ slot'[c] = [slot[c] EXCEPT ![s] = b]
      /\ slot'[c] \in [Slots -> Buffers \cup {"none"}]
      /\ \A d \in Calls \ {c} : pc'[d] = pc[d] /\ slot'[d] = slot[d]
  BY DEF IInv, TypeOK, Goto
<1>2. heap'[b] = Holding(w, c) /\ \A a \in Buffers \ {b} : heap'[a] = heap[a]
  BY DEF IInv, TypeOK
<1>3. TypeOK'
  BY <1>1 DEF IInv, TypeOK, Goto, Holding
<1>4. \A d \in Calls, r \in Slots : slot[d][r] # "none" =>
        slot[d][r] \in Buffers \ {b}
  BY DEF IInv, TypeOK, CallInv, Owner, Unused
<1>5. Owner(c)'
  <2>1. Owner(c)
    BY DEF IInv, CallInv
  <2>2. b # "none"
    BY AbiCallAssumption
  <2> QED
    BY <1>1, <1>2, <1>4, <2>1, <2>2 DEF Owner, Unused, Holding, IInv, TypeOK
<1> QED
  BY <1>1, <1>2, <1>3, <1>4, <1>5, Frame DEF CallInv

(* A buffer that a call writes or frees is its own.                        *)
LEMMA OthersKeep ==
  ASSUME IInv, NEW c \in Calls, NEW s \in Slots, slot[c][s] # "none",
         NEW h, heap' = [heap EXCEPT ![slot[c][s]] = h]
  PROVE  /\ slot[c][s] \in Buffers /\ heap'[slot[c][s]] = h
         /\ \A d \in Calls \ {c}, r \in Slots :
              slot[d][r] # "none" => heap'[slot[d][r]] = heap[slot[d][r]]
         /\ \A r \in Slots \ {s} :
              slot[c][r] # "none" => heap'[slot[c][r]] = heap[slot[c][r]]
<1>1. slot[c][s] \in Buffers
  BY DEF IInv, TypeOK
<1>2. \A d \in Calls \ {c}, r \in Slots :
        slot[d][r] # "none" => slot[d][r] \in Buffers \ {slot[c][s]}
  BY DEF IInv, TypeOK, CallInv, Owner
<1>3. \A r \in Slots \ {s} : slot[c][r] # "none" => slot[c][r] \in Buffers \ {slot[c][s]}
  BY DEF IInv, TypeOK, CallInv, Owner
<1> QED
  BY <1>1, <1>2, <1>3 DEF IInv, TypeOK

(* A copy out of the enclave that succeeds.                                *)
LEMMA Copies ==
  ASSUME IInv, NEW c \in Calls, pc[c] # "none", NEW s \in Slots, slot[c][s] # "none",
         NEW w \in {"params", "context", "result"}, NEW l \in Pcs \ {"none"}, Goto(c, l),
         UNCHANGED <<depth, ok, slot>>,
         heap' = [heap EXCEPT ![slot[c][s]] = Holding(w, c)],
         /\ heap'[slot[c][s]] = Holding(w, c) /\ pc'[c] = l
         /\ \A r \in Slots \ {s} : slot[c][r] # "none" =>
              heap'[slot[c][r]] = heap[slot[c][r]]
         => Wrote(c)'
  PROVE  IInv'
<1>1. /\ slot[c][s] \in Buffers /\ heap'[slot[c][s]] = Holding(w, c)
      /\ \A d \in Calls \ {c}, r \in Slots :
           slot[d][r] # "none" => heap'[slot[d][r]] = heap[slot[d][r]]
      /\ \A r \in Slots \ {s} :
           slot[c][r] # "none" => heap'[slot[c][r]] = heap[slot[c][r]]
  BY OthersKeep
<1>2. TypeOK'
  BY <1>1 DEF IInv, TypeOK, Goto, Holding
<1>3. Owner(c)'
  BY <1>1 DEF IInv, CallInv, Owner, Unused, Holding
<1>4. \A d \in Calls \ {c} : pc'[d] = pc[d] /\ ok'[d] = ok[d] /\ slot'[d] = slot[d]
  BY DEF IInv, TypeOK, Goto
<1>5. Wrote(c)'
  BY <1>1 DEF IInv, TypeOK, Goto
<1> QED
  BY <1>1, <1>2, <1>3, <1>4, <1>5, Frame DEF CallInv

(* Only the innermost call is between a depth and the one above it.        *)
LEMMA Before ==
  ASSUME NEW n \in Int, NEW m \in Int, m # n
  PROVE  n - 1 < m <=> n < m
OBVIOUS

(* A call that ends has dropped its buffers.                               *)
LEMMA Pops ==
  ASSUME IInv, NEW c \in Calls, Top(c), UNCHANGED ok, Goto(c, "none"),
         depth' = [depth EXCEPT ![c[1]] = @ - 1],
         slot' \in [Calls -> [Slots -> Buffers \cup {"none"}]], slot'[c] = Empty,
         \A d \in Calls \ {c} : slot'[d] = slot[d],
         heap' \in [Buffers -> [what : {"unused", "blank", "params", "context", "result", "lost"},
                                of : Calls \cup {NoCall}]],
         \A d \in Calls \ {c}, r \in Slots :
           slot[d][r] # "none" => heap'[slot[d][r]] = heap[slot[d][r]]
  PROVE  IInv'
<1>0. PICK t \in Threads, n \in 1..MaxDepth : c = <<t, n>>
  BY DEF Calls
<1>1. /\ depth[t] = n /\ depth'[t] = n - 1
      /\ \A u \in Threads \ {t} : depth'[u] = depth[u]
      /\ depth' \in [Threads -> 0..MaxDepth]
  BY <1>0, AbiCallAssumption DEF Top, IInv, TypeOK
<1>2. \A d \in Calls : /\ d[1] \in Threads /\ d[2] \in 1..MaxDepth
                       /\ d # c => d[1] # t \/ d[2] # n
  BY <1>0 DEF Calls
<1>3. pc' \in [Calls -> Pcs] /\ pc'[c] = "none" /\ \A d \in Calls \ {c} : pc'[d] = pc[d]
  BY DEF IInv, TypeOK, Goto, Pcs
<1>4. \A d \in Calls : IF depth'[d[1]] < d[2] THEN pc'[d] = "none" /\ slot'[d] = Empty
                                              ELSE pc'[d] # "none"
  <2>1. ASSUME NEW d \in Calls, d # c
        PROVE  depth'[d[1]] < d[2] <=> depth[d[1]] < d[2]
    <3>1. n \in Int /\ d[2] \in Int /\ (d[1] # t \/ d[2] # n)
      BY <1>0, <1>2, <2>1, AbiCallAssumption
    <3>2. CASE d[1] = t
      <4>1. n - 1 < d[2] <=> n < d[2]
        BY <3>1, <3>2, Before
      <4> QED
        BY <1>1, <3>2, <4>1
    <3>3. CASE d[1] # t
      BY <1>1, <1>2, <3>3
    <3> QED
      BY <3>2, <3>3
  <2>2. depth'[c[1]] < c[2] /\ slot'[c] = Empty
    BY <1>0, <1>1, AbiCallAssumption
  <2> QED
    BY <1>3, <2>1, <2>2 DEF IInv, TypeOK
<1>5. TypeOK'
  BY <1>1, <1>3, <1>4 DEF IInv, TypeOK
<1>6. \A r \in Slots : slot'[c][r] = "none"
  BY DEF Empty
<1>7. Owner(c)'
  BY <1>6 DEF Owner
<1>8. Wrote(c)'
  BY <1>3, <1>6 DEF Wrote, Slots
<1> QED
  BY <1>3, <1>5, <1>7, <1>8, Frame DEF CallInv

(* A step of one call preserves the invariant.                             *)
LEMMA CallStep ==
  ASSUME IInv, NEW c \in Calls, Top(c),
         Export(c) \/ Callback(c) \/ Implementation(c) \/ Destroy(c) \/ Return(c)
  PROVE  IInv'
<1>a. Owner(c) /\ Wrote(c) /\ pc[c] \in Pcs
  BY DEF IInv, CallInv, TypeOK
<1>p. \A l \in Pcs : Goto(c, l) => pc'[c] = l
  BY DEF IInv, TypeOK, Goto
<1>x. ASSUME pc[c] # "none", NEW F, NEW l \in {"implementation", "allocate", "answer"},
             Pass(c, F, l), Goto(c, l) /\ UNCHANGED ok => Wrote(c)'
      PROVE  IInv'
  <2>1. CASE Fail(c) /\ UNCHANGED <<depth, slot, heap>>
    BY <1>x, <2>1, Fails
  <2>2. CASE Goto(c, l) /\ UNCHANGED ok /\ UNCHANGED <<depth, slot, heap>>
    BY <1>x, <2>2, Moves DEF Pcs, IInv, TypeOK
  <2> QED
    BY <1>x, <2>1, <2>2 DEF Pass
<1>1. CASE EnterExport(c)
  <2>1. Goto(c, "implementation") /\ UNCHANGED <<ok, slot, heap>> => Wrote(c)'
    BY <1>1, <1>a, <1>p DEF EnterExport, At, Wrote, Pcs
  <2> QED
    BY <1>1, <1>x, <2>1 DEF EnterExport, At, Pass
<1>2. CASE EnterCallback(c)
  <2>1. Goto(c, "implementation") /\ UNCHANGED <<ok, slot, heap>> => Wrote(c)'
    BY <1>2, <1>a, <1>p DEF EnterCallback, At, Wrote, Pcs, Has
  <2> QED
    BY <1>2, <1>x, <2>1 DEF EnterCallback, At, Pass
<1>3. CASE Implementation(c)
  <2>1. ASSUME NEW l \in {"allocate", "answer"}, l = "allocate" <=> IsExport(c),
               Goto(c, l), UNCHANGED <<ok, slot, heap>>
        PROVE  Wrote(c)'
    BY <1>3, <2>1, <1>a, <1>p DEF Implementation, At, Wrote, Pcs, Has
  <2> QED
    BY <1>3, <1>x, <2>1 DEF Implementation, At, Pass
<1>y. ASSUME pc[c] # "none", NEW s \in Slots, NEW w \in {"blank", "result"},
             NEW l \in Pcs \ {"none"}, Allocate(c, s, w, l),
             \A b \in Buffers :
               /\ slot'[c] = [slot[c] EXCEPT ![s] = b] /\ heap'[b] = Holding(w, c)
               /\ pc'[c] = l /\ ok' = ok
               /\ \A r \in Slots \ {s} : slot[c][r] # "none" =>
                    heap'[slot[c][r]] = heap[slot[c][r]]
               => Wrote(c)'
      PROVE  IInv'
  <2>1. CASE Fail(c) /\ UNCHANGED <<depth, slot, heap>>
    BY <1>y, <2>1, Fails
  <2>2. ASSUME NEW b \in Buffers, Unused(b), heap' = [heap EXCEPT ![b] = Holding(w, c)],
               slot' = [slot EXCEPT ![c][s] = b], Goto(c, l), UNCHANGED <<depth, ok>>
        PROVE  IInv'
    <3>1. slot'[c] = [slot[c] EXCEPT ![s] = b] /\ heap'[b] = Holding(w, c)
          /\ pc'[c] = l /\ ok' = ok
      BY <2>2, <1>p DEF IInv, TypeOK
    <3>2. \A r \in Slots \ {s} : slot[c][r] # "none" =>
            heap'[slot[c][r]] = heap[slot[c][r]]
      BY <1>a, <2>2 DEF Owner, Unused, IInv, TypeOK
    <3>3. Wrote(c)'
      BY <3>1, <3>2, <1>y
    <3> QED
      BY <1>y, <2>2, <3>3, Allocates
  <2> QED
    BY <1>y, <2>1, <2>2 DEF Allocate
<1>z. ASSUME pc[c] # "none", NEW s \in Slots, slot[c][s] # "none",
             NEW w \in {"params", "context", "result"}, NEW l \in Pcs \ {"none"},
             CopyOut(c, s, w, l),
             /\ slot'[c] = slot[c] /\ heap'[slot[c][s]] = Holding(w, c)
             /\ pc'[c] = l /\ ok' = ok
             /\ \A r \in Slots \ {s} : slot[c][r] # "none" =>
                  heap'[slot[c][r]] = heap[slot[c][r]]
             => Wrote(c)'
      PROVE  IInv'
  <2>1. CASE Fail(c) /\ UNCHANGED <<depth, slot, heap>>
    BY <1>z, <2>1, Fails
  <2>2. CASE heap' = [heap EXCEPT ![slot[c][s]] = Holding(w, c)] /\ Goto(c, l)
             /\ UNCHANGED <<depth, ok, slot>>
    BY <1>z, <2>2, Copies
  <2> QED
    BY <1>z, <2>1, <2>2 DEF CopyOut
<1>4. CASE AllocateReturn(c)
  <2> SUFFICES ASSUME NEW b \in Buffers, slot'[c] = [slot[c] EXCEPT !["result"] = b],
                      pc'[c] = "write", ok' = ok
               PROVE  Wrote(c)'
    BY <1>4, <1>y DEF AllocateReturn, At, Slots, Pcs
  <2> QED
    BY <1>4, <1>a, AbiCallAssumption DEF AllocateReturn, At, Wrote, Slots, IInv, TypeOK
<1>5. CASE WriteReturn(c)
  <2>1. slot[c].result # "none"
    BY <1>5, <1>a DEF WriteReturn, At, Wrote
  <2> SUFFICES ASSUME slot'[c] = slot[c], heap'[slot[c].result] = Holding("result", c),
                      pc'[c] = "publish", ok' = ok
               PROVE  Wrote(c)'
    BY <1>5, <1>z, <2>1 DEF WriteReturn, At, Slots, Pcs
  <2> QED
    BY <1>5, <1>a, <2>1 DEF WriteReturn, At, Wrote, Has
<1>6. CASE AllocateParams(c)
  <2>1. CASE Fail(c) /\ UNCHANGED <<depth, slot, heap>>
    BY <1>6, <2>1, Fails DEF AllocateParams, At
  <2>2. CASE Allocate(c, "params", "blank", "write_params")
    <3> SUFFICES ASSUME NEW b \in Buffers, slot'[c] = [slot[c] EXCEPT !["params"] = b],
                        pc'[c] = "write_params", ok' = ok
                 PROVE  Wrote(c)'
      BY <1>6, <2>2, <1>y DEF AllocateParams, At, Slots, Pcs
    <3> QED
      BY <1>6, <1>a, AbiCallAssumption DEF AllocateParams, At, Wrote, Slots, IInv, TypeOK
  <2> QED
    BY <1>6, <2>1, <2>2 DEF AllocateParams
<1>7. CASE WriteParams(c)
  <2>1. slot[c].params # "none"
    BY <1>7, <1>a DEF WriteParams, At, Wrote
  <2> SUFFICES ASSUME slot'[c] = slot[c], heap'[slot[c].params] = Holding("params", c),
                      pc'[c] = "context", ok' = ok
               PROVE  Wrote(c)'
    BY <1>7, <1>z, <2>1 DEF WriteParams, At, Slots, Pcs
  <2> QED
    BY <1>7, <1>a, <2>1 DEF WriteParams, At, Wrote, Has
<1>8. CASE AllocateContext(c)
  <2> SUFFICES ASSUME NEW b \in Buffers, slot'[c] = [slot[c] EXCEPT !["context"] = b],
                      pc'[c] = "write_context", ok' = ok,
                      \A r \in Slots \ {"context"} : slot[c][r] # "none" =>
                        heap'[slot[c][r]] = heap[slot[c][r]]
               PROVE  Wrote(c)'
    BY <1>8, <1>y DEF AllocateContext, At, Slots, Pcs
  <2> QED
    BY <1>8, <1>a, AbiCallAssumption
       DEF AllocateContext, At, Wrote, Has, Slots, IInv, TypeOK
<1>9. CASE WriteContext(c)
  <2>1. slot[c].context # "none"
    BY <1>9, <1>a DEF WriteContext, At, Wrote
  <2> SUFFICES ASSUME slot'[c] = slot[c], heap'[slot[c].context] = Holding("context", c),
                      pc'[c] = "call", ok' = ok,
                      \A r \in Slots \ {"context"} : slot[c][r] # "none" =>
                        heap'[slot[c][r]] = heap[slot[c][r]]
               PROVE  Wrote(c)'
    BY <1>9, <1>z, <2>1 DEF WriteContext, At, Slots, Pcs
  <2> QED
    BY <1>9, <1>a, <2>1 DEF WriteContext, At, Wrote, Has, Slots
<1>10. CASE Answer(c)
  <2> SUFFICES ASSUME NEW b \in Buffers, slot'[c] = [slot[c] EXCEPT !["returned"] = b],
                      heap'[b] = Holding("result", c), pc'[c] = "answered", ok' = ok,
                      \A r \in Slots \ {"returned"} : slot[c][r] # "none" =>
                        heap'[slot[c][r]] = heap[slot[c][r]]
               PROVE  Wrote(c)'
    BY <1>10, <1>y DEF Answer, At, Slots, Pcs
  <2> QED
    BY <1>10, <1>a, AbiCallAssumption DEF Answer, At, Wrote, Has, Slots, IInv, TypeOK
<1>11. CASE Publish(c)
  <2>1. CASE Fail(c) /\ UNCHANGED <<depth, slot, heap>>
    BY <1>11, <2>1, Fails DEF Publish, At
  <2>2. CASE /\ slot' = [slot EXCEPT ![c].returned = slot[c].result, ![c].result = "none"]
             /\ ok' = [ok EXCEPT ![c] = TRUE]
             /\ Goto(c, "unwind") /\ UNCHANGED <<depth, heap>>
    <3>1. /\ Has(c, "result", "result") /\ IsExport(c) /\ pc[c] # "none"
          /\ slot[c].params = "none" /\ slot[c].context = "none"
          /\ slot[c] \in [Slots -> Buffers \cup {"none"}]
      BY <1>11, <1>a DEF Publish, At, Wrote, IInv, TypeOK
    <3>2. /\ slot'[c] = [slot[c] EXCEPT !["returned"] = slot[c].result,
                                        !["result"] = "none"]
          /\ slot'[c] \in [Slots -> Buffers \cup {"none"}]
          /\ pc'[c] = "unwind" /\ ok'[c]
          /\ \A d \in Calls \ {c} : pc'[d] = pc[d] /\ ok'[d] = ok[d] /\ slot'[d] = slot[d]
      BY <2>2, <3>1 DEF IInv, TypeOK, Goto, Slots
    <3>3. TypeOK'
      BY <2>2, <3>1, <3>2 DEF IInv, TypeOK, Goto, Pcs
    <3>4. Owner(c)'
      <4>1. \A r \in Slots : slot'[c][r] # "none" => r = "returned"
        BY <3>1, <3>2 DEF Slots
      <4>2. heap'[slot'[c].returned] = Holding("result", c)
        BY <2>2, <3>1, <3>2 DEF Has, Slots
      <4> QED
        BY <4>1, <4>2 DEF Owner, Unused, Holding
    <3>5. Wrote(c)'
      BY <2>2, <3>1, <3>2 DEF Wrote, Slots, Has
    <3> QED
      BY <2>2, <3>2, <3>3, <3>4, <3>5, Frame DEF CallInv
  <2> QED
    BY <1>11, <2>1, <2>2 DEF Publish
<1>12. CASE CopyContext(c)
  <2>1. CASE Fail(c) /\ UNCHANGED <<depth, slot, heap>>
    BY <1>12, <2>1, Fails DEF CopyContext, At
  <2>2. CASE /\ slot' = [slot EXCEPT ![c].result = slot[c].returned, ![c].returned = "none"]
             /\ Goto(c, "copy_result") /\ UNCHANGED <<depth, ok, heap>>
    <3>1. /\ Has(c, "returned", "result") /\ ~IsExport(c) /\ pc[c] # "none" /\ ~ok[c]
          /\ slot[c] \in [Slots -> Buffers \cup {"none"}]
      BY <1>12, <1>a DEF CopyContext, At, Wrote, IInv, TypeOK
    <3>2. /\ slot'[c] = [slot[c] EXCEPT !["result"] = slot[c].returned,
                                        !["returned"] = "none"]
          /\ slot'[c] \in [Slots -> Buffers \cup {"none"}]
          /\ pc'[c] = "copy_result"
          /\ \A d \in Calls \ {c} : pc'[d] = pc[d] /\ ok'[d] = ok[d] /\ slot'[d] = slot[d]
      BY <2>2, <3>1 DEF IInv, TypeOK, Goto, Slots
    <3>3. TypeOK'
      BY <2>2, <3>1, <3>2 DEF IInv, TypeOK, Goto, Pcs
    <3>4. Owner(c)'
      <4>1. /\ slot'[c].params = slot[c].params /\ slot'[c].context = slot[c].context
            /\ slot'[c].result = slot[c].returned /\ slot'[c].returned = "none"
        BY <3>1, <3>2 DEF Slots
      <4>2. \A r \in {"params", "context", "returned"} : slot[c][r] # "none" =>
              /\ heap[slot[c][r]].what # "unused" /\ heap[slot[c][r]].of = c
              /\ \A q \in {"params", "context", "returned"} \ {r} :
                   slot[c][q] # slot[c][r]
        BY <1>a DEF Owner, Unused, Slots
      <4> QED
        BY <2>2, <4>1, <4>2, ZenonT(60) DEF Owner, Unused, Slots
    <3>5. Wrote(c)'
      BY <2>2, <3>1, <3>2 DEF Wrote, Slots, Has
    <3> QED
      BY <2>2, <3>2, <3>3, <3>4, <3>5, Frame DEF CallInv
  <2> QED
    BY <1>12, <2>1, <2>2 DEF CopyContext
<1>13. CASE CopyResult(c)
  <2>1. CASE Fail(c) /\ UNCHANGED <<depth, slot, heap>>
    BY <1>13, <2>1, Fails DEF CopyResult, At
  <2>2. CASE ok' = [ok EXCEPT ![c] = TRUE] /\ Goto(c, "unwind")
             /\ UNCHANGED <<depth, slot, heap>>
    <3>1. ~IsExport(c) /\ pc'[c] = "unwind" /\ pc[c] # "none"
      BY <1>13, <2>2, <1>a, <1>p DEF CopyResult, At, Wrote, Pcs
    <3>2. Wrote(c)'
      BY <1>a, <2>2, <3>1 DEF Wrote
    <3>3. ok' \in [Calls -> BOOLEAN] /\ \A d \in Calls \ {c} : ok'[d] = ok[d]
      BY <2>2 DEF IInv, TypeOK
    <3> QED
      BY <2>2, <3>1, <3>2, <3>3, Moves DEF Pcs
  <2> QED
    BY <1>13, <2>1, <2>2 DEF CopyResult
<1>14. CASE Destroy(c)
  <2> DEFINE q == Last(c)
  <2>1. q \in Slots \ {"returned"} /\ slot[c][q] # "none" /\ pc[c] = "unwind"
    BY <1>14, LastOwned DEF Destroy, At, Owned
  <2>2. /\ slot'[c] = Dropped(c, q) /\ slot'[c][q] = "none"
        /\ slot'[c] \in [Slots -> Buffers \cup {"none"}]
        /\ \A r \in Slots : slot'[c][r] # "none" => r # q /\ slot'[c][r] = slot[c][r]
        /\ pc' = pc /\ ok' = ok /\ depth' = depth
        /\ \A d \in Calls \ {c} : slot'[d] = slot[d]
    BY <1>14, <2>1 DEF Destroy, Dropped, IInv, TypeOK, Slots
  <2>3. \E h \in {Nothing, Holding("lost", NoCall)} : heap' = [heap EXCEPT ![slot[c][q]] = h]
    BY <1>14 DEF Destroy
  <2>4. /\ \A d \in Calls \ {c}, r \in Slots :
             slot[d][r] # "none" => heap'[slot[d][r]] = heap[slot[d][r]]
        /\ \A r \in Slots \ {q} :
             slot[c][r] # "none" => heap'[slot[c][r]] = heap[slot[c][r]]
    <3>1. PICK h \in {Nothing, Holding("lost", NoCall)} :
                 heap' = [heap EXCEPT ![slot[c][q]] = h]
      BY <2>3
    <3>2. slot[c][q] # "none" /\ q \in Slots
      BY <2>1
    <3> HIDE DEF q
    <3> QED
      BY <3>1, <3>2, OthersKeep
  <2>5. TypeOK'
    <3>1. heap' \in [Buffers -> [what : {"unused", "blank", "params", "context", "result", "lost"},
                                 of : Calls \cup {NoCall}]]
      <4> DEFINE H == [what : {"unused", "blank", "params", "context", "result", "lost"},
                       of : Calls \cup {NoCall}]
      <4>1. Nothing \in H /\ Holding("lost", NoCall) \in H
        BY DEF Nothing, Holding
      <4>2. PICK h \in {Nothing, Holding("lost", NoCall)} :
                   heap' = [heap EXCEPT ![slot[c][q]] = h]
        BY <2>3
      <4>3. h \in H /\ heap \in [Buffers -> H]
        BY <4>1, <4>2 DEF IInv, TypeOK
      <4> HIDE DEF H, q
      <4>4. heap' \in [Buffers -> H]
        BY <4>2, <4>3
      <4> QED
        BY <4>4 DEF H
    <3>2. slot' \in [Calls -> [Slots -> Buffers \cup {"none"}]]
      BY <1>14, <2>2 DEF Destroy, IInv, TypeOK
    <3>3. depth[c[1]] >= c[2] /\ ~(depth[c[1]] < c[2])
      BY <1>14 DEF Destroy, At, Top, Calls, IInv, TypeOK
    <3> QED
      BY <2>1, <2>2, <3>1, <3>2, <3>3 DEF IInv, TypeOK
  <2>6. Owner(c)'
    BY <1>a, <2>2, <2>4 DEF Owner, Unused
  <2>7. Wrote(c)'
    <3>1. IsExport(c) => slot[c].context = "none"
      BY <1>a DEF Wrote
    <3>2. IsExport(c) /\ ok[c] => Has(c, "returned", "result")
      BY <1>a, <2>1 DEF Wrote
    <3>3. IsExport(c) => q # "context" /\ slot'[c].returned = slot[c].returned
      BY <2>1, <2>2, <3>1 DEF Dropped, Slots, IInv, TypeOK
    <3>4. IsExport(c) /\ ok[c] => Has(c, "returned", "result")'
      BY <2>1, <2>4, <3>2, <3>3 DEF Has, Slots
    <3>5. IsExport(c) => slot'[c].params = "none" /\ slot'[c].context = "none"
      BY <1>a, <2>2 DEF Wrote, Slots
    <3>6. slot'[c].returned # "none" => slot[c].returned # "none"
          /\ slot'[c].context = slot[c].context
      BY <2>1, <2>2 DEF Dropped, Slots, IInv, TypeOK
    <3> QED
      BY <1>a, <2>1, <2>2, <3>4, <3>5, <3>6 DEF Wrote
  <2> QED
    BY <2>2, <2>4, <2>5, <2>6, <2>7, Frame DEF CallInv
<1>15. CASE Return(c)
  <2>1. CASE IsExport(c)
    <3>1. /\ Goto(c, "back") /\ UNCHANGED <<depth, ok, slot, heap>> /\ pc[c] = "unwind"
          /\ slot[c].result = "none"
      BY <1>15, <2>1 DEF Return, At, Owned, Slots
    <3>2. Wrote(c)'
      BY <1>a, <1>p, <2>1, <3>1 DEF Wrote, Has, Pcs
    <3> QED
      BY <3>1, <3>2, Moves DEF Pcs, IInv, TypeOK
  <2>2. CASE ~IsExport(c)
    <3>1. /\ depth' = [depth EXCEPT ![c[1]] = @ - 1] /\ Goto(c, "none") /\ Owned(c) = {}
          /\ UNCHANGED <<ok, slot, heap>> /\ pc[c] = "unwind"
      BY <1>15, <2>2 DEF Return, At
    <3>2. slot[c] = Empty
      <4>1. slot[c].params = "none" /\ slot[c].context = "none" /\ slot[c].result = "none"
        BY <3>1 DEF Owned, Slots
      <4>2. slot[c].returned = "none"
        BY <1>a, <2>2, <4>1 DEF Wrote
      <4>3. slot[c] \in [Slots -> Buffers \cup {"none"}]
        BY DEF IInv, TypeOK
      <4> QED
        BY <4>1, <4>2, <4>3 DEF Empty, Slots
    <3> QED
      BY <3>1, <3>2, Pops DEF IInv, TypeOK
  <2> QED
    BY <2>1, <2>2
<1>16. CASE ReturnToHost(c)
  <2>1. /\ pc[c] = "back" /\ IsExport(c)
        /\ slot[c].params = "none" /\ slot[c].context = "none" /\ slot[c].result = "none"
        /\ slot[c] \in [Slots -> Buffers \cup {"none"}]
    BY <1>16, <1>a DEF ReturnToHost, At, Wrote, IInv, TypeOK
  <2>2. slot' = [slot EXCEPT ![c].returned = "none"]
    BY <1>16 DEF ReturnToHost
  <2>3. slot'[c] = [slot[c] EXCEPT !["returned"] = "none"]
        /\ \A d \in Calls \ {c} : slot'[d] = slot[d]
    BY <2>2 DEF IInv, TypeOK
  <2>4. slot'[c] = Empty
    BY <2>1, <2>3 DEF Empty, Slots
  <2>5. slot' \in [Calls -> [Slots -> Buffers \cup {"none"}]]
    BY <2>1, <2>2, <2>3 DEF IInv, TypeOK
  <2>6. heap' \in [Buffers -> [what : {"unused", "blank", "params", "context", "result", "lost"},
                               of : Calls \cup {NoCall}]]
    BY <1>16 DEF ReturnToHost, IInv, TypeOK, Nothing, Holding
  <2>7. ASSUME NEW d \in Calls \ {c}, NEW r \in Slots, slot[d][r] # "none"
        PROVE  heap'[slot[d][r]] = heap[slot[d][r]]
    <3>1. slot[d][r] \in Buffers /\ slot[d][r] # slot[c].returned
      BY <2>7 DEF IInv, TypeOK, CallInv, Owner, Slots
    <3> QED
      BY <1>16, <3>1 DEF ReturnToHost
  <2> QED
    BY <1>16, <2>3, <2>4, <2>5, <2>6, <2>7, Pops DEF ReturnToHost
<1> QED
  BY <1>1, <1>2, <1>3, <1>4, <1>5, <1>6, <1>7, <1>8, <1>9, <1>10, <1>11, <1>12, <1>13,
     <1>14, <1>15, <1>16 DEF Export, Callback

(* A new call holds nothing.                                               *)
LEMMA CallBegins ==
  ASSUME IInv, NEW t \in Threads, NEW c \in Calls, c = <<t, depth[t] + 1>>, Call(t)
  PROVE  IInv'
<1>1. /\ depth[t] \in 0..MaxDepth /\ depth[t] < MaxDepth
      /\ depth' = [depth EXCEPT ![t] = @ + 1] /\ UNCHANGED heap
      /\ Goto(c, IF IsExport(c) THEN "enter" ELSE "params")
      /\ ok' = [ok EXCEPT ![c] = FALSE] /\ slot' = [slot EXCEPT ![c] = Empty]
  BY DEF Call, IInv, TypeOK
<1>2. c \in Calls /\ c[1] = t /\ c[2] = depth[t] + 1
  BY <1>1, AbiCallAssumption DEF Calls
<1>3. /\ pc' \in [Calls -> Pcs] /\ pc'[c] = IF IsExport(c) THEN "enter" ELSE "params"
      /\ ok' \in [Calls -> BOOLEAN] /\ ~ok'[c]
      /\ slot'[c] = Empty /\ slot' \in [Calls -> [Slots -> Buffers \cup {"none"}]]
      /\ \A d \in Calls \ {c} : pc'[d] = pc[d] /\ ok'[d] = ok[d] /\ slot'[d] = slot[d]
  BY <1>1, <1>2 DEF IInv, TypeOK, Goto, Pcs, Empty
<1>4. \A d \in Calls : /\ d[1] \in Threads /\ d[2] \in 1..MaxDepth
                       /\ d # c => d[1] # t \/ d[2] # depth[t] + 1
  BY DEF Calls
<1>5. /\ depth' \in [Threads -> 0..MaxDepth] /\ depth'[t] = depth[t] + 1
      /\ \A u \in Threads \ {t} : depth'[u] = depth[u]
  BY <1>1, AbiCallAssumption DEF IInv, TypeOK
<1>6. \A d \in Calls : IF depth'[d[1]] < d[2] THEN pc'[d] = "none" /\ slot'[d] = Empty
                                              ELSE pc'[d] # "none"
  <2>1. ASSUME NEW d \in Calls, d # c
        PROVE  depth'[d[1]] < d[2] <=> depth[d[1]] < d[2]
    BY <1>1, <1>4, <1>5, <2>1, AbiCallAssumption
  <2>2. ~(depth'[c[1]] < c[2]) /\ pc'[c] # "none"
    BY <1>1, <1>2, <1>3, <1>5
  <2> QED
    BY <1>3, <2>1, <2>2 DEF IInv, TypeOK
<1>7. TypeOK'
  BY <1>1, <1>3, <1>5, <1>6 DEF IInv, TypeOK
<1>8. \A r \in Slots : slot'[c][r] = "none"
  BY <1>3 DEF Empty
<1>9. Owner(c)'
  BY <1>8 DEF Owner
<1>10. Wrote(c)'
  BY <1>3, <1>8 DEF Wrote, Slots
<1> QED
  BY <1>1, <1>2, <1>3, <1>7, <1>9, <1>10, Frame DEF CallInv

(* Every step preserves the invariant.                                     *)
LEMMA NextIInv == IInv /\ [Next]_vars => IInv'
<1> SUFFICES ASSUME IInv, [Next]_vars PROVE IInv'
  OBVIOUS
<1>1. CASE UNCHANGED vars
  BY <1>1 DEF vars, IInv, TypeOK, CallInv, Owner, Wrote, Has, Unused
<1>2. ASSUME NEW c \in Calls,
             Export(c) \/ Callback(c) \/ Implementation(c) \/ Destroy(c) \/ Return(c)
      PROVE  IInv'
  <2>1. Top(c)
    BY <1>2 DEF Export, Callback, EnterExport, AllocateReturn, WriteReturn, Publish,
       ReturnToHost, AllocateParams, WriteParams, AllocateContext, WriteContext,
       EnterCallback, Answer, CopyContext, CopyResult, Implementation, Destroy, Return, At
  <2> QED
    BY <1>2, <2>1, CallStep
<1>3. ASSUME NEW t \in Threads, Call(t) PROVE IInv'
  <2>1. PICK c \in Calls : c = <<t, depth[t] + 1>>
    BY <1>3, AbiCallAssumption DEF Call, Calls, IInv, TypeOK
  <2> QED
    BY <1>3, <2>1, CallBegins
<1> QED
  BY <1>1, <1>2, <1>3 DEF Next

(* The invariant holds in every reachable state.                           *)
THEOREM Invariance == Safety => []IInv
BY InitIInv, NextIInv, PTL DEF Safety

(* The state is always well typed, and a call that is over refers to no    *)
(* buffer (EnclaveHelpers.h:50-184, HostHelpers.h:27-124).                 *)
THEOREM Typing == Safety => []TypeOK
<1>1. IInv => TypeOK
  BY DEF IInv
<1> QED
  BY <1>1, Invariance, PTL

(* No buffer of the host's heap is freed twice or used after it was freed  *)
(* (EnclaveHelpers.h:82-106, 119-178, HostHelpers.h:57-59, 110-122).       *)
THEOREM OwnedOnce == Safety => []OneOwner
<1>1. IInv => OneOwner
  BY DEF IInv, CallInv, Owner, OneOwner
<1> QED
  BY <1>1, Invariance, PTL

(* Each side reads what the other wrote for this very call                 *)
(* (EnclaveHelpers.h:144-178, HostHelpers.h:57-64, 95-102).                *)
THEOREM ReadsWhatWasWritten == Safety => []ReadsOwn
<1>1. IInv => ReadsOwn
  BY DEF IInv, CallInv, Wrote, ReadsOwn, TypeOK
<1> QED
  BY <1>1, Invariance, PTL

(***************************************************************************)
(* What leaks.  A callback's result is the enclave's when the context that *)
(* refers to it has been copied in; until then, and for ever if it cannot  *)
(* be, nobody will free it.                                                *)
(***************************************************************************)
(* The call fails between the callback's answer and the enclave's copy.    *)
Abandons(c) ==
  "context" \in Faults /\ pc[c] = "unwind" /\ Has(c, "returned", "result")

(* No call has a buffer in a slot that a step of its own overwrites, but   *)
(* for an answer abandoned.                                                *)
Kept(c) ==
  /\ IsExport(c) /\ slot[c].returned # "none" => ok[c]
  /\ ~IsExport(c) /\ slot[c].returned # "none" => pc[c] = "answered" \/ Abandons(c)
  /\ pc[c] \notin {"write", "publish", "unwind", "copy_result"} => slot[c].result = "none"
  /\ pc[c] \in {"params", "write_params", "context"} => slot[c].context = "none"
  /\ pc[c] = "params" => slot[c].params = "none"

(* A buffer in use is referred to by the call it was allocated for, or is  *)
(* the answer of a callback.                                               *)
InUse(b)    == heap[b].what \notin {"unused", "lost"}
IsAnswer(b) == "context" \in Faults /\ heap[b].what = "result" /\ ~IsExport(heap[b].of)
Held(b)     == InUse(b) => /\ heap[b].of \in Calls
                           /\ (\E s \in Slots : slot[heap[b].of][s] = b) \/ IsAnswer(b)

OnlyAnswersLeak ==
  \A b \in Buffers :
    InUse(b) => (\E c \in Calls, s \in Slots : slot[c][s] = b) \/ IsAnswer(b)

LeakInv == IInv /\ (\A c \in Calls : Kept(c)) /\ (\A b \in Buffers : Held(b))

Step(c) == Export(c) \/ Callback(c) \/ Implementation(c) \/ Destroy(c) \/ Return(c)

LEMMA InitLeakInv == Init => LeakInv
<1> SUFFICES ASSUME Init PROVE LeakInv
  OBVIOUS
<1>1. \A c \in Calls, s \in Slots : slot[c][s] = "none" /\ pc[c] = "none"
  BY DEF Init, Empty
<1>2. \A c \in Calls : Kept(c)
  BY <1>1 DEF Kept, Slots
<1>3. \A b \in Buffers : ~InUse(b)
  BY DEF Init, InUse, Nothing, Holding
<1> QED
  BY <1>2, <1>3, InitIInv DEF LeakInv, Held

(* A step of call c leaves the other calls alone.                          *)
LEMMA StepFrame ==
  ASSUME TypeOK, NEW c \in Calls, Step(c), NEW d \in Calls \ {c}
  PROVE  pc'[d] = pc[d] /\ ok'[d] = ok[d] /\ slot'[d] = slot[d]
BY DEF TypeOK, Step, Export, Callback, EnterExport, AllocateReturn, WriteReturn, Publish,
   ReturnToHost, AllocateParams, WriteParams, AllocateContext, WriteContext, EnterCallback,
   Answer, CopyContext, CopyResult, Implementation, Destroy, Return, Allocate, CopyOut, Pass,
   Fail, Goto

(* And their buffers.                                                      *)
LEMMA HeapFrame ==
  ASSUME IInv, NEW c \in Calls, Step(c), NEW d \in Calls \ {c}, NEW s \in Slots,
         slot[d][s] # "none"
  PROVE  heap'[slot[d][s]] = heap[slot[d][s]]
<1> DEFINE b == slot[d][s]
<1>1. /\ b \in Buffers /\ ~Unused(b) /\ \A r \in Slots : slot[c][r] # b
      /\ heap \in [Buffers -> [what : {"unused", "blank", "params", "context", "result",
                                       "lost"},
                               of : Calls \cup {NoCall}]]
  BY DEF IInv, TypeOK, CallInv, Owner
<1>2. /\ \A r \in Slots : \A w, l : Allocate(c, r, w, l) => heap'[b] = heap[b]
      /\ \A r \in Slots : \A w, l : CopyOut(c, r, w, l) => heap'[b] = heap[b]
  <2> HIDE DEF b
  <2> QED
    BY <1>1 DEF Allocate, CopyOut
<1>3. CASE Destroy(c)
  <2>1. Last(c) \in Slots
    BY <1>3, LastOwned DEF Destroy, Owned
  <2>2. slot[c][Last(c)] # b
    BY <1>1, <2>1
  <2>3. PICK h : heap' = [heap EXCEPT ![slot[c][Last(c)]] = h]
    BY <1>3 DEF Destroy
  <2> QED
    BY <1>1, <2>2, <2>3
<1>4. CASE ReturnToHost(c)
  BY <1>1, <1>4 DEF ReturnToHost, Slots
<1> HIDE DEF b
<1> QED
  BY <1>2, <1>3, <1>4
     DEF b, Step, Export, Callback, EnterExport, AllocateReturn, WriteReturn, Publish,
         AllocateParams, WriteParams, AllocateContext, WriteContext, EnterCallback, Answer,
         CopyContext, CopyResult, Implementation, Return, Pass, Slots

(* A step of call c overwrites no buffer of a slot.                        *)
LEMMA KeepsKept ==
  ASSUME IInv, IInv', NEW c \in Calls, Kept(c), Step(c)
  PROVE  Kept(c)'
<1>a. /\ Wrote(c) /\ Wrote(c)' /\ pc[c] \in Pcs
      /\ slot[c] \in [Slots -> Buffers \cup {"none"}]
  BY DEF IInv, CallInv, TypeOK
<1>p. \A l \in Pcs : Goto(c, l) => pc'[c] = l
  BY DEF IInv, TypeOK, Goto
<1>f. Fail(c) => pc'[c] = "unwind" /\ ~ok'[c]
  BY DEF IInv, TypeOK, Fail, Goto
<1>x. ASSUME NEW F, NEW l \in {"implementation", "allocate", "answer"}, Pass(c, F, l),
             pc[c] \in {"enter", "implementation", "call"}
      PROVE  Kept(c)'
  <2>1. slot' = slot /\ pc'[c] \in {l, "unwind"}
    BY <1>x, <1>p, <1>f DEF Pass, Pcs
  <2>2. slot[c].returned = "none"
    BY <1>x, <1>a DEF Kept, Abandons, Wrote
  <2> QED
    BY <1>x, <2>1, <2>2 DEF Kept
<1>y. ASSUME NEW s \in Slots, NEW w, NEW l \in Pcs, Allocate(c, s, w, l)
      PROVE  \/ pc'[c] = "unwind" /\ slot'[c] = slot[c] /\ ok'[c] = FALSE
             \/ /\ pc'[c] = l /\ ok'[c] = ok[c]
                /\ \A r \in Slots \ {s} : slot'[c][r] = slot[c][r]
  BY <1>y, <1>p, <1>f DEF Allocate, IInv, TypeOK
<1>z. ASSUME NEW s \in Slots, NEW w, NEW l \in Pcs, CopyOut(c, s, w, l)
      PROVE  slot'[c] = slot[c] /\ (\/ pc'[c] = "unwind" /\ ok'[c] = FALSE
                                    \/ pc'[c] = l /\ ok'[c] = ok[c])
  BY <1>z, <1>p, <1>f DEF CopyOut
<1>1. CASE EnterExport(c) \/ EnterCallback(c) \/ Implementation(c)
  BY <1>1, <1>x DEF EnterExport, EnterCallback, Implementation, At
<1>2. CASE AllocateReturn(c)
  BY <1>2, <1>y, <1>a DEF AllocateReturn, At, Kept, Abandons, Wrote, Slots, Pcs
<1>3. CASE WriteReturn(c)
  BY <1>3, <1>z, <1>a DEF WriteReturn, At, Kept, Abandons, Wrote, Slots, Pcs
<1>4. CASE AllocateParams(c)
  BY <1>4, <1>y, <1>a, <1>f DEF AllocateParams, At, Kept, Abandons, Wrote, Slots, Pcs
<1>5. CASE WriteParams(c)
  BY <1>5, <1>z, <1>a DEF WriteParams, At, Kept, Abandons, Wrote, Slots, Pcs
<1>6. CASE AllocateContext(c)
  BY <1>6, <1>y, <1>a DEF AllocateContext, At, Kept, Abandons, Wrote, Slots, Pcs
<1>7. CASE WriteContext(c)
  BY <1>7, <1>z, <1>a DEF WriteContext, At, Kept, Abandons, Wrote, Slots, Pcs
<1>8. CASE Answer(c)
  BY <1>8, <1>y, <1>a DEF Answer, At, Kept, Abandons, Wrote, Slots, Pcs
<1>9. CASE Publish(c)
  <2>1. CASE Fail(c) /\ UNCHANGED slot
    BY <1>9, <2>1, <1>a, <1>f DEF Publish, At, Kept, Abandons, Wrote
  <2>2. CASE ok' = [ok EXCEPT ![c] = TRUE] /\ Goto(c, "unwind")
    <3>1. ok'[c] /\ pc'[c] = "unwind" /\ IsExport(c)
      BY <1>9, <2>2, <1>a, <1>p DEF Publish, At, Wrote, IInv, TypeOK, Pcs
    <3> QED
      BY <3>1 DEF Kept
  <2> QED
    BY <1>9, <2>1, <2>2 DEF Publish
<1>10. CASE CopyContext(c)
  <2>1. ~IsExport(c) /\ Has(c, "returned", "result")
    BY <1>10, <1>a DEF CopyContext, At, Wrote
  <2>2. CASE /\ slot' = [slot EXCEPT ![c].result = slot[c].returned, ![c].returned = "none"]
             /\ Goto(c, "copy_result")
    <3>1. pc'[c] = "copy_result" /\ slot'[c].returned = "none"
      BY <2>2, <1>a, <1>p DEF IInv, TypeOK, Pcs, Slots
    <3> QED
      BY <2>1, <3>1 DEF Kept
  <2>3. CASE MayGoWrong("context") /\ Fail(c) /\ UNCHANGED slot
    <3>1. pc'[c] = "unwind" /\ heap' = heap
      BY <1>10, <2>3, <1>f DEF CopyContext
    <3>2. Abandons(c)'
      BY <2>1, <2>3, <3>1 DEF Abandons, Has, MayGoWrong
    <3> QED
      BY <2>1, <3>1, <3>2 DEF Kept
  <2> QED
    BY <1>10, <2>2, <2>3 DEF CopyContext
<1>11. CASE CopyResult(c)
  <2>1. slot' = slot /\ pc'[c] = "unwind" /\ ~IsExport(c)
    BY <1>11, <1>a, <1>p, <1>f DEF CopyResult, At, Wrote, Pcs
  <2> QED
    BY <1>11, <2>1 DEF CopyResult, At, Kept, Abandons
<1>12. CASE Destroy(c)
  <2>1. /\ pc'[c] = "unwind" /\ pc[c] = "unwind" /\ ok' = ok
        /\ slot'[c].returned # "none" => slot'[c].returned = slot[c].returned
    BY <1>12, <1>a DEF Destroy, At, Dropped, IInv, TypeOK, Slots
  <2>2. slot[c].returned # "none" => heap'[slot[c].returned] = heap[slot[c].returned]
    <3>1. Last(c) \in Slots \ {"returned"} /\ slot[c][Last(c)] # "none"
      BY <1>12, LastOwned DEF Destroy, Owned
    <3>2. PICK h : heap' = [heap EXCEPT ![slot[c][Last(c)]] = h]
      BY <1>12 DEF Destroy
    <3> QED
      BY <3>1, <3>2, OthersKeep DEF Slots
  <2>3. slot'[c].returned # "none" /\ Abandons(c) => Abandons(c)'
    BY <2>1, <2>2 DEF Abandons, Has
  <2> QED
    BY <2>1, <2>3 DEF Kept
<1>13. CASE Return(c)
  <2>1. /\ slot' = slot /\ ok' = ok /\ slot[c].result = "none" /\ pc[c] = "unwind"
        /\ pc'[c] \in {"back", "none"} /\ slot[c].context = "none"
    BY <1>13, <1>p DEF Return, At, Owned, Slots, Pcs
  <2> QED
    BY <2>1, <1>a DEF Kept, Wrote
<1>14. CASE ReturnToHost(c)
  <2>1. /\ slot'[c].returned = "none" /\ slot'[c].result = slot[c].result
        /\ pc'[c] = "none" /\ slot[c].result = "none"
    BY <1>14, <1>a, <1>p DEF ReturnToHost, At, Wrote, IInv, TypeOK, Slots, Pcs
  <2> QED
    BY <2>1 DEF Kept
<1> QED
  BY <1>1, <1>2, <1>3, <1>4, <1>5, <1>6, <1>7, <1>8, <1>9, <1>10, <1>11, <1>12, <1>13,
     <1>14 DEF Step, Export, Callback

(* A step of call c goes on referring to what it does not free.            *)
LEMMA KeepsHeld ==
  ASSUME IInv, NEW c \in Calls, Kept(c), Step(c),
         NEW b \in Buffers, InUse(b)'
  PROVE  \/ heap'[b].of = c /\ \E s \in Slots : slot'[c][s] = b
         \/ /\ heap'[b] = heap[b]
            /\ \/ \A s \in Slots : slot[c][s] = b => \E r \in Slots : slot'[c][r] = b
               \/ IsAnswer(b)
<1>a. /\ Wrote(c) /\ slot[c] \in [Slots -> Buffers \cup {"none"}]
      /\ heap \in [Buffers -> [what : {"unused", "blank", "params", "context", "result",
                                       "lost"},
                               of : Calls \cup {NoCall}]]
      /\ b # "none"
  BY AbiCallAssumption DEF IInv, CallInv, TypeOK
<1> DEFINE Goal == \/ heap'[b].of = c /\ \E s \in Slots : slot'[c][s] = b
                   \/ /\ heap'[b] = heap[b]
                      /\ \/ \A s \in Slots :
                              slot[c][s] = b => \E r \in Slots : slot'[c][r] = b
                         \/ IsAnswer(b)
<1>s. slot' = slot /\ heap' = heap => Goal
  OBVIOUS
<1>y. ASSUME NEW s \in Slots, slot[c][s] = "none", NEW w, NEW l, Allocate(c, s, w, l)
      PROVE  Goal
  <2>1. ASSUME NEW a \in Buffers, heap' = [heap EXCEPT ![a] = Holding(w, c)],
               slot' = [slot EXCEPT ![c][s] = a]
        PROVE  Goal
    <3>1. slot'[c][s] = a /\ \A r \in Slots \ {s} : slot'[c][r] = slot[c][r]
      BY <1>a, <2>1 DEF IInv, TypeOK
    <3>2. CASE a = b
      BY <1>a, <2>1, <3>1, <3>2 DEF Holding
    <3>3. CASE a # b
      BY <1>a, <1>y, <2>1, <3>1, <3>3
    <3> QED
      BY <3>2, <3>3
  <2> QED
    BY <1>y, <1>s, <2>1 DEF Allocate
<1>z. ASSUME NEW s \in Slots, slot[c][s] # "none", NEW w, NEW l, CopyOut(c, s, w, l)
      PROVE  Goal
  <2>1. CASE heap' = [heap EXCEPT ![slot[c][s]] = Holding(w, c)] /\ slot' = slot
    BY <1>a, <1>z, <2>1 DEF Holding
  <2> QED
    BY <1>z, <1>s, <2>1 DEF CopyOut
<1>1. CASE EnterExport(c) \/ EnterCallback(c) \/ Implementation(c) \/ CopyResult(c)
           \/ Return(c)
  BY <1>1, <1>s DEF EnterExport, EnterCallback, Implementation, CopyResult, Return, Pass
<1>2. CASE AllocateReturn(c)
  BY <1>2, <1>y DEF AllocateReturn, At, Kept, Slots
<1>3. CASE WriteReturn(c)
  BY <1>3, <1>z, <1>a DEF WriteReturn, At, Wrote, Slots
<1>4. CASE AllocateParams(c)
  BY <1>4, <1>y, <1>s DEF AllocateParams, At, Kept, Slots
<1>5. CASE WriteParams(c)
  BY <1>5, <1>z, <1>a DEF WriteParams, At, Wrote, Slots
<1>6. CASE AllocateContext(c)
  BY <1>6, <1>y DEF AllocateContext, At, Kept, Slots
<1>7. CASE WriteContext(c)
  BY <1>7, <1>z, <1>a DEF WriteContext, At, Wrote, Slots
<1>8. CASE Answer(c)
  <2>1. slot[c].returned = "none"
    BY <1>8, <1>a DEF Answer, At, Kept, Abandons, Wrote
  <2> QED
    BY <1>8, <2>1, <1>y DEF Answer, Slots
<1>9. CASE Publish(c)
  <2>1. CASE slot' = [slot EXCEPT ![c].returned = slot[c].result, ![c].result = "none"]
    <3>1. slot[c].returned = "none" /\ heap' = heap
      BY <1>9, <1>a DEF Publish, At, Kept, Abandons, Wrote
    <3>2. /\ slot'[c].returned = slot[c].result /\ slot'[c].params = slot[c].params
          /\ slot'[c].context = slot[c].context
      BY <1>a, <2>1 DEF IInv, TypeOK, Slots
    <3> QED
      BY <1>a, <3>1, <3>2 DEF Slots
  <2> QED
    BY <1>9, <1>s, <2>1 DEF Publish
<1>10. CASE CopyContext(c)
  <2>1. CASE slot' = [slot EXCEPT ![c].result = slot[c].returned, ![c].returned = "none"]
    <3>1. slot[c].result = "none" /\ heap' = heap
      BY <1>10 DEF CopyContext, At, Kept
    <3>2. /\ slot'[c].result = slot[c].returned /\ slot'[c].params = slot[c].params
          /\ slot'[c].context = slot[c].context
      BY <1>a, <2>1 DEF IInv, TypeOK, Slots
    <3> QED
      BY <1>a, <3>1, <3>2 DEF Slots
  <2> QED
    BY <1>10, <1>s, <2>1 DEF CopyContext
<1>11. CASE Destroy(c)
  <2> DEFINE q == Last(c)
  <2>1. q \in {"params", "context", "result"} /\ slot[c][q] # "none" /\ pc[c] = "unwind"
    BY <1>11, LastOwned DEF Destroy, At, Owned, Slots
  <2>2. \A r \in Slots \ {q} :
          \/ slot[c][r] # "none" => slot'[c][r] = slot[c][r]
          \/ r = "returned" /\ q = "context"
    <3>1. slot'[c] = Dropped(c, q)
      BY <1>11 DEF Destroy, IInv, TypeOK
    <3> QED
      BY <1>a, <2>1, <3>1 DEF Dropped, Slots
  <2>3. slot[c][q] # b /\ heap'[b] = heap[b]
    <3>1. PICK h \in {Nothing, Holding("lost", NoCall)} :
                 heap' = [heap EXCEPT ![slot[c][q]] = h]
      BY <1>11 DEF Destroy
    <3>2. h.what \in {"unused", "lost"}
      BY <3>1 DEF Nothing, Holding
    <3> HIDE DEF q
    <3> QED
      BY <1>a, <3>1, <3>2 DEF InUse
  <2>4. q = "context" /\ slot[c].returned = b => IsAnswer(b)
    <3>1. q = "context" => ~IsExport(c)
      BY <1>a, <2>1 DEF Wrote
    <3> QED
      BY <1>a, <2>1, <3>1 DEF Kept, Abandons, Has, Holding, IsAnswer
  <2> QED
    BY <2>2, <2>3, <2>4, <1>a
<1>12. CASE ReturnToHost(c)
  <2>1. slot[c].returned # b /\ heap'[b] = heap[b]
    <3>1. slot[c].returned = b => ok[c]
      BY <1>12, <1>a DEF ReturnToHost, At, Wrote, Kept
    <3>2. ok[c] /\ b = slot[c].returned => ~InUse(b)'
      BY <1>12 DEF ReturnToHost, InUse, Nothing, Holding
    <3> QED
      BY <1>12, <3>1, <3>2 DEF ReturnToHost
  <2>2. \A r \in Slots \ {"returned"} : slot'[c][r] = slot[c][r]
    BY <1>12, <1>a DEF ReturnToHost, IInv, TypeOK
  <2> QED
    BY <2>1, <2>2
<1> QED
  BY <1>1, <1>2, <1>3, <1>4, <1>5, <1>6, <1>7, <1>8, <1>9, <1>10, <1>11, <1>12
     DEF Step, Export, Callback

(* Every step preserves it.                                                *)
LEMMA NextLeakInv == LeakInv /\ [Next]_vars => LeakInv'
<1> SUFFICES ASSUME LeakInv, [Next]_vars PROVE LeakInv'
  OBVIOUS
<1>i. IInv /\ IInv'
  BY NextIInv DEF LeakInv
<1>1. CASE UNCHANGED vars
  BY <1>1, <1>i DEF vars, LeakInv, Kept, Abandons, Has, Held, InUse, IsAnswer
<1>2. ASSUME NEW c \in Calls, Step(c) PROVE LeakInv'
  <2>1. \A d \in Calls \ {c} : pc'[d] = pc[d] /\ ok'[d] = ok[d] /\ slot'[d] = slot[d]
    BY <1>2, <1>i, StepFrame DEF IInv
  <2>2. \A d \in Calls : Kept(d)'
    <3>1. Kept(c)'
      BY <1>2, <1>i, KeepsKept DEF LeakInv
    <3>2. ASSUME NEW d \in Calls \ {c} PROVE Kept(d)'
      <4>1. slot[d].returned # "none" => heap'[slot[d].returned] = heap[slot[d].returned]
        BY <1>2, <1>i, HeapFrame DEF Slots
      <4> QED
        BY <2>1, <4>1 DEF LeakInv, Kept, Abandons, Has
    <3> QED
      BY <3>1, <3>2
  <2>3. ASSUME NEW b \in Buffers, InUse(b)'
        PROVE  /\ heap'[b].of \in Calls
               /\ (\E s \in Slots : slot'[heap'[b].of][s] = b) \/ IsAnswer(b)'
    <3>1. Held(b) /\ Kept(c)
      BY DEF LeakInv
    <3>2. CASE heap'[b].of = c /\ \E s \in Slots : slot'[c][s] = b
      BY <3>2
    <3>3. CASE /\ heap'[b] = heap[b]
               /\ \/ \A s \in Slots : slot[c][s] = b => \E r \in Slots : slot'[c][r] = b
                  \/ IsAnswer(b)
      <4>1. /\ heap[b].of \in Calls
            /\ (\E s \in Slots : slot[heap[b].of][s] = b) \/ IsAnswer(b)
        BY <2>3, <3>1, <3>3 DEF Held, InUse
      <4>2. IsAnswer(b) => IsAnswer(b)'
        BY <3>3 DEF IsAnswer
      <4> QED
        BY <2>1, <3>3, <4>1, <4>2
    <3> QED
      BY <1>2, <1>i, <2>3, <3>1, <3>2, <3>3, KeepsHeld
  <2> QED
    BY <1>i, <2>2, <2>3 DEF LeakInv, Held
<1>3. ASSUME NEW t \in Threads, Call(t) PROVE LeakInv'
  <2>1. PICK c \in Calls : c = <<t, depth[t] + 1>>
    BY <1>3, <1>i, AbiCallAssumption DEF Call, Calls, IInv, TypeOK
  <2>2. slot[c] = Empty
    BY <1>i, <2>1 DEF IInv, TypeOK
  <2>3. /\ slot' = slot /\ heap' = heap
        /\ \A d \in Calls \ {c} : pc'[d] = pc[d] /\ ok'[d] = ok[d]
    BY <1>3, <1>i, <2>1, <2>2 DEF Call, IInv, TypeOK, Goto
  <2>4. \A s \in Slots : slot[c][s] = "none"
    BY <2>2 DEF Empty
  <2>5. \A d \in Calls : Kept(d)'
    BY <2>3, <2>4 DEF LeakInv, Kept, Abandons, Has, Slots
  <2> QED
    BY <1>i, <2>3, <2>5 DEF LeakInv, Held, InUse, IsAnswer
<1> QED
  BY <1>1, <1>2, <1>3 DEF Next, Step

(* Whatever fails, in whatever order and on however many threads, a buffer *)
(* that no call refers to any more is the answer of a callback whose       *)
(* context could not be copied in (EnclaveHelpers.h:144-158): arguments,   *)
(* contexts and the results of exports are always freed.                   *)
THEOREM LeaksOnlyAnswers == Safety => []OnlyAnswersLeak
<1>1. LeakInv => OnlyAnswersLeak
  BY DEF LeakInv, Held, InUse, OnlyAnswersLeak
<1> QED
  BY <1>1, InitLeakInv, NextLeakInv, PTL DEF Safety

(* If such a context can always be copied in, nothing leaks                *)
(* (EnclaveHelpers.h:152-158).                                             *)
THEOREM LeaksNothing == "context" \notin Faults => (Safety => []NothingLeaks)
<1> SUFFICES ASSUME "context" \notin Faults PROVE Safety => []NothingLeaks
  OBVIOUS
<1>1. OnlyAnswersLeak => NothingLeaks
  BY DEF OnlyAnswersLeak, IsAnswer, InUse, NothingLeaks
<1> QED
  BY <1>1, LeaksOnlyAnswers, PTL
==============================================================================
