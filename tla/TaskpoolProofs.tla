--------------------------- MODULE TaskpoolProofs ---------------------------
(***************************************************************************)
(* The task pool, for any number of workers, users, tasks and enclave      *)
(* threads: its threads and lifetime, lost wake-ups, where a task can be,  *)
(* the refinement of TaskpoolAbs, and who waits is served.                 *)
(***************************************************************************)
EXTENDS TaskpoolInv, FiniteSetTheorems, TLAPS

(* Init is well typed.                                                     *)
LEMMA InitTypeOK == Init => TypeOK
<1> SUFFICES ASSUME Init PROVE TypeOK
  OBVIOUS
<1> USE TaskpoolAssumption DEF Init, Threads
<1>1. pc \in [Threads -> UserPc \cup WorkerPc]
  BY DEF UserPc, WorkerPc
<1>2. /\ \A u \in Users : pc[u] \in UserPc
      /\ \A w \in Workers : pc[w] \in WorkerPc
  BY DEF UserPc, WorkerPc
<1>3. arg \in [Threads -> Nat] /\ handle \in [Workers -> Nat]
  BY SMT
<1>4. stop \in BOOLEAN /\ entry \in BOOLEAN /\ hold \in BOOLEAN
  BY Zenon
<1>5. queue \in Seq(Nat) /\ nextId \in Nat \ {0} /\ cancelledId \in Nat
  BY SMT
<1>6. /\ tasks \subseteq Nat /\ ready \subseteq Nat
      /\ held \in [Users -> SUBSET Nat]
  BY SMT
<1>7. /\ pool \in {"constructing", "open", "closing", "closed"}
      /\ crashed \in {"no", "resource_not_online", "invalid_index"}
  BY SMT
<1> QED
  BY <1>1, <1>2, <1>3, <1>4, <1>5, <1>6, <1>7, Zenon DEF TypeOK

(* Every step keeps the state well typed.                                  *)
LEMMA NextTypeOK == TypeOK /\ [Next]_vars => TypeOK'
<1> SUFFICES ASSUME TypeOK, [Next]_vars PROVE TypeOK'
  OBVIOUS
<1> USE TaskpoolAssumption
    DEF TypeOK, UserPc, WorkerPc, InEnclaveAt, StrongAt, StrongHolders,
        Threads, At, Goto, host, table, life, rest
<1>1. CASE StoreEntry
  BY <1>1 DEF StoreEntry
<1>2. ASSUME NEW w \in Workers, StartThread(w) PROVE TypeOK'
  BY <1>2 DEF StartThread
<1>3. CASE PoolMade
  BY <1>3 DEF PoolMade
<1>4. ASSUME NEW c \in Threads, StoreTask(c) PROVE TypeOK'
  BY <1>4 DEF StoreTask
<1>5. ASSUME NEW c \in Threads, ScheduleTask(c) PROVE TypeOK'
  <2>1. queue' \in Seq(Nat)
    BY <1>5 DEF ScheduleTask
  <2>2. pc[c] = "schedule" /\ UNCHANGED <<arg, handle, stop, table, cancelledId, life, rest>>
    BY <1>5 DEF ScheduleTask
  <2>3. pc' = [pc EXCEPT ![c] = "orphaned"] \/ pc' = [pc EXCEPT ![c] = "notify"]
    BY <1>5 DEF ScheduleTask
  <2> QED
    BY <2>1, <2>2, <2>3
<1>6. ASSUME NEW c \in Threads, NotifyOne(c) PROVE TypeOK'
  <2>1. held' \in [Users -> SUBSET Nat]
    BY <1>6 DEF NotifyOne
  <2>2. CASE Blocked = {}
    BY <1>6, <2>1, <2>2, ZenonT(60) DEF NotifyOne, Returned
  <2>3. ASSUME NEW w \in Blocked,
               pc' = [pc EXCEPT ![c] = Returned(c), ![w] = "wait"]
        PROVE  TypeOK'
    <3>1. w \in Workers /\ w \in Threads /\ c # w /\ pc[c] = "notify"
      BY <1>6 DEF NotifyOne, Blocked
    <3>2. pc' \in [Threads -> UserPc \cup WorkerPc]
      BY <2>3, <3>1 DEF Returned
    <3>3. \A u \in Users : pc'[u] \in UserPc
      BY <2>3, <3>1, SMTT(60) DEF Returned
    <3>4. \A v \in Workers : pc'[v] \in WorkerPc
      BY <2>3, <3>1, ZenonT(60) DEF Returned
    <3> QED
      BY <1>6, <2>1, <3>2, <3>3, <3>4 DEF NotifyOne
  <2> QED
    BY <1>6, <2>2, <2>3 DEF NotifyOne
<1>7. ASSUME NEW u \in Users, CancelPeek(u) PROVE TypeOK'
  BY <1>7 DEF CancelPeek
<1>8. ASSUME NEW u \in Users, CancelMark(u) PROVE TypeOK'
  BY <1>8 DEF CancelMark
<1>9. ASSUME NEW u \in Users, CancelClear(u) PROVE TypeOK'
  BY <1>9 DEF CancelClear
<1>10. ASSUME NEW u \in Users, CancelSwap(u) PROVE TypeOK'
  BY <1>10 DEF CancelSwap
<1>11. ASSUME NEW u \in Users, NEW t \in held[u], GetStart(u, t) PROVE TypeOK'
  BY <1>11 DEF GetStart
<1>12. ASSUME NEW u \in Users, GetReturn(u) PROVE TypeOK'
  BY <1>12 DEF GetReturn
<1>13. ASSUME NEW u \in Users, NEW t \in held[u], Detach(u, t) PROVE TypeOK'
  BY <1>13 DEF Detach
<1>14. CASE DestroyBegin
  BY <1>14 DEF DestroyBegin
<1>15. CASE HostStop
  BY <1>15 DEF HostStop
<1>16. CASE NotifyAll
  <2>1. \A w \in Workers : pc'[w] \in WorkerPc
    BY <1>16 DEF NotifyAll, Blocked
  <2>2. \A u \in Users : pc'[u] \in UserPc
    BY <1>16 DEF NotifyAll, Blocked
  <2>3. pc' \in [Threads -> UserPc \cup WorkerPc]
    BY <1>16, <2>1, <2>2 DEF NotifyAll
  <2> QED
    BY <1>16, <2>1, <2>2, <2>3 DEF NotifyAll
<1>17. CASE JoinAll
  BY <1>17 DEF JoinAll
<1>18. CASE EraseEntry
  BY <1>18 DEF EraseEntry
<1>19. CASE ReleaseHold
  BY <1>19 DEF ReleaseHold
<1>20. CASE ProxyGone
  BY <1>20 DEF ProxyGone
<1>21. ASSUME NEW w \in Workers, CvWait(w) PROVE TypeOK'
  BY <1>21 DEF CvWait
<1>22. ASSUME NEW w \in Workers, SpuriousWake(w) PROVE TypeOK'
  BY <1>22 DEF SpuriousWake
<1>23. ASSUME NEW w \in Workers, CheckStop(w) PROVE TypeOK'
  BY <1>23 DEF CheckStop
<1>24. ASSUME NEW w \in Workers, CheckEmpty(w) PROVE TypeOK'
  BY <1>24 DEF CheckEmpty
<1>25. ASSUME NEW w \in Workers, Dequeue(w) PROVE TypeOK'
  <2>1. CASE queue = <<>>
    BY <1>25, <2>1, ZenonT(60) DEF Dequeue
  <2>2. CASE queue # <<>>
    <3>1. Head(queue) \in Nat /\ Tail(queue) \in Seq(Nat)
      BY <2>2
    <3>2. handle' \in [Workers -> Nat] /\ queue' \in Seq(Nat)
      BY <1>25, <2>2, <3>1, ZenonT(60) DEF Dequeue
    <3> QED
      BY <1>25, <2>2, <3>2, ZenonT(60) DEF Dequeue
  <2> QED
    BY <2>1, <2>2
<1>26. ASSUME NEW w \in Workers, Register(w) \/ EnterEnclave(w) PROVE TypeOK'
  BY <1>26 DEF Register, EnterEnclave
<1>27. ASSUME NEW w \in Workers, ResolvePool(w) PROVE TypeOK'
  BY <1>27, ZenonT(60) DEF ResolvePool
<1>28. ASSUME NEW w \in Workers, TryTake(w) PROVE TypeOK'
  BY <1>28 DEF TryTake
<1>29. ASSUME NEW w \in Workers, CheckCancelled(w) PROVE TypeOK'
  BY <1>29, ZenonT(60) DEF CheckCancelled
<1>30. ASSUME NEW w \in Workers, FinishTask(w) PROVE TypeOK'
  BY <1>30 DEF FinishTask
<1>31. ASSUME NEW w \in Workers, ReleaseRef(w) PROVE TypeOK'
  BY <1>31 DEF ReleaseRef
<1>32. ASSUME NEW w \in Workers, LeaveEnclave(w) PROVE TypeOK'
  BY <1>32 DEF LeaveEnclave
<1>33. CASE UNCHANGED vars
  BY <1>33 DEF vars, host, table, life, rest
<1> QED
  BY <1>1, <1>2, <1>3, <1>4, <1>5, <1>6, <1>7, <1>8, <1>9, <1>10, <1>11, <1>12,
     <1>13, <1>14, <1>15, <1>16, <1>17, <1>18, <1>19, <1>20, <1>21, <1>22, <1>23, <1>24,
     <1>25, <1>26, <1>27, <1>28, <1>29, <1>30, <1>31, <1>32, <1>33
     DEF Next, Running, OwnerStep, QueueStep, CancelStep, WorkerStep, Choice,
         Finished, Halted

(* The pool starts under construction, its id not yet in the table.        *)
LEMMA InitPhase == Init => Phase /\ PoolResolves
<1> SUFFICES ASSUME Init PROVE Phase /\ PoolResolves
  OBVIOUS
<1> USE TaskpoolAssumption DEF Init, Threads
<1>1. pc[Owner] = "ctor" /\ \A u \in Users \ {Owner} : pc[u] = "idle"
  OBVIOUS
<1>2. \A w \in Workers : pc[w] = "unborn"
  OBVIOUS
<1>3. pool = "constructing" /\ ~stop /\ ~entry /\ hold /\ queue = <<>> /\ crashed = "no"
  BY Zenon
<1> HIDE DEF Init
<1> QED
  BY <1>1, <1>2, <1>3 DEF Phase, PoolResolves, Lifetime, PastJoin, Stopping, OwnerOnlyPc

(* Every step keeps the phase of the pool in step with its threads.        *)
LEMMA NextPhase ==
  TypeOK /\ TypeOK' /\ Phase /\ PoolResolves /\ [Next]_vars => Phase' /\ PoolResolves'
<1> SUFFICES ASSUME TypeOK, TypeOK', Phase, PoolResolves, [Next]_vars
             PROVE  Phase' /\ PoolResolves'
  OBVIOUS
<1> USE TaskpoolAssumption
    DEF TypeOK, Phase, PoolResolves, Lifetime, PastJoin, Stopping,
        OwnerOnlyPc, UserPc, WorkerPc, InEnclaveAt, StrongAt, StrongHolders,
        Threads, At, Goto, host, table, life, rest
<1>1. CASE StoreEntry
  BY <1>1 DEF StoreEntry
<1>2. ASSUME NEW w \in Workers, StartThread(w) PROVE Phase' /\ PoolResolves'
  BY <1>2 DEF StartThread
<1>3. CASE PoolMade
  BY <1>3 DEF PoolMade
<1>4. ASSUME NEW c \in Threads, StoreTask(c) PROVE Phase' /\ PoolResolves'
  <2>1. CASE c \in Users
    BY <1>4, <2>1 DEF StoreTask, MayQueue
  <2>2. CASE c \in Workers
    BY <1>4, <2>2 DEF StoreTask, MayQueue
  <2> QED
    BY <2>1, <2>2
<1>5. ASSUME NEW c \in Threads, ScheduleTask(c) PROVE Phase' /\ PoolResolves'
  BY <1>5 DEF ScheduleTask
<1>6. ASSUME NEW c \in Threads, NotifyOne(c) PROVE Phase' /\ PoolResolves'
  <2>1. CASE Blocked = {}
    <3>1. pc' = [pc EXCEPT ![c] = Returned(c)] /\ pc[c] = "notify"
      BY <1>6, <2>1 DEF NotifyOne
    <3>2. UNCHANGED <<stop, queue, entry, hold, pool, crashed>>
      BY <1>6 DEF NotifyOne
    <3> QED
      BY <3>1, <3>2 DEF Returned
  <2>2. ASSUME NEW w \in Blocked,
               pc' = [pc EXCEPT ![c] = Returned(c), ![w] = "wait"]
        PROVE  Phase' /\ PoolResolves'
    <3>1. w \in Workers /\ pc[w] = "blocked" /\ pc[c] = "notify"
      BY <1>6 DEF NotifyOne, Blocked
    <3>2. UNCHANGED <<stop, queue, entry, hold, pool, crashed>>
      BY <1>6 DEF NotifyOne
    <3>3. \A d \in Threads \ {c, w} : pc'[d] = pc[d]
      BY <2>2
    <3>4. pc'[w] = "wait" /\ pc'[c] = Returned(c)
      BY <2>2, <3>1
    <3> QED
      BY <3>1, <3>2, <3>3, <3>4, ZenonT(60) DEF Returned
  <2> QED
    BY <1>6, <2>1, <2>2 DEF NotifyOne
<1>7. ASSUME NEW u \in Users, CancelPeek(u) PROVE Phase' /\ PoolResolves'
  BY <1>7 DEF CancelPeek
<1>8. ASSUME NEW u \in Users, CancelMark(u) PROVE Phase' /\ PoolResolves'
  BY <1>8 DEF CancelMark
<1>9. ASSUME NEW u \in Users, CancelClear(u) PROVE Phase' /\ PoolResolves'
  BY <1>9 DEF CancelClear
<1>10. ASSUME NEW u \in Users, CancelSwap(u) PROVE Phase' /\ PoolResolves'
  BY <1>10 DEF CancelSwap
<1>11. ASSUME NEW u \in Users, NEW t \in held[u], GetStart(u, t) PROVE Phase' /\ PoolResolves'
  BY <1>11 DEF GetStart
<1>12. ASSUME NEW u \in Users, GetReturn(u) PROVE Phase' /\ PoolResolves'
  BY <1>12 DEF GetReturn
<1>13. ASSUME NEW u \in Users, NEW t \in held[u], Detach(u, t) PROVE Phase' /\ PoolResolves'
  BY <1>13 DEF Detach
<1>14. CASE DestroyBegin
  BY <1>14 DEF DestroyBegin
<1>15. CASE HostStop
  BY <1>15 DEF HostStop
<1>16. CASE NotifyAll
  BY <1>16 DEF NotifyAll
<1>17. CASE JoinAll
  BY <1>17 DEF JoinAll
<1>18. CASE EraseEntry
  BY <1>18 DEF EraseEntry
<1>19. CASE ReleaseHold
  BY <1>19 DEF ReleaseHold
<1>20. CASE ProxyGone
  BY <1>20 DEF ProxyGone
<1>21. ASSUME NEW w \in Workers, CvWait(w) PROVE Phase' /\ PoolResolves'
  BY <1>21 DEF CvWait
<1>22. ASSUME NEW w \in Workers, SpuriousWake(w) PROVE Phase' /\ PoolResolves'
  BY <1>22 DEF SpuriousWake
<1>23. ASSUME NEW w \in Workers, CheckStop(w) PROVE Phase' /\ PoolResolves'
  BY <1>23 DEF CheckStop
<1>24. ASSUME NEW w \in Workers, CheckEmpty(w) PROVE Phase' /\ PoolResolves'
  BY <1>24 DEF CheckEmpty
<1>25. ASSUME NEW w \in Workers, Dequeue(w) PROVE Phase' /\ PoolResolves'
  <2>1. UNCHANGED <<stop, entry, hold, pool, crashed>> /\ pc[w] = "dequeue"
    BY <1>25 DEF Dequeue
  <2>2. pc' = [pc EXCEPT ![w] = "wait"] \/ pc' = [pc EXCEPT ![w] = "register"]
    BY <1>25 DEF Dequeue
  <2> QED
    BY <2>1, <2>2, ZenonT(60)
<1>26. ASSUME NEW w \in Workers, Register(w) \/ EnterEnclave(w) PROVE Phase' /\ PoolResolves'
  BY <1>26 DEF Register, EnterEnclave
<1>27. ASSUME NEW w \in Workers, ResolvePool(w) PROVE Phase' /\ PoolResolves'
  <2>1. CASE entry /\ (hold \/ StrongHolders # {})
    <3>1. pc[w] = "resolve" /\ pc' = [pc EXCEPT ![w] = "take"]
      BY <1>27, <2>1 DEF ResolvePool
    <3>2. UNCHANGED <<stop, queue, entry, hold, pool, crashed>>
      BY <1>27, <2>1 DEF ResolvePool
    <3> QED
      BY <3>1, <3>2
  <2>2. CASE ~(entry /\ (hold \/ StrongHolders # {}))
    BY <1>27, <2>2 DEF ResolvePool
  <2> QED
    BY <2>1, <2>2
<1>28. ASSUME NEW w \in Workers, TryTake(w) PROVE Phase' /\ PoolResolves'
  BY <1>28 DEF TryTake
<1>29. ASSUME NEW w \in Workers, CheckCancelled(w) PROVE Phase' /\ PoolResolves'
  <2>1. CASE handle[w] < cancelledId
    <3>1. pc[w] = "check_cancelled" /\ pc' = [pc EXCEPT ![w] = "release_ref"]
      BY <1>29, <2>1 DEF CheckCancelled
    <3>2. UNCHANGED <<stop, queue, entry, hold, pool, crashed>>
      BY <1>29, <2>1 DEF CheckCancelled
    <3> QED
      BY <3>1, <3>2
  <2>2. CASE ~(handle[w] < cancelledId)
    BY <1>29, <2>2 DEF CheckCancelled
  <2> QED
    BY <2>1, <2>2
<1>30. ASSUME NEW w \in Workers, FinishTask(w) PROVE Phase' /\ PoolResolves'
  BY <1>30 DEF FinishTask
<1>31. ASSUME NEW w \in Workers, ReleaseRef(w) PROVE Phase' /\ PoolResolves'
  BY <1>31 DEF ReleaseRef
<1>32. ASSUME NEW w \in Workers, LeaveEnclave(w) PROVE Phase' /\ PoolResolves'
  BY <1>32 DEF LeaveEnclave
<1>33. CASE UNCHANGED vars
  BY <1>33 DEF vars, host, table, life, rest
<1> QED
  BY <1>1, <1>2, <1>3, <1>4, <1>5, <1>6, <1>7, <1>8, <1>9, <1>10, <1>11, <1>12,
     <1>13, <1>14, <1>15, <1>16, <1>17, <1>18, <1>19, <1>20, <1>21, <1>22, <1>23, <1>24,
     <1>25, <1>26, <1>27, <1>28, <1>29, <1>30, <1>31, <1>32, <1>33
     DEF Next, Running, OwnerStep, QueueStep, CancelStep, WorkerStep, Choice,
         Finished, Halted

(* The three facts together.                                               *)
LEMMA InitPhaseInv == Init => PhaseInv
BY InitTypeOK, InitPhase DEF PhaseInv

(* Their preservation.                                                     *)
LEMMA NextPhaseInv == PhaseInv /\ [Next]_vars => PhaseInv'
BY NextTypeOK, NextPhase DEF PhaseInv

(* The state is always well typed (taskpool.vtl1.h, taskpool.vtl0.h).      *)
THEOREM Typing == Safety => []TypeOK
<1>1. PhaseInv => TypeOK
  BY DEF PhaseInv
<1> QED
  BY <1>1, InitPhaseInv, NextPhaseInv, PTL DEF Safety

(* Past the join no backing thread touches the pool, for every number of   *)
(* threads and every interleaving of calls with the destructor             *)
(* (taskpool.vtl1.h:134-147, taskpool.vtl0.h:44-55).                       *)
THEOREM LifetimeHolds == Safety => []Lifetime
<1>1. PhaseInv => Lifetime
  BY DEF PhaseInv, Phase
<1> QED
  BY <1>1, InitPhaseInv, NextPhaseInv, PTL DEF Safety

(* A backing thread's call never finds the pool offline, so the throw at   *)
(* taskpool.vtl1.cpp:54 does not terminate the host.                       *)
THEOREM PoolAlwaysResolves == Safety => []PoolResolves
<1>1. PhaseInv => PoolResolves
  BY DEF PhaseInv
<1> QED
  BY <1>1, InitPhaseInv, NextPhaseInv, PTL DEF Safety

-----------------------------------------------------------------------------
(***************************************************************************)
(* No lost wake-up.  A set of threads has a number of elements that grows  *)
(* and shrinks with it.                                                    *)
(***************************************************************************)
LEMMA Counted ==
  ASSUME NEW S \in SUBSET Threads
  PROVE  IsFiniteSet(S) /\ Cardinality(S) \in Nat
<1>1. IsFiniteSet(Threads)
  BY FiniteThreads, FS_Union DEF Threads
<1> QED
  BY <1>1, FS_Subset, FS_CardinalityType

LEMMA Grows ==
  ASSUME NEW T \in SUBSET Threads, NEW S \in SUBSET T
  PROVE  Cardinality(S) <= Cardinality(T)
BY Counted, FS_Subset

LEMMA GrowsByOne ==
  ASSUME NEW T \in SUBSET Threads, NEW S \in SUBSET T, NEW c \in T \ S
  PROVE  Cardinality(S) + 1 <= Cardinality(T)
<1>1. Cardinality(S \cup {c}) = Cardinality(S) + 1
  BY Counted, FS_AddElement
<1>2. S \cup {c} \in SUBSET T
  OBVIOUS
<1> QED
  BY <1>1, <1>2, Grows

Sized == /\ Searching \in SUBSET Threads /\ Notifying \in SUBSET Threads
         /\ Cardinality(Searching) \in Nat /\ Cardinality(Notifying) \in Nat
         /\ Len(queue) \in Nat

LEMMA IsSized == TypeOK => Sized
<1>1. Searching \in SUBSET Threads /\ Notifying \in SUBSET Threads
  BY DEF Searching, Notifying, Threads
<1> QED
  BY <1>1, Counted DEF TypeOK, Sized

(* A step that takes nobody off the way and puts nothing into the queue,   *)
(* and blocks nobody beside an entry of the queue.                         *)
LEMMA KeepsConserving ==
  ASSUME TypeOK, TypeOK', WorkConserving, ~stop' => ~stop,
         \/ queue' = <<>>
         \/ /\ Blocked' \subseteq Blocked /\ Len(queue') <= Len(queue)
            /\ Searching \subseteq Searching' /\ Notifying \subseteq Notifying'
  PROVE  WorkConserving'
<1> DEFINE S == Searching
           N == Notifying
<1>0. Sized'
  BY IsSized, PTL
<1>1. /\ S \in SUBSET Threads /\ N \in SUBSET Threads
      /\ Cardinality(S) \in Nat /\ Cardinality(N) \in Nat /\ Len(queue) \in Nat
  BY IsSized DEF Sized
<1>2. /\ S' \in SUBSET Threads /\ N' \in SUBSET Threads
      /\ Cardinality(S') \in Nat /\ Cardinality(N') \in Nat /\ Len(queue') \in Nat
  BY <1>0 DEF Sized
<1>3. CASE queue' = <<>>
  <2>1. Len(queue') = 0
    BY <1>3
  <2> QED
    BY <1>2, <2>1 DEF WorkConserving
<1>4. CASE /\ Blocked' \subseteq Blocked /\ Len(queue') <= Len(queue)
           /\ Searching \subseteq Searching' /\ Notifying \subseteq Notifying'
  <2>1. Cardinality(S) <= Cardinality(S') /\ Cardinality(N) <= Cardinality(N')
    BY <1>1, <1>2, <1>4, Grows
  <2>2. ~stop' /\ Blocked' # {} => Len(queue) <= Cardinality(S) + Cardinality(N)
    BY <1>4 DEF WorkConserving
  <2>3. ~stop' /\ Blocked' # {} => Len(queue') <= Cardinality(S') + Cardinality(N')
    <3> HIDE DEF S, N
    <3> QED
      BY <1>1, <1>2, <1>4, <2>1, <2>2
  <2> QED
    BY <2>3 DEF WorkConserving
<1> QED
  BY <1>3, <1>4

(* The queue may grow by what somebody is about to be notified of.         *)
LEMMA ScheduleConserves ==
  ASSUME TypeOK, TypeOK', WorkConserving, NEW c \in Threads, ScheduleTask(c)
  PROVE  WorkConserving'
<1> DEFINE S == Searching
           N == Notifying
<1>0. Sized'
  BY IsSized, PTL
<1>1. /\ S \in SUBSET Threads /\ N \in SUBSET Threads
      /\ Cardinality(S) \in Nat /\ Cardinality(N) \in Nat /\ Len(queue) \in Nat
  BY IsSized DEF Sized
<1>2. /\ S' \in SUBSET Threads /\ N' \in SUBSET Threads
      /\ Cardinality(S') \in Nat /\ Cardinality(N') \in Nat /\ Len(queue') \in Nat
  BY <1>0 DEF Sized
<1>3. pc[c] = "schedule" /\ stop' = stop /\ pc \in [Threads -> UserPc \cup WorkerPc]
  BY DEF ScheduleTask, At, TypeOK
<1>4. CASE stop
  BY <1>3, <1>4 DEF WorkConserving
<1>5. CASE ~stop
  <2>1. pc' = [pc EXCEPT ![c] = "notify"] /\ queue' = Append(queue, arg[c])
    BY <1>5 DEF ScheduleTask, Goto
  <2>2. Len(queue') = Len(queue) + 1
    BY <2>1 DEF TypeOK
  <2>3. S' = S /\ Blocked' = Blocked
    BY <1>3, <2>1 DEF Searching, Blocked, Threads
  <2>4. N \in SUBSET N' /\ c \in N' \ N
    BY <1>3, <2>1 DEF Notifying
  <2>5. Cardinality(N) + 1 <= Cardinality(N')
    BY <1>2, <2>4, GrowsByOne
  <2>6. Blocked' # {} => Len(queue) <= Cardinality(S) + Cardinality(N)
    BY <1>5, <2>3 DEF WorkConserving
  <2>7. Blocked' # {} => Len(queue') <= Cardinality(S') + Cardinality(N')
    <3> HIDE DEF S, N
    <3> QED
      BY <1>1, <1>2, <2>2, <2>3, <2>5, <2>6
  <2> QED
    BY <2>7 DEF WorkConserving
<1> QED
  BY <1>4, <1>5

(* A notification turns into a worker that searches, or nobody waits.      *)
LEMMA NotifyConserves ==
  ASSUME TypeOK, TypeOK', WorkConserving, NEW c \in Threads, NotifyOne(c)
  PROVE  WorkConserving'
<1> DEFINE S == Searching
           N == Notifying
<1>0. Sized'
  BY IsSized, PTL
<1>1. /\ S \in SUBSET Threads /\ N \in SUBSET Threads
      /\ Cardinality(S) \in Nat /\ Cardinality(N) \in Nat /\ Len(queue) \in Nat
  BY IsSized DEF Sized
<1>2. /\ S' \in SUBSET Threads /\ N' \in SUBSET Threads
      /\ Cardinality(S') \in Nat /\ Cardinality(N') \in Nat /\ Len(queue') \in Nat
  BY <1>0 DEF Sized
<1>3. /\ pc[c] = "notify" /\ stop' = stop /\ queue' = queue
      /\ pc \in [Threads -> UserPc \cup WorkerPc] /\ Returned(c) \in {"idle", "run"}
  BY DEF NotifyOne, At, TypeOK, host, Returned
<1>4. CASE Blocked = {}
  <2>1. pc' = [pc EXCEPT ![c] = Returned(c)]
    BY <1>4 DEF NotifyOne, Goto
  <2>2. Blocked' = {}
    BY <1>3, <1>4, <2>1 DEF Blocked, Threads
  <2> QED
    BY <2>2 DEF WorkConserving
<1>5. ASSUME NEW w \in Blocked, pc' = [pc EXCEPT ![c] = Returned(c), ![w] = "wait"]
      PROVE  WorkConserving'
  <2>1. w \in Workers /\ w \in Threads /\ pc[w] = "blocked" /\ w # c
    BY <1>3 DEF Blocked, Threads
  <2>2. S \in SUBSET S' /\ w \in S' \ S
    BY <1>3, <1>5, <2>1 DEF Searching, Threads
  <2>3. N' = N \ {c} /\ c \in N
    BY <1>3, <1>5, <2>1 DEF Notifying
  <2>4. Cardinality(S) + 1 <= Cardinality(S')
    BY <1>2, <2>2, GrowsByOne
  <2>5. Cardinality(N') = Cardinality(N) - 1
    BY <1>1, <2>3, Counted, FS_RemoveElement
  <2>6. ~stop => Len(queue) <= Cardinality(S) + Cardinality(N)
    BY <1>5 DEF WorkConserving
  <2>7. ~stop' => Len(queue') <= Cardinality(S') + Cardinality(N')
    <3> HIDE DEF S, N
    <3> QED
      BY <1>1, <1>2, <1>3, <2>4, <2>5, <2>6
  <2> QED
    BY <2>7 DEF WorkConserving
<1> QED
  BY <1>4, <1>5 DEF NotifyOne

(* A worker that takes a handle off the queue leaves both.                 *)
LEMMA DequeueConserves ==
  ASSUME TypeOK, TypeOK', WorkConserving, NEW w \in Workers, Dequeue(w)
  PROVE  WorkConserving'
<1> DEFINE S == Searching
           N == Notifying
<1>0. Sized'
  BY IsSized, PTL
<1>1. /\ S \in SUBSET Threads /\ N \in SUBSET Threads
      /\ Cardinality(S) \in Nat /\ Cardinality(N) \in Nat /\ Len(queue) \in Nat
  BY IsSized DEF Sized
<1>2. /\ S' \in SUBSET Threads /\ N' \in SUBSET Threads
      /\ Cardinality(S') \in Nat /\ Cardinality(N') \in Nat /\ Len(queue') \in Nat
  BY <1>0 DEF Sized
<1>3. /\ pc[w] = "dequeue" /\ w \in Threads /\ stop' = stop
      /\ pc \in [Threads -> UserPc \cup WorkerPc]
  BY DEF Dequeue, At, TypeOK, Threads
<1>4. CASE queue = <<>>
  <2>1. queue' = <<>> /\ stop' = stop
    BY <1>3, <1>4 DEF Dequeue
  <2> QED
    BY <2>1, KeepsConserving
<1>5. CASE queue # <<>>
  <2>1. pc' = [pc EXCEPT ![w] = "register"] /\ queue' = Tail(queue)
    BY <1>5 DEF Dequeue, Goto
  <2>2. Len(queue') = Len(queue) - 1
    BY <1>5, <2>1 DEF TypeOK
  <2>3. S' = S \ {w} /\ w \in S
    BY <1>3, <2>1 DEF Searching, Threads
  <2>4. N' = N /\ Blocked' = Blocked
    BY <1>3, <2>1 DEF Notifying, Blocked, Threads
  <2>5. Cardinality(S') = Cardinality(S) - 1
    BY <1>1, <2>3, Counted, FS_RemoveElement
  <2>6. ~stop /\ Blocked # {} => Len(queue) <= Cardinality(S) + Cardinality(N)
    BY DEF WorkConserving
  <2>7. ~stop' /\ Blocked' # {} => Len(queue') <= Cardinality(S') + Cardinality(N')
    <3> HIDE DEF S, N
    <3> QED
      BY <1>1, <1>2, <1>3, <2>2, <2>4, <2>5, <2>6
  <2> QED
    BY <2>7 DEF WorkConserving
<1> QED
  BY <1>4, <1>5

LEMMA NextConserving ==
  TypeOK /\ TypeOK' /\ WorkConserving /\ [Next]_vars => WorkConserving'
<1> SUFFICES ASSUME TypeOK, TypeOK', WorkConserving, [Next]_vars PROVE WorkConserving'
  OBVIOUS
<1> DEFINE SearchPc == {"wait", "check_stop", "check_empty", "dequeue"}
<1>k. ASSUME ~stop' => ~stop, queue' = queue,
             \A w \in Workers : /\ pc[w] \in SearchPc => pc'[w] \in SearchPc
                                /\ pc'[w] = "blocked" => pc[w] = "blocked",
             \A c \in Threads : pc[c] = "notify" => pc'[c] = "notify"
      PROVE  WorkConserving'
  <2>1. /\ Blocked' \subseteq Blocked /\ Searching \subseteq Searching'
        /\ Notifying \subseteq Notifying'
    BY <1>k DEF Blocked, Searching, Notifying
  <2>2. Len(queue') <= Len(queue)
    BY <1>k, IsSized DEF Sized
  <2> QED
    BY <1>k, <2>1, <2>2, KeepsConserving
<1> USE TaskpoolAssumption DEF Threads, At, Goto, host, table, life, rest
<1>t. /\ pc \in [Threads -> UserPc \cup WorkerPc] /\ stop \in BOOLEAN
      /\ \A w \in Workers : w \in Threads /\ w # Owner /\ w \notin Users
  BY DEF TypeOK
<1>1. CASE StoreEntry
  BY <1>1, <1>k, <1>t DEF StoreEntry
<1>2. ASSUME NEW w \in Workers, StartThread(w) PROVE WorkConserving'
  BY <1>2, <1>k, <1>t DEF StartThread
<1>3. CASE PoolMade
  BY <1>3, <1>k, <1>t DEF PoolMade
<1>4. ASSUME NEW c \in Threads, StoreTask(c) PROVE WorkConserving'
  BY <1>4, <1>k, <1>t DEF StoreTask, MayQueue
<1>5. ASSUME NEW c \in Threads, ScheduleTask(c) PROVE WorkConserving'
  BY <1>5, ScheduleConserves
<1>6. ASSUME NEW c \in Threads, NotifyOne(c) PROVE WorkConserving'
  BY <1>6, NotifyConserves
<1>7. ASSUME NEW u \in Users, CancelPeek(u) PROVE WorkConserving'
  BY <1>7, <1>k, <1>t DEF CancelPeek
<1>8. ASSUME NEW u \in Users, CancelMark(u) PROVE WorkConserving'
  BY <1>8, <1>k, <1>t DEF CancelMark
<1>9. ASSUME NEW u \in Users, CancelClear(u) PROVE WorkConserving'
  BY <1>9, <1>k, <1>t DEF CancelClear
<1>10. ASSUME NEW u \in Users, CancelSwap(u) PROVE WorkConserving'
  BY <1>10, KeepsConserving DEF CancelSwap
<1>11. ASSUME NEW u \in Users, NEW t \in held[u], GetStart(u, t) PROVE WorkConserving'
  BY <1>11, <1>k, <1>t DEF GetStart
<1>12. ASSUME NEW u \in Users, GetReturn(u) PROVE WorkConserving'
  BY <1>12, <1>k, <1>t DEF GetReturn
<1>13. ASSUME NEW u \in Users, NEW t \in held[u], Detach(u, t) PROVE WorkConserving'
  BY <1>13, <1>k, <1>t DEF Detach
<1>14. CASE DestroyBegin
  BY <1>14, <1>k, <1>t DEF DestroyBegin
<1>15. CASE HostStop
  BY <1>15, <1>k, <1>t DEF HostStop
<1>16. CASE NotifyAll
  BY <1>16, <1>k, <1>t DEF NotifyAll, Blocked
<1>17. CASE JoinAll
  BY <1>17, KeepsConserving DEF JoinAll
<1>18. CASE EraseEntry
  BY <1>18, <1>k, <1>t DEF EraseEntry
<1>19. CASE ReleaseHold
  BY <1>19, <1>k, <1>t DEF ReleaseHold
<1>20. CASE ProxyGone
  BY <1>20, <1>k, <1>t DEF ProxyGone
<1>21. ASSUME NEW w \in Workers, CvWait(w) PROVE WorkConserving'
  <2>1. CASE stop \/ queue # <<>>
    BY <1>21, <1>k, <1>t, <2>1 DEF CvWait
  <2>2. CASE ~stop /\ queue = <<>>
    BY <1>21, <2>2, KeepsConserving DEF CvWait
  <2> QED
    BY <2>1, <2>2
<1>22. ASSUME NEW w \in Workers, SpuriousWake(w) PROVE WorkConserving'
  BY <1>22, <1>k, <1>t DEF SpuriousWake
<1>23. ASSUME NEW w \in Workers, CheckStop(w) PROVE WorkConserving'
  <2>1. CASE stop
    BY <1>23, <2>1 DEF CheckStop, WorkConserving
  <2>2. CASE ~stop
    BY <1>23, <1>k, <1>t, <2>2 DEF CheckStop
  <2> QED
    BY <2>1, <2>2
<1>24. ASSUME NEW w \in Workers, CheckEmpty(w) PROVE WorkConserving'
  <2>1. CASE queue # <<>>
    BY <1>24, <1>k, <1>t, <2>1 DEF CheckEmpty
  <2>2. CASE queue = <<>>
    BY <1>24, <2>2, KeepsConserving DEF CheckEmpty
  <2> QED
    BY <2>1, <2>2
<1>25. ASSUME NEW w \in Workers, Dequeue(w) PROVE WorkConserving'
  BY <1>25, DequeueConserves
<1>26. ASSUME NEW w \in Workers, Register(w) \/ EnterEnclave(w) PROVE WorkConserving'
  BY <1>26, <1>k, <1>t DEF Register, EnterEnclave
<1>27. ASSUME NEW w \in Workers, ResolvePool(w) PROVE WorkConserving'
  BY <1>27, <1>k, <1>t DEF ResolvePool
<1>28. ASSUME NEW w \in Workers, TryTake(w) PROVE WorkConserving'
  BY <1>28, <1>k, <1>t DEF TryTake
<1>29. ASSUME NEW w \in Workers, CheckCancelled(w) PROVE WorkConserving'
  BY <1>29, <1>k, <1>t DEF CheckCancelled
<1>30. ASSUME NEW w \in Workers, FinishTask(w) PROVE WorkConserving'
  BY <1>30, <1>k, <1>t DEF FinishTask
<1>31. ASSUME NEW w \in Workers, ReleaseRef(w) PROVE WorkConserving'
  BY <1>31, <1>k, <1>t DEF ReleaseRef
<1>32. ASSUME NEW w \in Workers, LeaveEnclave(w) PROVE WorkConserving'
  BY <1>32, <1>k, <1>t DEF LeaveEnclave
<1>33. CASE UNCHANGED vars
  BY <1>33, <1>k DEF vars
<1> QED
  BY <1>1, <1>2, <1>3, <1>4, <1>5, <1>6, <1>7, <1>8, <1>9, <1>10, <1>11, <1>12,
     <1>13, <1>14, <1>15, <1>16, <1>17, <1>18, <1>19, <1>20, <1>21, <1>22, <1>23, <1>24,
     <1>25, <1>26, <1>27, <1>28, <1>29, <1>30, <1>31, <1>32, <1>33
     DEF Next, Running, OwnerStep, QueueStep, CancelStep, WorkerStep, Choice,
         Finished, Halted

(* No wake-up is lost: beside a blocked thread every queued handle has a   *)
(* thread or a notification on its way, however many threads there are     *)
(* (taskpool.vtl0.h:57-68, 81-112).                                        *)
THEOREM ConservesWork == Safety => []WorkConserving
<1>1. Init => WorkConserving
  <2>1. Init => Blocked = {}
    BY DEF Init, Blocked, Threads
  <2> QED
    BY <2>1 DEF WorkConserving
<1>2. PhaseInv => TypeOK
  BY DEF PhaseInv
<1> QED
  BY <1>1, <1>2, InitPhaseInv, NextPhaseInv, NextConserving, PTL DEF Safety

-----------------------------------------------------------------------------
(***************************************************************************)
(* What happens to tasks: ids are run at most once, cancellation sticks,   *)
(* and in a program that does not queue while it cancels every dequeued    *)
(* handle resolves and a must-finish pool runs everything before it        *)
(* closes.                                                                 *)
(***************************************************************************)

(* Every step hands out ids once and runs what it took out of the table.   *)
LEMMA NextIdsOnce == TypeOK /\ TypeOK' /\ IdsOnce /\ [Next]_vars => IdsOnce'
<1> SUFFICES ASSUME TypeOK, TypeOK', IdsOnce, [Next]_vars PROVE IdsOnce'
  OBVIOUS
<1> USE TaskpoolAssumption
    DEF TypeOK, IdsOnce, RunsAtMostOnce, CancelledStayOut, RunningAt,
        Threads, At, Goto, host, table, life, rest
<1>1. CASE StoreEntry
  BY <1>1 DEF StoreEntry
<1>2. ASSUME NEW w \in Workers, StartThread(w) PROVE IdsOnce'
  BY <1>2 DEF StartThread
<1>3. CASE PoolMade
  BY <1>3 DEF PoolMade
<1>4. ASSUME NEW c \in Threads, StoreTask(c) PROVE IdsOnce'
  <2>1. CASE c \in Users
    BY <1>4, <2>1 DEF StoreTask, MayQueue
  <2>2. CASE c \in Workers
    BY <1>4, <2>2 DEF StoreTask, MayQueue
  <2> QED
    BY <2>1, <2>2
<1>5. ASSUME NEW c \in Threads, ScheduleTask(c) PROVE IdsOnce'
  BY <1>5 DEF ScheduleTask
<1>6. ASSUME NEW c \in Threads, NotifyOne(c) PROVE IdsOnce'
  <2>1. UNCHANGED <<arg, handle, queue, tasks, nextId, cancelledId, ready>>
    BY <1>6 DEF NotifyOne
  <2>2. \A d \in Threads : \/ pc'[d] = pc[d] \/ pc'[d] = "wait"
                           \/ d = c /\ d \in Users /\ pc'[d] = "idle"
                           \/ d = c /\ d \in Workers /\ pc'[d] = "run" /\ pc[d] = "notify"
    BY <1>6 DEF NotifyOne, Returned, Blocked
  <2>3. \A u \in Users : pc[u] = "clear" => pc'[u] = "clear"
    BY <1>6 DEF NotifyOne, Returned, Blocked
  <2> QED
    BY <2>1, <2>2, <2>3
<1>7. ASSUME NEW u \in Users, CancelPeek(u) PROVE IdsOnce'
  BY <1>7 DEF CancelPeek
<1>8. ASSUME NEW u \in Users, CancelMark(u) PROVE IdsOnce'
  BY <1>8 DEF CancelMark
<1>9. ASSUME NEW u \in Users, CancelClear(u) PROVE IdsOnce'
  BY <1>9 DEF CancelClear
<1>10. ASSUME NEW u \in Users, CancelSwap(u) PROVE IdsOnce'
  BY <1>10 DEF CancelSwap
<1>11. ASSUME NEW u \in Users, NEW t \in held[u], GetStart(u, t) PROVE IdsOnce'
  BY <1>11 DEF GetStart
<1>12. ASSUME NEW u \in Users, GetReturn(u) PROVE IdsOnce'
  BY <1>12 DEF GetReturn
<1>13. ASSUME NEW u \in Users, NEW t \in held[u], Detach(u, t) PROVE IdsOnce'
  BY <1>13 DEF Detach
<1>14. CASE DestroyBegin
  BY <1>14 DEF DestroyBegin
<1>15. CASE HostStop
  BY <1>15 DEF HostStop
<1>16. CASE NotifyAll
  <2>1. UNCHANGED <<arg, handle, queue, tasks, nextId, cancelledId, ready>>
    BY <1>16 DEF NotifyAll
  <2>2. \A d \in Threads : pc'[d] = pc[d] \/ pc'[d] \in {"wait", "join"}
    BY <1>16 DEF NotifyAll
  <2>3. \A u \in Users : pc[u] = "clear" => pc'[u] = "clear"
    BY <1>16 DEF NotifyAll, Blocked
  <2> QED
    BY <2>1, <2>2, <2>3
<1>17. CASE JoinAll
  BY <1>17 DEF JoinAll
<1>18. CASE EraseEntry
  BY <1>18 DEF EraseEntry
<1>19. CASE ReleaseHold
  BY <1>19 DEF ReleaseHold
<1>20. CASE ProxyGone
  BY <1>20 DEF ProxyGone
<1>21. ASSUME NEW w \in Workers, CvWait(w) PROVE IdsOnce'
  BY <1>21 DEF CvWait
<1>22. ASSUME NEW w \in Workers, SpuriousWake(w) PROVE IdsOnce'
  BY <1>22 DEF SpuriousWake
<1>23. ASSUME NEW w \in Workers, CheckStop(w) PROVE IdsOnce'
  BY <1>23 DEF CheckStop
<1>24. ASSUME NEW w \in Workers, CheckEmpty(w) PROVE IdsOnce'
  BY <1>24 DEF CheckEmpty
<1>25. ASSUME NEW w \in Workers, Dequeue(w) PROVE IdsOnce'
  <2>1. CASE queue = <<>>
    BY <1>25, <2>1 DEF Dequeue
  <2>2. CASE queue # <<>>
    <3>1. /\ Head(queue) = queue[1] /\ 1 \in 1..Len(queue)
          /\ \A i \in 1..Len(Tail(queue)) :
               i + 1 \in 1..Len(queue) /\ Tail(queue)[i] = queue[i + 1]
      BY <2>2
    <3>2. \A i \in 1..Len(queue') : queue'[i] < nextId'
      BY <1>25, <2>2, <3>1 DEF Dequeue
    <3>3. \A v \in Workers : handle'[v] < nextId'
      BY <1>25, <2>2, <3>1 DEF Dequeue
    <3>4. \A v \in Workers : pc'[v] \in RunningAt =>
            pc[v] = pc'[v] /\ handle[v] = handle'[v]
      BY <1>25, <2>2 DEF Dequeue
    <3>5. UNCHANGED <<arg, tasks, nextId, cancelledId, ready>>
      BY <1>25 DEF Dequeue
    <3>6. \A u \in Users : pc'[u] = pc[u]
      BY <1>25, <2>2 DEF Dequeue
    <3>7. \A d \in Threads : pc'[d] \in {"schedule", "notify", "orphaned"} => pc'[d] = pc[d]
      BY <1>25, <2>2 DEF Dequeue
    <3> QED
      BY <3>2, <3>3, <3>4, <3>5, <3>6, <3>7
  <2> QED
    BY <2>1, <2>2
<1>26. ASSUME NEW w \in Workers, Register(w) \/ EnterEnclave(w) PROVE IdsOnce'
  <2>1. CASE Register(w)
    BY <2>1 DEF Register
  <2>2. CASE EnterEnclave(w)
    BY <2>2 DEF EnterEnclave
  <2> QED
    BY <1>26, <2>1, <2>2
<1>27. ASSUME NEW w \in Workers, ResolvePool(w) PROVE IdsOnce'
  BY <1>27 DEF ResolvePool
<1>28. ASSUME NEW w \in Workers, TryTake(w) PROVE IdsOnce'
  BY <1>28 DEF TryTake
<1>29. ASSUME NEW w \in Workers, CheckCancelled(w) PROVE IdsOnce'
  BY <1>29, SMTT(60) DEF CheckCancelled
<1>30. ASSUME NEW w \in Workers, FinishTask(w) PROVE IdsOnce'
  BY <1>30 DEF FinishTask
<1>31. ASSUME NEW w \in Workers, ReleaseRef(w) PROVE IdsOnce'
  BY <1>31 DEF ReleaseRef
<1>32. ASSUME NEW w \in Workers, LeaveEnclave(w) PROVE IdsOnce'
  BY <1>32 DEF LeaveEnclave
<1>33. CASE UNCHANGED vars
  BY <1>33 DEF vars, host, table, life, rest
<1> QED
  BY <1>1, <1>2, <1>3, <1>4, <1>5, <1>6, <1>7, <1>8, <1>9, <1>10, <1>11, <1>12,
     <1>13, <1>14, <1>15, <1>16, <1>17, <1>18, <1>19, <1>20, <1>21, <1>22, <1>23, <1>24,
     <1>25, <1>26, <1>27, <1>28, <1>29, <1>30, <1>31, <1>32, <1>33
     DEF Next, Running, OwnerStep, QueueStep, CancelStep, WorkerStep, Choice,
         Finished, Halted

(* Every step keeps an id in one place on its way to try_take.             *)
LEMMA NextOnePlace ==
  TypeOK /\ TypeOK' /\ IdsOnce /\ OnePlace /\ [Next]_vars => OnePlace'
<1> SUFFICES ASSUME TypeOK, TypeOK', IdsOnce, OnePlace, [Next]_vars PROVE OnePlace'
  OBVIOUS
<1> USE TaskpoolAssumption
    DEF TypeOK, IdsOnce, OnePlace, BeforeTake, BeforePush,
        Threads, At, Goto, host, table, life, rest
<1>1. CASE StoreEntry
  BY <1>1 DEF StoreEntry
<1>2. ASSUME NEW w \in Workers, StartThread(w) PROVE OnePlace'
  BY <1>2 DEF StartThread
<1>3. CASE PoolMade
  BY <1>3 DEF PoolMade
<1>4. ASSUME NEW c \in Threads, StoreTask(c) PROVE OnePlace'
  <2>1. CASE c \in Users
    BY <1>4, <2>1 DEF StoreTask, MayQueue
  <2>2. CASE c \in Workers
    BY <1>4, <2>2 DEF StoreTask, MayQueue
  <2> QED
    BY <2>1, <2>2
<1>5. ASSUME NEW c \in Threads, ScheduleTask(c) PROVE OnePlace'
  BY <1>5 DEF ScheduleTask
<1>6. ASSUME NEW c \in Threads, NotifyOne(c) PROVE OnePlace'
  <2>1. UNCHANGED <<arg, handle, queue>>
    BY <1>6 DEF NotifyOne
  <2>2. \A d \in Threads : pc'[d] = pc[d] \/ pc'[d] \in {"wait", "idle", "run"}
    BY <1>6 DEF NotifyOne, Returned
  <2> QED
    BY <2>1, <2>2
<1>7. ASSUME NEW u \in Users, CancelPeek(u) PROVE OnePlace'
  BY <1>7 DEF CancelPeek
<1>8. ASSUME NEW u \in Users, CancelMark(u) PROVE OnePlace'
  BY <1>8 DEF CancelMark
<1>9. ASSUME NEW u \in Users, CancelClear(u) PROVE OnePlace'
  BY <1>9 DEF CancelClear
<1>10. ASSUME NEW u \in Users, CancelSwap(u) PROVE OnePlace'
  BY <1>10 DEF CancelSwap
<1>11. ASSUME NEW u \in Users, NEW t \in held[u], GetStart(u, t) PROVE OnePlace'
  BY <1>11 DEF GetStart
<1>12. ASSUME NEW u \in Users, GetReturn(u) PROVE OnePlace'
  BY <1>12 DEF GetReturn
<1>13. ASSUME NEW u \in Users, NEW t \in held[u], Detach(u, t) PROVE OnePlace'
  BY <1>13 DEF Detach
<1>14. CASE DestroyBegin
  BY <1>14 DEF DestroyBegin
<1>15. CASE HostStop
  BY <1>15 DEF HostStop
<1>16. CASE NotifyAll
  <2>1. UNCHANGED <<arg, handle, queue>>
    BY <1>16 DEF NotifyAll
  <2>2. \A d \in Threads : pc'[d] = pc[d] \/ pc'[d] \in {"wait", "join"}
    BY <1>16 DEF NotifyAll
  <2> QED
    BY <2>1, <2>2
<1>17. CASE JoinAll
  BY <1>17 DEF JoinAll
<1>18. CASE EraseEntry
  BY <1>18 DEF EraseEntry
<1>19. CASE ReleaseHold
  BY <1>19 DEF ReleaseHold
<1>20. CASE ProxyGone
  BY <1>20 DEF ProxyGone
<1>21. ASSUME NEW w \in Workers, CvWait(w) PROVE OnePlace'
  BY <1>21 DEF CvWait
<1>22. ASSUME NEW w \in Workers, SpuriousWake(w) PROVE OnePlace'
  BY <1>22 DEF SpuriousWake
<1>23. ASSUME NEW w \in Workers, CheckStop(w) PROVE OnePlace'
  BY <1>23 DEF CheckStop
<1>24. ASSUME NEW w \in Workers, CheckEmpty(w) PROVE OnePlace'
  BY <1>24 DEF CheckEmpty
<1>25. ASSUME NEW w \in Workers, Dequeue(w) PROVE OnePlace'
  <2>1. CASE queue = <<>>
    <3>1. UNCHANGED <<arg, handle, queue>>
      BY <1>25, <2>1 DEF Dequeue
    <3>2. \A d \in Threads : pc'[d] = pc[d] \/ pc'[d] = "wait"
      BY <1>25, <2>1 DEF Dequeue
    <3> QED
      BY <3>1, <3>2
  <2>2. CASE queue # <<>>
    <3> DEFINE q == Tail(queue)
    <3>1. /\ Head(queue) = queue[1] /\ 1 \in 1..Len(queue)
          /\ \A i \in 1..Len(q) : i + 1 \in 1..Len(queue) /\ q[i] = queue[i + 1]
      BY <2>2
    <3>2. /\ queue' = q /\ arg' = arg
          /\ handle' = [handle EXCEPT ![w] = queue[1]]
          /\ pc' = [pc EXCEPT ![w] = "register"]
      BY <1>25, <2>2, <3>1 DEF Dequeue
    <3>3. \A i, j \in 1..Len(q) : q[i] = q[j] => i = j
      BY <3>1
    <3>4. \A i \in 1..Len(q) : q[i] # queue[1]
      BY <3>1
    <3>5. \A v \in Workers \ {w} : pc'[v] = pc[v] /\ handle'[v] = handle[v]
      BY <3>2
    <3>6. \A v \in Workers \ {w} : pc[v] \in BeforeTake => handle[v] # queue[1]
      BY <3>1
    <3>7. \A v \in Workers \ {w}, i \in 1..Len(q) : pc[v] \in BeforeTake => q[i] # handle[v]
      BY <3>1, SMTT(60)
    <3>8. \A c \in Threads : pc'[c] \in BeforePush => pc[c] = pc'[c] /\ arg[c] # queue[1]
      BY <3>1, <3>2
    <3>9. \A c \in Threads, i \in 1..Len(q) : pc[c] \in BeforePush => q[i] # arg[c]
      BY <3>1, SMTT(60)
    <3>10. handle'[w] = queue[1]
      BY <3>2
    <3> HIDE DEF q
    <3>11. \A v \in Workers : pc'[v] \in BeforeTake =>
             /\ \A i \in 1..Len(queue') : queue'[i] # handle'[v]
             /\ \A x \in Workers \ {v} : pc'[x] \in BeforeTake => handle'[x] # handle'[v]
             /\ \A c \in Threads : pc'[c] \in BeforePush => arg'[c] # handle'[v]
      BY <3>2, <3>4, <3>5, <3>6, <3>7, <3>8, <3>10, SMTT(60)
    <3>12. \A c \in Threads : pc'[c] \in BeforePush =>
             /\ \A i \in 1..Len(queue') : queue'[i] # arg'[c]
             /\ \A d \in Threads \ {c} : pc'[d] \in BeforePush => arg'[d] # arg'[c]
      BY <3>2, <3>8, <3>9
    <3> QED
      BY <3>2, <3>3, <3>11, <3>12
  <2> QED
    BY <2>1, <2>2
<1>26. ASSUME NEW w \in Workers, Register(w) \/ EnterEnclave(w) PROVE OnePlace'
  BY <1>26 DEF Register, EnterEnclave
<1>27. ASSUME NEW w \in Workers, ResolvePool(w) PROVE OnePlace'
  BY <1>27 DEF ResolvePool
<1>28. ASSUME NEW w \in Workers, TryTake(w) PROVE OnePlace'
  BY <1>28 DEF TryTake
<1>29. ASSUME NEW w \in Workers, CheckCancelled(w) PROVE OnePlace'
  <2>1. CASE handle[w] < cancelledId
    <3>1. pc[w] = "check_cancelled" /\ pc' = [pc EXCEPT ![w] = "release_ref"]
      BY <1>29, <2>1 DEF CheckCancelled
    <3>2. UNCHANGED <<arg, handle, host, table, cancelledId, life>>
      BY <1>29, <2>1 DEF CheckCancelled
    <3> QED
      BY <3>1, <3>2
  <2>2. CASE ~(handle[w] < cancelledId)
    BY <1>29, <2>2 DEF CheckCancelled
  <2> QED
    BY <2>1, <2>2
<1>30. ASSUME NEW w \in Workers, FinishTask(w) PROVE OnePlace'
  BY <1>30 DEF FinishTask
<1>31. ASSUME NEW w \in Workers, ReleaseRef(w) PROVE OnePlace'
  BY <1>31 DEF ReleaseRef
<1>32. ASSUME NEW w \in Workers, LeaveEnclave(w) PROVE OnePlace'
  BY <1>32 DEF LeaveEnclave
<1>33. CASE UNCHANGED vars
  BY <1>33 DEF vars, host, table, life, rest
<1> QED
  BY <1>1, <1>2, <1>3, <1>4, <1>5, <1>6, <1>7, <1>8, <1>9, <1>10, <1>11, <1>12,
     <1>13, <1>14, <1>15, <1>16, <1>17, <1>18, <1>19, <1>20, <1>21, <1>22, <1>23, <1>24,
     <1>25, <1>26, <1>27, <1>28, <1>29, <1>30, <1>31, <1>32, <1>33
     DEF Next, Running, OwnerStep, QueueStep, CancelStep, WorkerStep, Choice,
         Finished, Halted

(* Every step keeps the ids on their way resolvable, if nothing queues     *)
(* while it cancels.                                                       *)
LEMMA NextResolvable ==
  ASSUME CancelSafe, TypeOK, TypeOK', Phase, IdsOnce, OnePlace, Resolvable, [Next]_vars
  PROVE  Resolvable'
<1> USE TaskpoolAssumption
    DEF TypeOK, IdsOnce, OnePlace, Resolvable, Live, CancelSafe, BeforeTake,
        BeforePush, HandleResolves, Threads, At, Goto, host, table, life, rest
<1>1. CASE StoreEntry
  BY <1>1 DEF StoreEntry
<1>2. ASSUME NEW w \in Workers, StartThread(w) PROVE Resolvable'
  BY <1>2 DEF StartThread
<1>3. CASE PoolMade
  BY <1>3 DEF PoolMade
<1>4. ASSUME NEW c \in Threads, StoreTask(c) PROVE Resolvable'
  <2>1. CASE c \in Users
    BY <1>4, <2>1 DEF StoreTask, MayQueue
  <2>2. CASE c \in Workers
    BY <1>4, <2>2 DEF StoreTask, MayQueue
  <2> QED
    BY <2>1, <2>2
<1>5. ASSUME NEW c \in Threads, ScheduleTask(c) PROVE Resolvable'
  BY <1>5 DEF ScheduleTask
<1>6. ASSUME NEW c \in Threads, NotifyOne(c) PROVE Resolvable'
  <2>1. UNCHANGED <<arg, handle, queue, tasks, nextId, cancelledId, crashed>>
    BY <1>6 DEF NotifyOne
  <2>2. \A d \in Threads : \/ pc'[d] = pc[d] \/ pc'[d] \in {"wait", "idle"}
                           \/ d = c /\ pc'[d] = "run"
    BY <1>6 DEF NotifyOne, Returned
  <2> QED
    BY <2>1, <2>2
<1>7. ASSUME NEW u \in Users, CancelPeek(u) PROVE Resolvable'
  BY <1>7 DEF CancelPeek
<1>8. ASSUME NEW u \in Users, CancelMark(u) PROVE Resolvable'
  BY <1>8 DEF CancelMark
<1>9. ASSUME NEW u \in Users, CancelClear(u) PROVE Resolvable'
  BY <1>9 DEF CancelClear
<1>10. ASSUME NEW u \in Users, CancelSwap(u) PROVE Resolvable'
  BY <1>10 DEF CancelSwap
<1>11. ASSUME NEW u \in Users, NEW t \in held[u], GetStart(u, t) PROVE Resolvable'
  BY <1>11 DEF GetStart
<1>12. ASSUME NEW u \in Users, GetReturn(u) PROVE Resolvable'
  BY <1>12 DEF GetReturn
<1>13. ASSUME NEW u \in Users, NEW t \in held[u], Detach(u, t) PROVE Resolvable'
  BY <1>13 DEF Detach
<1>14. CASE DestroyBegin
  BY <1>14 DEF DestroyBegin
<1>15. CASE HostStop
  BY <1>15 DEF HostStop
<1>16. CASE NotifyAll
  BY <1>16 DEF NotifyAll
<1>17. CASE JoinAll
  BY <1>17 DEF JoinAll
<1>18. CASE EraseEntry
  BY <1>18 DEF EraseEntry
<1>19. CASE ReleaseHold
  BY <1>19 DEF ReleaseHold
<1>20. CASE ProxyGone
  <2>1. \A w \in Workers : pc'[w] = "exited"
    BY <1>20 DEF ProxyGone, Phase, Lifetime, PastJoin
  <2>2. \A u \in Users : pc'[u] \in {"idle", "get"}
    BY <1>20 DEF ProxyGone, Phase, Stopping
  <2>3. queue' = <<>> /\ crashed' = crashed
    BY <1>20 DEF ProxyGone, Phase, PastJoin
  <2>4. \A c \in Threads : pc'[c] \in {"exited", "idle", "get"}
    BY <2>1, <2>2
  <2>5. \A i \in 1..Len(queue') : FALSE
    BY <2>3
  <2>6. crashed' # "invalid_index"
    BY <2>3
  <2> HIDE DEF TypeOK, IdsOnce, OnePlace, CancelSafe
  <2> QED
    BY <2>1, <2>2, <2>4, <2>5, <2>6
<1>21. ASSUME NEW w \in Workers, CvWait(w) PROVE Resolvable'
  BY <1>21 DEF CvWait
<1>22. ASSUME NEW w \in Workers, SpuriousWake(w) PROVE Resolvable'
  BY <1>22 DEF SpuriousWake
<1>23. ASSUME NEW w \in Workers, CheckStop(w) PROVE Resolvable'
  BY <1>23 DEF CheckStop
<1>24. ASSUME NEW w \in Workers, CheckEmpty(w) PROVE Resolvable'
  BY <1>24 DEF CheckEmpty
<1>25. ASSUME NEW w \in Workers, Dequeue(w) PROVE Resolvable'
  <2>1. CASE queue = <<>>
    BY <1>25, <2>1, SMTT(60) DEF Dequeue
  <2>2. CASE queue # <<>>
    <3>1. /\ Head(queue) = queue[1] /\ 1 \in 1..Len(queue)
          /\ \A i \in 1..Len(Tail(queue)) :
               i + 1 \in 1..Len(queue) /\ Tail(queue)[i] = queue[i + 1]
      BY <2>2
    <3>2. /\ UNCHANGED <<arg, tasks, nextId, cancelledId, crashed>>
          /\ pc' = [pc EXCEPT ![w] = "register"]
          /\ handle' = [handle EXCEPT ![w] = queue[1]]
          /\ queue' = Tail(queue)
      BY <1>25, <2>2, <3>1 DEF Dequeue
    <3>3. \A i \in 1..Len(queue') : Live(queue'[i])
      BY <3>1, <3>2
    <3> QED
      BY <3>1, <3>2, <3>3
  <2> QED
    BY <2>1, <2>2
<1>26. ASSUME NEW w \in Workers, Register(w) \/ EnterEnclave(w) PROVE Resolvable'
  <2>1. CASE Register(w)
    BY <2>1 DEF Register
  <2>2. CASE EnterEnclave(w)
    BY <2>2 DEF EnterEnclave
  <2> QED
    BY <1>26, <2>1, <2>2
<1>27. ASSUME NEW w \in Workers, ResolvePool(w) PROVE Resolvable'
  BY <1>27 DEF ResolvePool
<1>28. ASSUME NEW w \in Workers, TryTake(w) PROVE Resolvable'
  BY <1>28 DEF TryTake
<1>29. ASSUME NEW w \in Workers, CheckCancelled(w) PROVE Resolvable'
  BY <1>29 DEF CheckCancelled
<1>30. ASSUME NEW w \in Workers, FinishTask(w) PROVE Resolvable'
  BY <1>30 DEF FinishTask
<1>31. ASSUME NEW w \in Workers, ReleaseRef(w) PROVE Resolvable'
  BY <1>31 DEF ReleaseRef
<1>32. ASSUME NEW w \in Workers, LeaveEnclave(w) PROVE Resolvable'
  BY <1>32 DEF LeaveEnclave
<1>33. CASE UNCHANGED vars
  BY <1>33 DEF vars, host, table, life, rest
<1> QED
  BY <1>1, <1>2, <1>3, <1>4, <1>5, <1>6, <1>7, <1>8, <1>9, <1>10, <1>11, <1>12,
     <1>13, <1>14, <1>15, <1>16, <1>17, <1>18, <1>19, <1>20, <1>21, <1>22, <1>23, <1>24,
     <1>25, <1>26, <1>27, <1>28, <1>29, <1>30, <1>31, <1>32, <1>33
     DEF Next, Running, OwnerStep, QueueStep, CancelStep, WorkerStep, Choice,
         Finished, Halted

(* No thread is both a worker and a user.                                  *)
LEMMA WorkerNotUser ==
  /\ Owner \in Users /\ Owner \notin Workers
  /\ \A w \in Workers : w \notin Users
BY TaskpoolAssumption

(* A step that moves no id and sends no thread backwards: what most        *)
(* actions are to Drained.                                                 *)
QuietStep ==
  /\ UNCHANGED <<handle, queue, tasks, nextId, cancelledId, ready>>
  /\ stop => stop'
  /\ pool' = "closed" => pool = "closed"
  /\ \A c \in Threads : pc[c] \in BeforePush => /\ pc'[c] \in BeforePush
                                              /\ arg'[c] = arg[c]
  /\ \A w \in Workers :
       /\ pc[w] \in BeforeTake => pc'[w] \in BeforeTake
       /\ pc[w] \in RunningAt => pc'[w] \in RunningAt
       /\ pc'[w] = "exited" => pc[w] = "exited" \/ (stop /\ queue = <<>>)
       /\ pc'[w] = "check_empty" => pc[w] = "check_empty" \/ stop

(* Such a step forgets no task.                                            *)
LEMMA QuietDrained ==
  ASSUME Drained, QuietStep
  PROVE  Drained'
<1> USE DEF QuietStep
<1>1. ASSUME NEW t, InPlace(t) PROVE InPlace(t)'
  BY <1>1 DEF InPlace
<1>2. ASSUME NEW t, Runs(t) PROVE Runs(t)'
  BY <1>2 DEF Runs
<1>3. AllInPlace' /\ Accounted'
  BY <1>1, <1>2 DEF Drained, AllInPlace, Accounted
<1>4. ExitDrained'
  BY DEF Drained, ExitDrained
<1> QED
  BY <1>3, <1>4 DEF Drained

(* No step of a must-finish pool forgets a task.                           *)
LEMMA NextDrained ==
  ASSUME CancelSafe, MustFinish, Workers # {}, TypeOK, Phase, IdsOnce,
         Resolvable, Drained, [Next]_vars
  PROVE  Drained'
<1> USE TaskpoolAssumption
    DEF TypeOK, BeforeTake, BeforePush, RunningAt, Threads, At, Goto, host, table, life, rest
<1>1. CASE StoreEntry
  <2> QuietStep
    BY <1>1 DEF StoreEntry, QuietStep
  <2> QED
    BY QuietDrained
<1>2. ASSUME NEW w \in Workers, StartThread(w) PROVE Drained'
  <2> QuietStep
    BY <1>2 DEF StartThread, QuietStep
  <2> QED
    BY QuietDrained
<1>3. CASE PoolMade
  <2> QuietStep
    BY <1>3 DEF PoolMade, QuietStep
  <2> QED
    BY QuietDrained
<1>4. ASSUME NEW c \in Threads, StoreTask(c) PROVE Drained'
  <2> USE DEF Drained
  <2>1. pc[c] \in {"idle", "run"} /\ pc' = [pc EXCEPT ![c] = "schedule"]
    BY <1>4 DEF StoreTask, MayQueue
  <2>2. pool # "closed"
    BY <1>4 DEF StoreTask, MayQueue, Phase, Lifetime, PastJoin
  <2>3. /\ tasks' = tasks \cup {nextId} /\ arg' = [arg EXCEPT ![c] = nextId]
        /\ nextId' = nextId + 1
        /\ UNCHANGED <<handle, stop, queue, cancelledId, ready, pool>>
    BY <1>4 DEF StoreTask
  <2>4. ASSUME NEW t \in tasks PROVE InPlace(t)'
    BY <2>1, <2>3 DEF AllInPlace, InPlace
  <2>5. pc'[c] = "schedule" /\ arg'[c] = nextId
    BY <2>1, <2>3
  <2>6. ASSUME NEW t, t = nextId PROVE InPlace(t)'
    BY <2>5, <2>6 DEF InPlace
  <2>7. ExitDrained'
    BY <2>1, <2>3 DEF ExitDrained
  <2>8. ASSUME NEW t, Runs(t) PROVE Runs(t)'
    BY <2>1, <2>3, <2>8 DEF Runs
  <2>9. Accounted'
    BY <2>3, <2>8 DEF Accounted
  <2>10. AllInPlace'
    BY <2>3, <2>4, <2>6 DEF AllInPlace
  <2> QED
    BY <2>2, <2>3, <2>7, <2>9, <2>10
<1>5. ASSUME NEW c \in Threads, ScheduleTask(c) PROVE Drained'
  <2> USE DEF Drained
  <2>1. /\ pc[c] = "schedule"
        /\ UNCHANGED <<arg, handle, stop, tasks, nextId, cancelledId, ready, pool>>
    BY <1>5 DEF ScheduleTask
  <2>2. CASE stop
    <3>1. pc' = [pc EXCEPT ![c] = "orphaned"] /\ queue' = queue
      BY <1>5, <2>2 DEF ScheduleTask
    <3> QuietStep
      BY <2>1, <3>1 DEF QuietStep
    <3> QED
      BY QuietDrained
  <2>3. CASE ~stop
    <3>1. /\ pc' = [pc EXCEPT ![c] = "notify"]
          /\ queue' = Append(queue, arg[c])
      BY <1>5, <2>3 DEF ScheduleTask
    <3>2. /\ \A i \in 1..Len(queue) :
               i \in 1..Len(queue') /\ queue'[i] = queue[i]
          /\ Len(queue) + 1 \in 1..Len(queue')
          /\ queue'[Len(queue) + 1] = arg[c]
      BY <3>1
    <3>3. ASSUME NEW t, InPlace(t) PROVE InPlace(t)'
      <4>1. CASE \E i \in 1..Len(queue) : queue[i] = t
        BY <3>2, <4>1 DEF InPlace
      <4>2. CASE \E w \in Workers : pc[w] \in BeforeTake /\ handle[w] = t
        BY <2>1, <3>1, <4>2 DEF InPlace
      <4>3. CASE t = arg[c]
        BY <3>2, <4>3 DEF InPlace
      <4>4. CASE \E d \in Threads \ {c} : pc[d] \in BeforePush /\ arg[d] = t
        BY <2>1, <3>1, <4>4 DEF InPlace
      <4> QED
        BY <3>3, <4>1, <4>2, <4>3, <4>4 DEF InPlace
    <3>4. ASSUME NEW t, Runs(t) PROVE Runs(t)'
      BY <2>1, <3>1, <3>4 DEF Runs
    <3>5. ExitDrained'
      BY <2>1, <2>3, <3>1 DEF ExitDrained
    <3>6. AllInPlace' /\ Accounted'
      BY <2>1, <3>3, <3>4 DEF AllInPlace, Accounted
    <3> QED
      BY <2>1, <3>5, <3>6
  <2> QED
    BY <2>2, <2>3
<1>6. ASSUME NEW c \in Threads, NotifyOne(c) PROVE Drained'
  <2>1. \A d \in Threads : \/ pc'[d] = pc[d]
                           \/ pc[d] = "blocked" /\ pc'[d] = "wait"
                           \/ pc[d] = "notify" /\ d \in Users /\ pc'[d] = "idle"
                           \/ pc[d] = "notify" /\ pc'[d] = "run"
    BY <1>6 DEF NotifyOne, Returned, Blocked
  <2> QuietStep
    BY <1>6, <2>1, WorkerNotUser DEF NotifyOne, QuietStep
  <2> QED
    BY QuietDrained
<1>7. ASSUME NEW u \in Users, CancelPeek(u) PROVE Drained'
  <2> QuietStep
    BY <1>7 DEF CancelPeek, QuietStep
  <2> QED
    BY QuietDrained
<1>8. ASSUME NEW u \in Users, CancelMark(u) PROVE Drained'
  <2> USE DEF Drained
  <2>1. /\ cancelledId' = nextId /\ pc' = [pc EXCEPT ![u] = "clear"] /\ pc[u] = "mark"
        /\ UNCHANGED <<arg, handle, stop, queue, tasks, nextId, ready, pool>>
    BY <1>8 DEF CancelMark, Resolvable
  <2>2. ASSUME NEW t \in tasks PROVE InPlace(t)'
    BY <2>1 DEF AllInPlace, InPlace
  <2>3. ExitDrained'
    BY <2>1, WorkerNotUser DEF ExitDrained
  <2>4. Accounted'
    BY <2>1 DEF Accounted
  <2> QED
    BY <2>1, <2>2, <2>3, <2>4 DEF AllInPlace
<1>9. ASSUME NEW u \in Users, CancelClear(u) PROVE Drained'
  <2> USE DEF Drained
  <2>1. /\ tasks' = {} /\ pc' = [pc EXCEPT ![u] = "swap"] /\ cancelledId = nextId
        /\ UNCHANGED <<arg, handle, stop, queue, nextId, cancelledId, ready, pool>>
    BY <1>9 DEF CancelClear, Resolvable
  <2>2. ExitDrained'
    BY <2>1, WorkerNotUser DEF ExitDrained
  <2>3. Accounted'
    BY <2>1 DEF Accounted
  <2> QED
    BY <2>1, <2>2, <2>3 DEF AllInPlace
<1>10. ASSUME NEW u \in Users, CancelSwap(u) PROVE Drained'
  <2> USE DEF Drained
  <2>1. /\ tasks = {} /\ pc' = [pc EXCEPT ![u] = "idle"] /\ queue' = <<>> /\ pc[u] = "swap"
        /\ UNCHANGED <<arg, handle, stop, tasks, nextId, cancelledId, ready, pool>>
    BY <1>10 DEF CancelSwap, Resolvable
  <2>2. ExitDrained'
    BY <2>1, WorkerNotUser DEF ExitDrained
  <2>3. ASSUME NEW t, Runs(t) PROVE Runs(t)'
    BY <2>1, <2>3 DEF Runs
  <2>4. Accounted'
    BY <2>1, <2>3 DEF Accounted
  <2> QED
    BY <2>1, <2>2, <2>4 DEF AllInPlace
<1>11. ASSUME NEW u \in Users, NEW t \in held[u], GetStart(u, t) PROVE Drained'
  <2> QuietStep
    BY <1>11 DEF GetStart, QuietStep
  <2> QED
    BY QuietDrained
<1>12. ASSUME NEW u \in Users, GetReturn(u) PROVE Drained'
  <2> QuietStep
    BY <1>12 DEF GetReturn, QuietStep
  <2> QED
    BY QuietDrained
<1>13. ASSUME NEW u \in Users, NEW t \in held[u], Detach(u, t) PROVE Drained'
  <2> QuietStep
    BY <1>13 DEF Detach, QuietStep
  <2> QED
    BY QuietDrained
<1>14. CASE DestroyBegin
  <2> QuietStep
    BY <1>14 DEF DestroyBegin, QuietStep
  <2> QED
    BY QuietDrained
<1>15. CASE HostStop
  <2> QuietStep
    BY <1>15 DEF HostStop, QuietStep
  <2> QED
    BY QuietDrained
<1>16. CASE NotifyAll
  <2>1. \A d \in Threads : \/ pc'[d] = pc[d]
                           \/ pc[d] = "blocked" /\ pc'[d] = "wait"
                           \/ d = Owner /\ pc[d] = "notify_all" /\ pc'[d] = "join"
    BY <1>16 DEF NotifyAll, Blocked
  <2> QuietStep
    BY <1>16, <2>1, WorkerNotUser DEF NotifyAll, QuietStep
  <2> QED
    BY QuietDrained
<1>17. CASE JoinAll
  <2> queue = <<>>
    BY <1>17 DEF JoinAll, Drained, ExitDrained
  <2> QuietStep
    BY <1>17 DEF JoinAll, QuietStep
  <2> QED
    BY QuietDrained
<1>18. CASE EraseEntry
  <2> QuietStep
    BY <1>18 DEF EraseEntry, QuietStep
  <2> QED
    BY QuietDrained
<1>19. CASE ReleaseHold
  <2> QuietStep
    BY <1>19 DEF ReleaseHold, QuietStep
  <2> QED
    BY QuietDrained
<1>20. CASE ProxyGone
  <2> USE DEF Drained
  <2>1. \A w \in Workers : pc[w] = "exited"
    BY <1>20 DEF ProxyGone, Phase, Lifetime, PastJoin
  <2>2. \A u \in Users : pc[u] \in {"idle", "get", "await_proxy"}
    BY <1>20 DEF ProxyGone, Phase, Stopping
  <2>3. queue = <<>>
    BY <1>20 DEF ProxyGone, Phase, PastJoin
  <2>4. \A c \in Threads : pc[c] \notin BeforePush
    BY <2>1, <2>2
  <2>5. tasks = {}
    <3>1. \A t \in tasks : InPlace(t)
      BY DEF AllInPlace
    <3>2. \A t : ~InPlace(t)
      BY <2>1, <2>3, <2>4 DEF InPlace
    <3> QED
      BY <3>1, <3>2
  <2>6. /\ pc' = [pc EXCEPT ![Owner] = "idle"] /\ tasks' = {}
        /\ UNCHANGED <<arg, handle, stop, queue, nextId, cancelledId, ready>>
    BY <1>20 DEF ProxyGone
  <2>7. ExitDrained'
    BY <2>6, WorkerNotUser DEF ExitDrained
  <2>8. ~Runs(0)' /\ \A t : ~Runs(t)
    BY <2>1, <2>6, WorkerNotUser DEF Runs
  <2>9. Accounted'
    BY <2>5, <2>6, <2>8 DEF Accounted
  <2> QED
    BY <2>6, <2>7, <2>9 DEF AllInPlace
<1>21. ASSUME NEW w \in Workers, CvWait(w) PROVE Drained'
  <2> QuietStep
    BY <1>21 DEF CvWait, QuietStep
  <2> QED
    BY QuietDrained
<1>22. ASSUME NEW w \in Workers, SpuriousWake(w) PROVE Drained'
  <2> QuietStep
    BY <1>22 DEF SpuriousWake, QuietStep
  <2> QED
    BY QuietDrained
<1>23. ASSUME NEW w \in Workers, CheckStop(w) PROVE Drained'
  <2> QuietStep
    BY <1>23 DEF CheckStop, QuietStep
  <2> QED
    BY QuietDrained
<1>24. ASSUME NEW w \in Workers, CheckEmpty(w) PROVE Drained'
  <2> QuietStep
    BY <1>24 DEF CheckEmpty, QuietStep, Drained, ExitDrained
  <2> QED
    BY QuietDrained
<1>25. ASSUME NEW w \in Workers, Dequeue(w) PROVE Drained'
  <2> USE DEF Drained
  <2>1. /\ pc[w] = "dequeue"
        /\ UNCHANGED <<arg, stop, tasks, nextId, cancelledId, ready, pool>>
    BY <1>25 DEF Dequeue
  <2>2. CASE queue = <<>>
    <3>1. pc' = [pc EXCEPT ![w] = "wait"] /\ UNCHANGED <<handle, queue>>
      BY <1>25, <2>2 DEF Dequeue
    <3> QuietStep
      BY <2>1, <3>1 DEF QuietStep
    <3> QED
      BY QuietDrained
  <2>3. CASE queue # <<>>
    <3>1. /\ Head(queue) = queue[1]
          /\ \A i \in 1..Len(queue) :
               i # 1 => i - 1 \in 1..Len(Tail(queue)) /\ Tail(queue)[i - 1] = queue[i]
      BY <2>3
    <3>2. /\ queue' = Tail(queue) /\ pc' = [pc EXCEPT ![w] = "register"]
          /\ handle' = [handle EXCEPT ![w] = queue[1]]
      BY <1>25, <2>3, <3>1 DEF Dequeue
    <3>3. ASSUME NEW t, InPlace(t) PROVE InPlace(t)'
      <4>1. CASE t = queue[1]
        <5>1. pc'[w] = "register" /\ handle'[w] = t
          BY <3>2, <4>1
        <5> QED
          BY <5>1 DEF InPlace
      <4>2. CASE \E i \in 1..Len(queue) : i # 1 /\ queue[i] = t
        BY <3>1, <3>2, <4>2 DEF InPlace
      <4>3. CASE \E v \in Workers : pc[v] \in BeforeTake /\ handle[v] = t
        BY <2>1, <3>2, <4>3 DEF InPlace
      <4>4. CASE \E c \in Threads : pc[c] \in BeforePush /\ arg[c] = t
        BY <2>1, <3>2, <4>4 DEF InPlace
      <4> QED
        BY <3>3, <4>1, <4>2, <4>3, <4>4 DEF InPlace
    <3>4. ASSUME NEW t, Runs(t) PROVE Runs(t)'
      BY <2>1, <3>2, <3>4 DEF Runs
    <3>5. ExitDrained'
      BY <2>1, <2>3, <3>2 DEF ExitDrained
    <3>6. AllInPlace' /\ Accounted'
      BY <2>1, <3>3, <3>4 DEF AllInPlace, Accounted
    <3> QED
      BY <2>1, <3>5, <3>6
  <2> QED
    BY <2>2, <2>3
<1>26. ASSUME NEW w \in Workers, Register(w) \/ EnterEnclave(w) PROVE Drained'
  <2> QuietStep
    BY <1>26 DEF Register, EnterEnclave, QuietStep
  <2> QED
    BY QuietDrained
<1>27. ASSUME NEW w \in Workers, ResolvePool(w) PROVE Drained'
  <2>1. pc[w] = "resolve" /\ (pc' = pc \/ pc' = [pc EXCEPT ![w] = "take"])
    BY <1>27 DEF ResolvePool
  <2> QuietStep
    BY <1>27, <2>1 DEF ResolvePool, QuietStep
  <2> QED
    BY QuietDrained
<1>28. ASSUME NEW w \in Workers, TryTake(w) PROVE Drained'
  <2> USE DEF Drained
  <2>1. /\ pc[w] = "take" /\ tasks' = tasks \ {handle[w]}
        /\ UNCHANGED <<arg, handle, stop, queue, nextId, cancelledId, ready, pool>>
    BY <1>28 DEF TryTake
  <2>2. pc' = [pc EXCEPT ![w] = IF handle[w] \in tasks THEN "run" ELSE "check_cancelled"]
    BY <1>28 DEF TryTake
  <2>3. ASSUME NEW t \in tasks \ {handle[w]} PROVE InPlace(t)'
    BY <2>1, <2>2 DEF AllInPlace, InPlace
  <2>4. ASSUME NEW t, Runs(t) PROVE Runs(t)'
    BY <2>1, <2>2, <2>4 DEF Runs
  <2>5. handle[w] \in tasks => Runs(handle[w])'
    BY <2>1, <2>2 DEF Runs
  <2>6. ExitDrained'
    BY <2>1, <2>2 DEF ExitDrained
  <2>7. AllInPlace'
    BY <2>1, <2>3 DEF AllInPlace
  <2>8. Accounted'
    BY <2>1, <2>4, <2>5 DEF Accounted
  <2> QED
    BY <2>1, <2>6, <2>7, <2>8
<1>29. ASSUME NEW w \in Workers, CheckCancelled(w) PROVE Drained'
  <2>1. pc[w] = "check_cancelled" /\ (pc' = pc \/ pc' = [pc EXCEPT ![w] = "release_ref"])
    BY <1>29 DEF CheckCancelled
  <2> QuietStep
    BY <1>29, <2>1 DEF CheckCancelled, QuietStep
  <2> QED
    BY QuietDrained
<1>30. ASSUME NEW w \in Workers, FinishTask(w) PROVE Drained'
  <2> USE DEF Drained
  <2>1. /\ pc[w] = "run" /\ ready' = ready \cup {handle[w]}
        /\ pc' = [pc EXCEPT ![w] = "release_ref"]
        /\ UNCHANGED <<arg, handle, stop, queue, tasks, nextId, cancelledId, pool>>
    BY <1>30 DEF FinishTask
  <2>2. AllInPlace'
    BY <2>1 DEF AllInPlace, InPlace
  <2>3. ASSUME NEW t, t # handle[w], Runs(t) PROVE Runs(t)'
    BY <2>1, <2>3 DEF Runs
  <2>4. ExitDrained'
    BY <2>1 DEF ExitDrained
  <2>5. Accounted'
    BY <2>1, <2>3 DEF Accounted
  <2> QED
    BY <2>1, <2>2, <2>4, <2>5
<1>31. ASSUME NEW w \in Workers, ReleaseRef(w) PROVE Drained'
  <2> QuietStep
    BY <1>31 DEF ReleaseRef, QuietStep
  <2> QED
    BY QuietDrained
<1>32. ASSUME NEW w \in Workers, LeaveEnclave(w) PROVE Drained'
  <2> QuietStep
    BY <1>32 DEF LeaveEnclave, QuietStep
  <2> QED
    BY QuietDrained
<1>33. CASE UNCHANGED vars
  BY <1>33, QuietDrained DEF QuietStep, vars, host, table, life, rest
<1> QED
  BY <1>1, <1>2, <1>3, <1>4, <1>5, <1>6, <1>7, <1>8, <1>9, <1>10, <1>11, <1>12,
     <1>13, <1>14, <1>15, <1>16, <1>17, <1>18, <1>19, <1>20, <1>21, <1>22, <1>23, <1>24,
     <1>25, <1>26, <1>27, <1>28, <1>29, <1>30, <1>31, <1>32, <1>33
     DEF Next, Running, OwnerStep, QueueStep, CancelStep, WorkerStep, Choice,
         Finished, Halted

(* At the start there is no task.                                          *)
LEMMA InitTasks == Init => IdsOnce /\ OnePlace /\ Resolvable /\ Drained
<1> SUFFICES ASSUME Init PROVE IdsOnce /\ OnePlace /\ Resolvable /\ Drained
  OBVIOUS
<1> USE TaskpoolAssumption
<1>1. /\ \A w \in Workers : pc[w] = "unborn" /\ handle[w] = 0
      /\ \A u \in Users : pc[u] \in {"ctor", "idle"}
  BY DEF Init, Threads
<1>2. \A c \in Threads : pc[c] \in {"unborn", "ctor", "idle"}
  BY <1>1 DEF Threads
<1>3. tasks = {} /\ ready = {} /\ nextId = 1 /\ cancelledId = 0
  BY DEF Init
<1>4. queue = <<>>
  BY DEF Init
<1>5. \A i \in 1..Len(queue) : FALSE
  BY <1>4
<1>6. pool # "closed" /\ crashed = "no"
  BY DEF Init
<1>7. IdsOnce
  BY <1>1, <1>2, <1>3, <1>5 DEF IdsOnce, RunsAtMostOnce, RunningAt, CancelledStayOut
<1>8. OnePlace
  BY <1>1, <1>2, <1>5 DEF OnePlace, BeforeTake, BeforePush
<1>9. Resolvable
  BY <1>1, <1>2, <1>3, <1>5, <1>6
     DEF Resolvable, BeforeTake, BeforePush, HandleResolves
<1>10. Drained
  BY <1>1, <1>3, <1>6 DEF Drained, AllInPlace, ExitDrained, Accounted
<1> QED
  BY <1>7, <1>8, <1>9, <1>10

(* The whole invariant at the start.                                       *)
LEMMA InitInv == Init => Inv
BY InitPhaseInv, InitTasks DEF Inv, SafeInv

(* The whole invariant under a step.                                       *)
LEMMA NextInv == Inv /\ [Next]_vars => Inv'
<1> SUFFICES ASSUME Inv, [Next]_vars PROVE Inv'
  OBVIOUS
<1>1. PhaseInv /\ PhaseInv' /\ TypeOK /\ TypeOK' /\ Phase /\ IdsOnce /\ OnePlace
  BY NextPhaseInv DEF Inv, SafeInv, PhaseInv
<1>2. IdsOnce'
  BY <1>1, NextIdsOnce
<1>3. OnePlace'
  BY <1>1, NextOnePlace
<1>4. ASSUME CancelSafe PROVE Resolvable'
  BY <1>1, <1>4, NextResolvable DEF Inv, SafeInv
<1>5. ASSUME CancelSafe, MustFinish, Workers # {} PROVE Drained'
  BY <1>1, <1>5, NextDrained DEF Inv, SafeInv
<1>6. SafeInv'
  BY <1>3, <1>4, <1>5 DEF SafeInv, CancelSafe
<1> QED
  BY <1>1, <1>2, <1>6 DEF Inv

(* No task is run by two workers or run again after its promise was set,   *)
(* so set_value never throws (future.vtl1.h:131-134).                      *)
THEOREM RunOnce == Safety => []RunsAtMostOnce
<1>1. Inv => RunsAtMostOnce
  BY DEF Inv, IdsOnce
<1> QED
  BY <1>1, InitInv, NextInv, PTL DEF Safety

(* A cleared table stays clear of the tasks cancel_queued_tasks covered    *)
(* (taskpool.vtl1.h:222-228).                                              *)
THEOREM CancelledGone == Safety => []CancelledStayOut
<1>1. Inv => CancelledStayOut
  BY DEF Inv, IdsOnce
<1> QED
  BY <1>1, InitInv, NextInv, PTL DEF Safety

(* If nothing queues while it cancels, a dequeued handle names a stored    *)
(* task or a cancelled one, so the throw at taskpool.vtl1.h:209 does not   *)
(* terminate the host.  Run taskpool_cancel_race shows the hypothesis is   *)
(* needed.                                                                 *)
THEOREM HandlesResolve == Safety => [](CancelSafe => HandleResolves)
<1>1. Inv => (CancelSafe => HandleResolves)
  BY DEF Inv, SafeInv, Resolvable
<1> QED
  BY <1>1, InitInv, NextInv, PTL DEF Safety

(* If nothing queues while it cancels and there is a backing thread, a     *)
(* closed must-finish pool has run every task that was not cancelled       *)
(* (taskpool.vtl1.h:66-69).  Without a backing thread nobody runs them.    *)
THEOREM FinishesAll == Safety => [](CancelSafe /\ Workers # {} => FinishedAll)
<1>1. ASSUME Inv, CancelSafe, Workers # {}, MustFinish, pool = "closed",
             NEW t \in 1..(nextId - 1)
      PROVE  t \in ready \/ t < cancelledId
  <2>1. Drained /\ Lifetime
    BY <1>1 DEF Inv, SafeInv, PhaseInv, Phase
  <2>2. tasks = {} /\ ~Runs(t)
    BY <1>1, <2>1 DEF Drained, Lifetime, PastJoin, Runs, RunningAt
  <2> QED
    BY <2>1, <2>2 DEF Drained, Accounted
<1>2. Inv => (CancelSafe /\ Workers # {} => FinishedAll)
  BY <1>1 DEF FinishedAll
<1> QED
  BY <1>2, InitInv, NextInv, PTL DEF Safety
-----------------------------------------------------------------------------
(***************************************************************************)
(* The refinement.  A task is queued while it is in m_tasks, running while *)
(* a worker has it, done when its promise is set.                          *)
(***************************************************************************)
AbsStatus == [t \in Ids |-> StatusOf(t)]
AbsPool   == IF pool = "constructing" THEN "open" ELSE pool

(* The status of a task by where it is.                                    *)
LEMMA StatusIs ==
  ASSUME TypeOK, IdsOnce, NEW t
  PROVE  /\ t \in tasks => StatusOf(t) = "queued"
         /\ Runs(t) => StatusOf(t) = "running"
<1>1. t \in tasks => t < nextId /\ t \in Nat /\ nextId \in Nat /\ t \notin ready
  BY DEF TypeOK, IdsOnce
<1>2. Runs(t) => t < nextId /\ t \in Nat /\ nextId \in Nat /\ t \notin tasks \cup ready
  BY DEF TypeOK, IdsOnce, Runs
<1>3. t < nextId /\ t \in Nat /\ nextId \in Nat => ~(t >= nextId)
  OBVIOUS
<1> QED
  BY <1>1, <1>2, <1>3 DEF StatusOf, Runs

(* Nothing happens to the tasks while the table and the promises stay and  *)
(* the same workers run the same tasks.                                    *)
LEMMA StatusStays ==
  ASSUME UNCHANGED <<tasks, nextId, ready>>,
         \A w \in Workers : /\ pc'[w] \in RunningAt <=> pc[w] \in RunningAt
                            /\ pc[w] \in RunningAt => handle'[w] = handle[w]
  PROVE  AbsStatus' = AbsStatus
<1>1. ASSUME NEW t \in Ids PROVE StatusOf(t)' = StatusOf(t)
  BY DEF StatusOf
<1> QED
  BY <1>1 DEF AbsStatus, Ids

(* A closed must-finish pool had nothing queued when its proxy went.       *)
LEMMA NothingLeft ==
  ASSUME Inv, CancelSafe, Workers # {}, MustFinish, ProxyGone
  PROVE  tasks = {}
<1>1. pc[Owner] = "await_proxy" /\ PastJoin
  BY DEF ProxyGone, At, PastJoin
<1>2. \A w \in Workers : pc[w] = "exited"
  BY <1>1 DEF Inv, PhaseInv, Phase, Lifetime
<1>3. queue = <<>>
  BY <1>1 DEF Inv, PhaseInv, Phase
<1>4. \A u \in Users : pc[u] \in {"idle", "get", "await_proxy"}
  BY <1>1, TaskpoolAssumption DEF Inv, PhaseInv, Phase, Stopping
<1>5. \A t \in tasks : InPlace(t)
  BY DEF Inv, SafeInv, Drained, AllInPlace
<1>6. \A t \in tasks : FALSE
  BY <1>2, <1>3, <1>4, <1>5 DEF InPlace, BeforeTake, BeforePush, Threads
<1> QED
  BY <1>6

(* A step that changes the status of one task.                             *)
LEMMA OneStatus ==
  ASSUME NEW t, NEW s, StatusOf(t)' = s,
         \A i \in Ids \ {t} : StatusOf(i)' = StatusOf(i)
  PROVE  AbsStatus' = [AbsStatus EXCEPT ![t] = s]
BY DEF AbsStatus, Ids

LEMMA RefinementStep ==
  ASSUME MustFinish => CancelSafe /\ Workers # {}, Inv, Inv', [Next]_vars
  PROVE  [Abs!Next]_(Abs!vars)
<1> DEFINE Goal == [Abs!Next]_(Abs!vars)
<1> SUFFICES Goal
  OBVIOUS
<1> USE TaskpoolAssumption DEF Threads, At, Goto, host, table, life, rest
<1>a. TypeOK /\ TypeOK' /\ Phase /\ IdsOnce /\ IdsOnce'
  BY DEF Inv, PhaseInv
<1>s. ASSUME AbsStatus' = AbsStatus, AbsPool' = AbsPool PROVE Goal
  BY <1>s DEF Abs!vars, AbsStatus, AbsPool
<1>q. ASSUME UNCHANGED <<tasks, nextId, ready>>, AbsPool' = AbsPool,
             \A w \in Workers : /\ pc'[w] \in RunningAt <=> pc[w] \in RunningAt
                                /\ pc[w] \in RunningAt => handle'[w] = handle[w]
      PROVE  Goal
  BY <1>q, <1>s, StatusStays
<1>o. Owner \in Threads /\ \A w \in Workers : w # Owner
  OBVIOUS
<1>d. UNCHANGED pool => AbsPool' = AbsPool
  BY DEF AbsPool
<1> HIDE DEF Goal
<1>1. CASE StoreEntry
  BY <1>1, <1>a, <1>o, <1>q, <1>d DEF StoreEntry, TypeOK
<1>2. ASSUME NEW w \in Workers, StartThread(w) PROVE Goal
  BY <1>2, <1>a, <1>q, <1>d DEF StartThread, TypeOK, RunningAt
<1>3. CASE PoolMade
  <2>1. AbsPool' = AbsPool
    BY <1>3, <1>a DEF PoolMade, Phase, AbsPool
  <2> QED
    BY <1>3, <1>a, <1>o, <1>q, <2>1 DEF PoolMade, TypeOK
<1>4. ASSUME NEW c \in Threads, StoreTask(c) PROVE Goal
  <2>1. PICK n \in Ids : n = nextId
    BY <1>4, <1>a DEF StoreTask, Ids, TypeOK
  <2>2. /\ tasks' = tasks \cup {n} /\ nextId' = n + 1 /\ n \in Nat
        /\ UNCHANGED <<pool, ready, handle>>
    BY <1>4, <2>1 DEF StoreTask, Ids
  <2>3. \A w \in Workers : pc'[w] \in RunningAt <=> pc[w] \in RunningAt
    BY <1>4, <1>a DEF StoreTask, MayQueue, RunningAt, TypeOK
  <2>4. StatusOf(n) = "new"
    BY <2>1, <2>2 DEF StatusOf
  <2>5. StatusOf(n)' = "queued"
    BY <1>a, <2>1, <2>2 DEF StatusOf, IdsOnce
  <2>6. ASSUME NEW i \in Ids \ {n} PROVE StatusOf(i)' = StatusOf(i)
    <3>1. i >= n + 1 <=> i >= n
      BY <2>2 DEF Ids
    <3> QED
      BY <2>1, <2>2, <2>3, <3>1 DEF StatusOf
  <2>7. AbsStatus' = [AbsStatus EXCEPT ![n] = "queued"]
    BY <2>5, <2>6, OneStatus
  <2>8. pool # "closed"
    BY <1>4, <1>a DEF StoreTask, MayQueue, Phase, Lifetime, PastJoin
  <2>9. AbsPool # "closed" /\ AbsPool' = AbsPool /\ AbsStatus[n] = "new"
    BY <1>d, <2>2, <2>4, <2>8 DEF AbsPool, AbsStatus
  <2>10. Abs!Submit(n)
    BY <2>7, <2>9 DEF Abs!Submit, AbsStatus, AbsPool
  <2> QED
    BY <2>10 DEF Goal, Abs!Next
<1>5. ASSUME NEW c \in Threads, ScheduleTask(c) PROVE Goal
  BY <1>5, <1>a, <1>q, <1>d DEF ScheduleTask, TypeOK, RunningAt
<1>6. ASSUME NEW c \in Threads, NotifyOne(c) PROVE Goal
  <2>1. UNCHANGED <<tasks, nextId, ready, handle, pool>>
    BY <1>6 DEF NotifyOne
  <2>2. \A w \in Workers : pc'[w] \in RunningAt <=> pc[w] \in RunningAt
    BY <1>6, <1>a DEF NotifyOne, Blocked, Returned, RunningAt, TypeOK
  <2> QED
    BY <1>q, <1>d, <2>1, <2>2
<1>7. ASSUME NEW u \in Users, CancelPeek(u) PROVE Goal
  BY <1>7, <1>a, <1>q, <1>d DEF CancelPeek, TypeOK
<1>8. ASSUME NEW u \in Users, CancelMark(u) PROVE Goal
  BY <1>8, <1>a, <1>q, <1>d DEF CancelMark, TypeOK
<1>9. ASSUME NEW u \in Users, CancelClear(u) PROVE Goal
  <2>1. tasks' = {} /\ UNCHANGED <<nextId, ready, handle, pool>> /\ pc[u] = "clear"
    BY <1>9 DEF CancelClear
  <2>2. \A w \in Workers : pc'[w] \in RunningAt <=> pc[w] \in RunningAt
    BY <1>9, <1>a DEF CancelClear, TypeOK
  <2>3. pool = "open"
    BY <2>1, <1>a DEF Phase, TypeOK, Stopping
  <2>4. ASSUME NEW t \in Ids
        PROVE  StatusOf(t)' = IF StatusOf(t) = "queued" THEN "dropped" ELSE StatusOf(t)
    <3>1. CASE t \in tasks
      <4>1. StatusOf(t) = "queued" /\ ~Runs(t) /\ t \notin ready
        BY <1>a, <3>1, StatusIs DEF Runs, IdsOnce
      <4>2. ~(t >= nextId)
        BY <1>a, <3>1 DEF IdsOnce, TypeOK
      <4> QED
        BY <2>1, <2>2, <4>1, <4>2 DEF StatusOf, Runs
    <3>2. CASE t \notin tasks
      BY <2>1, <2>2, <3>2 DEF StatusOf
    <3> QED
      BY <3>1, <3>2
  <2>5. AbsStatus' = [t \in Ids |-> IF AbsStatus[t] = "queued" THEN "dropped"
                                                              ELSE AbsStatus[t]]
    BY <2>4 DEF AbsStatus, Ids
  <2>6. AbsPool = "open" /\ AbsPool' = AbsPool
    BY <1>d, <2>1, <2>3 DEF AbsPool
  <2>7. Abs!Cancel
    BY <2>5, <2>6 DEF Abs!Cancel, Abs!Change, AbsStatus, AbsPool
  <2> QED
    BY <2>7 DEF Goal, Abs!Next
<1>10. ASSUME NEW u \in Users, CancelSwap(u) PROVE Goal
  BY <1>10, <1>a, <1>q, <1>d DEF CancelSwap, TypeOK
<1>11. ASSUME NEW u \in Users, NEW t \in held[u], GetStart(u, t) PROVE Goal
  BY <1>11, <1>a, <1>q, <1>d DEF GetStart, TypeOK
<1>12. ASSUME NEW u \in Users, GetReturn(u) PROVE Goal
  BY <1>12, <1>a, <1>q, <1>d DEF GetReturn, TypeOK
<1>13. ASSUME NEW u \in Users, NEW t \in held[u], Detach(u, t) PROVE Goal
  BY <1>13, <1>a, <1>q, <1>d DEF Detach
<1>14. CASE DestroyBegin
  <2>1. AbsStatus' = AbsStatus
    BY <1>14, <1>a, StatusStays DEF DestroyBegin, TypeOK
  <2>2. AbsPool = "open" /\ AbsPool' = "closing"
    BY <1>14 DEF DestroyBegin, AbsPool
  <2>3. Abs!Close
    BY <2>1, <2>2 DEF Abs!Close, AbsStatus, AbsPool
  <2> QED
    BY <2>3 DEF Goal, Abs!Next
<1>15. CASE HostStop
  BY <1>15, <1>a, <1>o, <1>q, <1>d DEF HostStop, TypeOK
<1>16. CASE NotifyAll
  <2>1. UNCHANGED <<tasks, nextId, ready, handle, pool>>
    BY <1>16 DEF NotifyAll
  <2>2. \A w \in Workers : pc'[w] \in RunningAt <=> pc[w] \in RunningAt
    BY <1>16, <1>a DEF NotifyAll, Blocked, RunningAt, TypeOK
  <2> QED
    BY <1>q, <1>d, <2>1, <2>2
<1>17. CASE JoinAll
  BY <1>17, <1>a, <1>o, <1>q, <1>d DEF JoinAll, TypeOK
<1>18. CASE EraseEntry
  BY <1>18, <1>a, <1>o, <1>q, <1>d DEF EraseEntry, TypeOK
<1>19. CASE ReleaseHold
  BY <1>19, <1>a, <1>o, <1>q, <1>d DEF ReleaseHold, TypeOK
<1>20. CASE ProxyGone
  <2>1. /\ pc[Owner] = "await_proxy" /\ tasks' = {} /\ pool' = "closed"
        /\ UNCHANGED <<nextId, ready, handle>>
    BY <1>20 DEF ProxyGone
  <2>2. pool = "closing" /\ \A w \in Workers : pc[w] = "exited"
    BY <1>a, <2>1 DEF Phase, Stopping, Lifetime, PastJoin
  <2>3. \A w \in Workers : pc'[w] = "exited"
    BY <1>20, <1>a, <2>2 DEF ProxyGone, TypeOK
  <2>4. \A t \in Ids : ~Runs(t) /\ ~Runs(t)'
    BY <2>2, <2>3 DEF Runs, RunningAt
  <2>5. ASSUME NEW t \in Ids
        PROVE  /\ StatusOf(t)' = IF StatusOf(t) = "queued" THEN "dropped" ELSE StatusOf(t)
               /\ StatusOf(t) # "running"
               /\ StatusOf(t) = "queued" => t \in tasks
    BY <2>1, <2>4 DEF StatusOf, Runs
  <2>6. AbsStatus' = [t \in Ids |-> IF AbsStatus[t] = "queued" THEN "dropped"
                                                              ELSE AbsStatus[t]]
    BY <2>5 DEF AbsStatus, Ids
  <2>7. AbsPool = "closing" /\ AbsPool' = "closed"
    BY <2>1, <2>2 DEF AbsPool
  <2>8. {t \in Ids : AbsStatus[t] = "running"} = {}
    BY <2>5 DEF AbsStatus
  <2>9. MustFinish => {t \in Ids : AbsStatus[t] = "queued"} = {}
    BY <1>20, <2>5, NothingLeft DEF AbsStatus
  <2>10. Abs!Closed
    BY <2>6, <2>7, <2>8, <2>9 DEF Abs!Closed, Abs!Change, Abs!With, AbsStatus, AbsPool
  <2> QED
    BY <2>10 DEF Goal, Abs!Next
<1>21. ASSUME NEW w \in Workers, CvWait(w) PROVE Goal
  BY <1>21, <1>a, <1>q, <1>d DEF CvWait, TypeOK, RunningAt
<1>22. ASSUME NEW w \in Workers, SpuriousWake(w) PROVE Goal
  BY <1>22, <1>a, <1>q, <1>d DEF SpuriousWake, TypeOK, RunningAt
<1>23. ASSUME NEW w \in Workers, CheckStop(w) PROVE Goal
  BY <1>23, <1>a, <1>q, <1>d DEF CheckStop, TypeOK, RunningAt
<1>24. ASSUME NEW w \in Workers, CheckEmpty(w) PROVE Goal
  BY <1>24, <1>a, <1>q, <1>d DEF CheckEmpty, TypeOK, RunningAt
<1>25. ASSUME NEW w \in Workers, Dequeue(w) PROVE Goal
  <2>1. UNCHANGED <<tasks, nextId, ready, pool>>
    BY <1>25 DEF Dequeue
  <2>2. \A v \in Workers : /\ pc'[v] \in RunningAt <=> pc[v] \in RunningAt
                           /\ pc[v] \in RunningAt => handle'[v] = handle[v]
    BY <1>25, <1>a DEF Dequeue, RunningAt, TypeOK
  <2> QED
    BY <1>q, <1>d, <2>1, <2>2
<1>26. ASSUME NEW w \in Workers, Register(w) \/ EnterEnclave(w) PROVE Goal
  BY <1>26, <1>a, <1>q, <1>d DEF Register, EnterEnclave, TypeOK, RunningAt
<1>27. ASSUME NEW w \in Workers, ResolvePool(w) PROVE Goal
  BY <1>27, <1>a, <1>q, <1>d DEF ResolvePool, TypeOK, RunningAt
<1>28. ASSUME NEW w \in Workers, TryTake(w) PROVE Goal
  <2>1. /\ pc[w] = "take" /\ tasks' = tasks \ {handle[w]}
        /\ UNCHANGED <<nextId, ready, handle, pool>>
        /\ pc' = [pc EXCEPT ![w] = IF handle[w] \in tasks THEN "run"
                                                          ELSE "check_cancelled"]
    BY <1>28 DEF TryTake
  <2>2. \A v \in Workers : v # w => pc'[v] = pc[v]
    BY <2>1, <1>a DEF TypeOK
  <2>3. CASE handle[w] \notin tasks
    <3>1. tasks' = tasks /\ pc'[w] = "check_cancelled"
      BY <2>1, <2>3, <1>a DEF TypeOK
    <3> QED
      BY <1>q, <1>d, <2>1, <2>2, <3>1 DEF RunningAt
  <2>4. CASE handle[w] \in tasks
    <3>0. PICK h : h = handle[w] /\ h = handle'[w] /\ h \in tasks
      BY <2>1, <2>4
    <3>1. pc'[w] = "run" /\ tasks' = tasks \ {h}
      BY <2>1, <3>0, <1>a DEF TypeOK
    <3>2. StatusOf(h) = "queued"
      BY <1>a, <3>0, StatusIs
    <3>3. StatusOf(h)' = "running"
      <4>1. Runs(h)'
        BY <3>0, <3>1 DEF Runs, RunningAt
      <4>2. h < nextId' /\ h \in Nat /\ nextId' \in Nat /\ h \notin ready' /\ h \notin tasks'
        BY <1>a, <2>1, <3>0, <3>1 DEF IdsOnce, TypeOK
      <4>3. ~(h >= nextId')
        BY <4>2
      <4> QED
        BY <4>1, <4>2, <4>3 DEF StatusOf, Runs
    <3>4. ASSUME NEW i \in Ids \ {h} PROVE StatusOf(i)' = StatusOf(i)
      <4>1. i \in tasks' <=> i \in tasks
        BY <3>1
      <4>2. Runs(i)' <=> Runs(i)
        BY <2>1, <2>2, <3>0, <3>1 DEF Runs, RunningAt
      <4> QED
        BY <2>1, <4>1, <4>2 DEF StatusOf, Runs
    <3>5. AbsStatus' = [AbsStatus EXCEPT ![h] = "running"]
      BY <3>3, <3>4, OneStatus
    <3>6. pool # "closed"
      BY <1>a, <2>1 DEF Phase, Lifetime, PastJoin
    <3>7. AbsPool # "closed" /\ AbsPool' = AbsPool
      BY <1>d, <2>1, <3>6 DEF AbsPool
    <3>8. CASE h \in Ids
      <4>1. AbsStatus[h] = "queued"
        BY <3>2, <3>8 DEF AbsStatus
      <4>2. Abs!Start(h)
        BY <3>5, <3>7, <4>1 DEF Abs!Start, AbsStatus, AbsPool
      <4> QED
        BY <3>8, <4>2 DEF Goal, Abs!Next
    <3>9. CASE h \notin Ids
      <4>1. AbsStatus' = AbsStatus
        BY <3>5, <3>9 DEF AbsStatus
      <4> QED
        BY <1>s, <3>7, <4>1
    <3> QED
      BY <3>8, <3>9
  <2> QED
    BY <2>3, <2>4
<1>29. ASSUME NEW w \in Workers, CheckCancelled(w) PROVE Goal
  BY <1>29, <1>a, <1>q, <1>d DEF CheckCancelled, TypeOK, RunningAt
<1>30. ASSUME NEW w \in Workers, FinishTask(w) PROVE Goal
  <2>0. PICK h : h = handle[w]
    OBVIOUS
  <2>1. /\ pc[w] = "run" /\ ready' = ready \cup {h}
        /\ UNCHANGED <<tasks, nextId, handle, pool>>
        /\ pc' = [pc EXCEPT ![w] = "release_ref"]
    BY <1>30, <2>0 DEF FinishTask
  <2>2. pc'[w] = "release_ref" /\ \A v \in Workers : v # w => pc'[v] = pc[v]
    BY <2>1, <1>a DEF TypeOK
  <2>3. Runs(h)
    BY <2>0, <2>1 DEF Runs, RunningAt
  <2>4. StatusOf(h) = "running"
    BY <1>a, <2>3, StatusIs
  <2>5. StatusOf(h)' = "done"
    <3>1. h \in ready' /\ ~(h >= nextId)
      BY <2>1, <2>4 DEF StatusOf
    <3> QED
      BY <2>1, <3>1 DEF StatusOf
  <2>6. ASSUME NEW i \in Ids \ {h} PROVE StatusOf(i)' = StatusOf(i)
    <3>1. i \in ready' <=> i \in ready
      BY <2>1
    <3>2. Runs(i)' <=> Runs(i)
      BY <2>0, <2>1, <2>2 DEF Runs, RunningAt
    <3> QED
      BY <2>1, <3>1, <3>2 DEF StatusOf, Runs
  <2>7. AbsStatus' = [AbsStatus EXCEPT ![h] = "done"] /\ AbsPool' = AbsPool
    BY <1>d, <2>1, <2>5, <2>6, OneStatus
  <2>8. CASE h \in Ids
    <3>1. AbsStatus[h] = "running"
      BY <2>4, <2>8 DEF AbsStatus
    <3>2. Abs!Finish(h)
      BY <2>7, <3>1 DEF Abs!Finish, AbsStatus, AbsPool
    <3> QED
      BY <2>8, <3>2 DEF Goal, Abs!Next
  <2>9. CASE h \notin Ids
    <3>1. AbsStatus' = AbsStatus
      BY <2>7, <2>9 DEF AbsStatus
    <3> QED
      BY <1>s, <2>7, <3>1
  <2> QED
    BY <2>8, <2>9
<1>31. ASSUME NEW w \in Workers, ReleaseRef(w) PROVE Goal
  BY <1>31, <1>a, <1>q, <1>d DEF ReleaseRef, TypeOK, RunningAt
<1>32. ASSUME NEW w \in Workers, LeaveEnclave(w) PROVE Goal
  BY <1>32, <1>a, <1>q, <1>d DEF LeaveEnclave, TypeOK, RunningAt
<1>33. CASE UNCHANGED vars
  BY <1>33, <1>q, <1>d DEF vars
<1> QED
  BY <1>1, <1>2, <1>3, <1>4, <1>5, <1>6, <1>7, <1>8, <1>9, <1>10, <1>11, <1>12,
     <1>13, <1>14, <1>15, <1>16, <1>17, <1>18, <1>19, <1>20, <1>21, <1>22, <1>23, <1>24,
     <1>25, <1>26, <1>27, <1>28, <1>29, <1>30, <1>31, <1>32, <1>33
     DEF Next, Running, OwnerStep, QueueStep, CancelStep, WorkerStep, Choice,
         Finished, Halted

LEMMA RefinementInit == Init => Abs!Init
<1> SUFFICES ASSUME Init PROVE Abs!Init
  OBVIOUS
<1>1. \A t \in Ids : StatusOf(t) = "new"
  BY TaskpoolAssumption DEF Init, StatusOf, Ids
<1>2. AbsStatus = [t \in Ids |-> "new"] /\ AbsPool = "open"
  BY <1>1 DEF AbsStatus, AbsPool, Init
<1> QED
  BY <1>2 DEF Abs!Init, AbsStatus, AbsPool

(* The threads, the queue and the handles implement the pool of            *)
(* TaskpoolAbs: every step is a step of a task, of a cancellation or of    *)
(* the pool's life there, or none.  A pool that must finish its tasks      *)
(* needs a backing thread and a program that does not queue while it       *)
(* cancels (taskpool.vtl1.h:66-69, 120-147, 186-231).                      *)
THEOREM Implements ==
  (MustFinish => CancelSafe /\ Workers # {}) => (Safety => Abs!Safety)
<1> SUFFICES ASSUME MustFinish => CancelSafe /\ Workers # {}
             PROVE  Safety => Abs!Safety
  OBVIOUS
<1>1. Inv /\ Inv' /\ [Next]_vars => [Abs!Next]_(Abs!vars)
  BY RefinementStep
<1> QED
  BY <1>1, RefinementInit, InitInv, NextInv, PTL DEF Safety, Abs!Safety

-----------------------------------------------------------------------------
(***************************************************************************)
(* The pool as an object that the keepalive mechanism keeps.               *)
(***************************************************************************)
ObjectPhase == IF pool = "closed" THEN "gone" ELSE IF entry THEN "known"
               ELSE IF pc[Owner] = "ctor" THEN "made" ELSE "erased"

LEMMA NextEntryMatch == PhaseInv /\ EntryMatch /\ [Next]_vars => EntryMatch'
<1> SUFFICES ASSUME PhaseInv, EntryMatch, [Next]_vars PROVE EntryMatch'
  OBVIOUS
<1> USE TaskpoolAssumption DEF EntryMatch, Threads, At, Goto, host, table, life, rest
<1>a. TypeOK /\ Phase
  BY DEF PhaseInv
<1>o. Owner \in Threads /\ \A w \in Workers : w # Owner
  OBVIOUS
<1>s. ASSUME UNCHANGED <<entry, pool>>,
             pc[Owner] \in {"ctor", "release_hold", "await_proxy"} <=>
               pc'[Owner] \in {"ctor", "release_hold", "await_proxy"}
      PROVE  EntryMatch'
  BY <1>s
<1>1. CASE StoreEntry \/ EraseEntry
  BY <1>1, <1>a, <1>o DEF StoreEntry, EraseEntry, Phase, TypeOK
<1>2. ASSUME NEW w \in Workers, StartThread(w) PROVE EntryMatch'
  BY <1>2, <1>a, <1>o DEF StartThread, TypeOK
<1>3. CASE PoolMade \/ DestroyBegin
  BY <1>3, <1>a, <1>o DEF PoolMade, DestroyBegin, Phase, TypeOK
<1>4. ASSUME NEW c \in Threads, StoreTask(c) \/ ScheduleTask(c) PROVE EntryMatch'
  BY <1>4, <1>a, <1>o, <1>s DEF StoreTask, MayQueue, ScheduleTask, TypeOK
<1>5. ASSUME NEW c \in Threads, NotifyOne(c) PROVE EntryMatch'
  <2>1. UNCHANGED <<entry, pool>>
    BY <1>5 DEF NotifyOne
  <2>2. pc'[Owner] = pc[Owner] \/ (pc[Owner] = "notify" /\ pc'[Owner] = "idle")
    <3>1. CASE c = Owner
      BY <1>5, <1>a, <1>o, <3>1 DEF NotifyOne, Blocked, Returned, TypeOK
    <3>2. CASE c # Owner
      BY <1>5, <1>a, <1>o, <3>2 DEF NotifyOne, Blocked, TypeOK
    <3> QED
      BY <3>1, <3>2
  <2> QED
    BY <1>s, <2>1, <2>2
<1>6. ASSUME NEW u \in Users,
             CancelPeek(u) \/ CancelMark(u) \/ CancelClear(u) \/ CancelSwap(u)
      PROVE  EntryMatch'
  BY <1>6, <1>a, <1>s DEF CancelPeek, CancelMark, CancelClear, CancelSwap, TypeOK
<1>7. ASSUME NEW u \in Users, NEW t \in held[u], GetStart(u, t) \/ Detach(u, t)
      PROVE  EntryMatch'
  BY <1>7, <1>a, <1>s DEF GetStart, Detach, TypeOK
<1>8. ASSUME NEW u \in Users, GetReturn(u) PROVE EntryMatch'
  BY <1>8, <1>a, <1>s DEF GetReturn, TypeOK
<1>9. CASE HostStop \/ NotifyAll \/ JoinAll
  BY <1>9, <1>a, <1>o, <1>s DEF HostStop, NotifyAll, JoinAll, TypeOK
<1>10. CASE ReleaseHold \/ ProxyGone
  BY <1>10, <1>a, <1>o DEF ReleaseHold, ProxyGone, Phase, Stopping, TypeOK
<1>11. ASSUME NEW w \in Workers, WorkerStep(w) \/ SpuriousWake(w) PROVE EntryMatch'
  <2>1. UNCHANGED <<entry, pool>> /\ pc'[Owner] = pc[Owner]
    BY <1>11, <1>a, <1>o
       DEF WorkerStep, CvWait, CheckStop, CheckEmpty, Dequeue, Register, EnterEnclave, ResolvePool,
           TryTake, CheckCancelled, FinishTask, ReleaseRef, LeaveEnclave, SpuriousWake, TypeOK
  <2> QED
    BY <1>s, <2>1
<1>12. CASE UNCHANGED vars
  BY <1>12 DEF vars
<1> QED
  BY <1>1, <1>2, <1>3, <1>4, <1>5, <1>6, <1>7, <1>8, <1>9, <1>10, <1>11, <1>12
     DEF Next, Running, OwnerStep, QueueStep, CancelStep, Choice, Finished, Halted

(* A worker comes to the pool by its id and lets go of it once; the rest   *)
(* of what threads do leaves the object alone.                             *)
LEMMA ObjectStep ==
  ASSUME PhaseInv, EntryMatch, [Next]_vars PROVE [Object!Next]_(Object!vars)
<1> DEFINE Goal == [Object!Next]_(Object!vars)
<1> SUFFICES Goal
  OBVIOUS
<1> USE TaskpoolAssumption DEF Threads, At, Goto, host, table, life, rest
<1>a. TypeOK /\ Phase
  BY DEF PhaseInv
<1>o. Owner \in Threads /\ \A w \in Workers : w # Owner
  OBVIOUS
<1>s. ASSUME ObjectPhase' = ObjectPhase, StrongHolders' = StrongHolders PROVE Goal
  BY <1>s DEF Object!vars, ObjectPhase
<1>u. ASSUME UNCHANGED <<entry, pool>>, pc[Owner] = "ctor" <=> pc'[Owner] = "ctor",
             \A w \in Workers : pc'[w] \in StrongAt <=> pc[w] \in StrongAt
      PROVE  Goal
  BY <1>s, <1>u DEF ObjectPhase, StrongHolders
<1> HIDE DEF Goal
<1>1. CASE StoreEntry
  <2>1. /\ pc[Owner] = "ctor" /\ ~entry /\ pool = "constructing"
        /\ entry' = TRUE /\ pool' = pool
    BY <1>1, <1>a DEF StoreEntry, EntryMatch, Phase
  <2>2. StrongHolders' = StrongHolders
    BY <1>1, <1>a, <1>o DEF StoreEntry, StrongHolders, TypeOK
  <2>3. ObjectPhase = "made" /\ ObjectPhase' = "known"
    BY <2>1 DEF ObjectPhase
  <2>4. Object!Store
    BY <2>2, <2>3 DEF Object!Store, ObjectPhase
  <2> QED
    BY <2>4 DEF Goal, Object!Next
<1>2. ASSUME NEW w \in Workers, StartThread(w) PROVE Goal
  BY <1>2, <1>a, <1>o, <1>u DEF StartThread, StrongAt, TypeOK
<1>3. CASE PoolMade \/ DestroyBegin
  <2>1. /\ UNCHANGED entry /\ pool # "closed" /\ pool' # "closed"
        /\ pc[Owner] # "ctor" /\ pc'[Owner] # "ctor"
    BY <1>3, <1>a, <1>o DEF PoolMade, DestroyBegin, Phase, TypeOK
  <2>2. StrongHolders' = StrongHolders
    BY <1>3, <1>a, <1>o DEF PoolMade, DestroyBegin, StrongHolders, TypeOK
  <2> QED
    BY <1>s, <2>1, <2>2 DEF ObjectPhase
<1>4. ASSUME NEW c \in Threads, StoreTask(c) PROVE Goal
  BY <1>4, <1>a, <1>o, <1>u DEF StoreTask, MayQueue, StrongAt, TypeOK
<1>5. ASSUME NEW c \in Threads, ScheduleTask(c) PROVE Goal
  <2>1. UNCHANGED <<entry, pool>> /\ pc[c] = "schedule" /\ pc'[c] \in {"orphaned", "notify"}
    BY <1>5, <1>a DEF ScheduleTask, TypeOK
  <2>2. \A d \in Threads \ {c} : pc'[d] = pc[d]
    BY <1>5, <1>a DEF ScheduleTask, TypeOK
  <2> QED
    BY <1>o, <1>u, <2>1, <2>2 DEF StrongAt
<1>6. ASSUME NEW c \in Threads, NotifyOne(c) PROVE Goal
  <2>1. UNCHANGED <<entry, pool>>
    BY <1>6 DEF NotifyOne
  <2>2. \A d \in Threads : \/ pc'[d] = pc[d]
                           \/ d \in Workers /\ pc[d] = "blocked" /\ pc'[d] = "wait"
                           \/ d = c /\ pc[d] = "notify" /\ pc'[d] = Returned(c)
    BY <1>6, <1>a DEF NotifyOne, Blocked, TypeOK
  <2> QED
    BY <1>o, <1>u, <2>1, <2>2 DEF StrongAt, Returned
<1>7. ASSUME NEW u \in Users,
             CancelPeek(u) \/ CancelMark(u) \/ CancelClear(u) \/ CancelSwap(u)
      PROVE  Goal
  BY <1>7, <1>a, <1>u DEF CancelPeek, CancelMark, CancelClear, CancelSwap, TypeOK
<1>8. ASSUME NEW u \in Users, NEW t \in held[u], GetStart(u, t) \/ Detach(u, t)
      PROVE  Goal
  BY <1>8, <1>a, <1>u DEF GetStart, Detach, TypeOK
<1>9. ASSUME NEW u \in Users, GetReturn(u) PROVE Goal
  BY <1>9, <1>a, <1>u DEF GetReturn, TypeOK
<1>10. CASE HostStop \/ JoinAll \/ ReleaseHold
  BY <1>10, <1>a, <1>o, <1>u DEF HostStop, JoinAll, ReleaseHold, TypeOK
<1>11. CASE NotifyAll
  BY <1>11, <1>a, <1>o, <1>u DEF NotifyAll, Blocked, StrongAt, TypeOK
<1>12. CASE EraseEntry
  <2>1. /\ pc[Owner] = "erase" /\ pc'[Owner] # "ctor" /\ pool = "closing" /\ entry
        /\ entry' = FALSE /\ pool' = pool
    BY <1>12, <1>a, <1>o DEF EraseEntry, EntryMatch, Phase, Stopping, TypeOK
  <2>2. StrongHolders' = StrongHolders
    BY <1>12, <1>a, <1>o DEF EraseEntry, StrongHolders, TypeOK
  <2>3. ObjectPhase = "known" /\ ObjectPhase' = "erased"
    BY <2>1 DEF ObjectPhase
  <2>4. Object!Erase
    BY <2>2, <2>3 DEF Object!Erase, ObjectPhase
  <2> QED
    BY <2>4 DEF Goal, Object!Next
<1>13. CASE ProxyGone
  <2>1. /\ pc[Owner] = "await_proxy" /\ pool = "closing" /\ ~entry /\ pool' = "closed"
        /\ StrongHolders = {}
    BY <1>13, <1>a DEF ProxyGone, EntryMatch, Phase, Stopping
  <2>2. StrongHolders' = StrongHolders
    BY <1>13, <1>a, <1>o DEF ProxyGone, StrongHolders, TypeOK
  <2>3. ObjectPhase = "erased" /\ ObjectPhase' = "gone"
    BY <2>1 DEF ObjectPhase
  <2>4. Object!Destroy
    BY <2>1, <2>2, <2>3 DEF Object!Destroy, ObjectPhase
  <2> QED
    BY <2>4 DEF Goal, Object!Next
<1>14. ASSUME NEW w \in Workers, CvWait(w) \/ CheckStop(w) \/ CheckEmpty(w) \/ Dequeue(w)
             \/ Register(w) \/ EnterEnclave(w) \/ LeaveEnclave(w) \/ SpuriousWake(w)
      PROVE  Goal
  <2>1. /\ UNCHANGED <<entry, pool>> /\ pc[w] \notin StrongAt /\ pc'[w] \notin StrongAt
        /\ \A d \in Threads \ {w} : pc'[d] = pc[d]
    BY <1>14, <1>a
       DEF CvWait, CheckStop, CheckEmpty, Dequeue, Register, EnterEnclave, LeaveEnclave, SpuriousWake,
           StrongAt, TypeOK
  <2> QED
    BY <1>o, <1>u, <2>1
<1>15. ASSUME NEW w \in Workers, ResolvePool(w) PROVE Goal
  <2>1. CASE pc' = pc
    BY <1>15, <1>u, <2>1 DEF ResolvePool
  <2>2. CASE pc' # pc
    <3>1. /\ entry /\ UNCHANGED <<entry, pool>>
          /\ pc' = [pc EXCEPT ![w] = "take"]
      BY <1>15, <2>2 DEF ResolvePool
    <3>2. StrongHolders' = StrongHolders \cup {w}
      BY <1>a, <3>1 DEF StrongHolders, StrongAt, TypeOK
    <3>3. ObjectPhase = "known" /\ ObjectPhase' = ObjectPhase
      BY <3>1 DEF EntryMatch, ObjectPhase
    <3>4. Object!Resolve(w)
      BY <3>2, <3>3 DEF Object!Resolve, ObjectPhase
    <3> QED
      BY <3>4 DEF Goal, Object!Next
  <2> QED
    BY <2>1, <2>2
<1>16. ASSUME NEW w \in Workers, TryTake(w) \/ CheckCancelled(w) \/ FinishTask(w) PROVE Goal
  <2>1. /\ UNCHANGED <<entry, pool>> /\ pc[w] \in StrongAt /\ pc'[w] \in StrongAt
        /\ \A d \in Threads \ {w} : pc'[d] = pc[d]
    BY <1>16, <1>a DEF TryTake, CheckCancelled, FinishTask, StrongAt, TypeOK
  <2> QED
    BY <1>o, <1>u, <2>1
<1>17. ASSUME NEW w \in Workers, ReleaseRef(w) PROVE Goal
  <2>1. /\ UNCHANGED <<entry, pool>> /\ pc[w] = "release_ref"
        /\ pc' = [pc EXCEPT ![w] = "leave"]
    BY <1>17 DEF ReleaseRef
  <2>2. w \in StrongHolders /\ StrongHolders' = StrongHolders \ {w}
    BY <1>a, <2>1 DEF StrongHolders, StrongAt, TypeOK
  <2>3. ObjectPhase' = ObjectPhase
    BY <1>a, <1>o, <2>1 DEF ObjectPhase, TypeOK
  <2>4. Object!LetGo(w)
    BY <2>2, <2>3 DEF Object!LetGo, ObjectPhase
  <2> QED
    BY <2>4 DEF Goal, Object!Next
<1>18. CASE UNCHANGED vars
  BY <1>18, <1>u DEF vars
<1> QED
  BY <1>1, <1>2, <1>3, <1>4, <1>5, <1>6, <1>7, <1>8, <1>9, <1>10, <1>11, <1>12,
     <1>13, <1>14, <1>15, <1>16, <1>17, <1>18
     DEF Next, Running, OwnerStep, QueueStep, CancelStep, WorkerStep, Choice,
         Finished, Halted

(* The pool is kept alive as KeepaliveAbs says, the specification that     *)
(* Keepalive's references and promise implement: that ProxyGone waits for  *)
(* the last strong reference, in one step, is what the mechanism does      *)
(* (taskpool.vtl1.h:134-147, taskpool.vtl1.cpp:47-62).                     *)
THEOREM KeptAlive == Safety => Object!Safety
<1>1. Init => EntryMatch /\ Object!Init
  BY TaskpoolAssumption DEF Init, EntryMatch, Object!Init, StrongHolders, StrongAt, Threads
<1>2. PhaseInv /\ EntryMatch /\ [Next]_vars => [Object!Next]_(Object!vars)
  BY ObjectStep
<1> QED
  BY <1>1, <1>2, InitPhaseInv, NextPhaseInv, NextEntryMatch, PTL DEF Safety, Object!Safety

-----------------------------------------------------------------------------
(***************************************************************************)
(* Nobody waits for nothing: the safety half of what the runs check with   *)
(* fairness.                                                               *)
(***************************************************************************)
LEMMA InitServed == Init => Served
BY TaskpoolAssumption
   DEF Init, Served, Started, AwakeAll, Nested, HandedOut, Threads

(* Every step starts threads before the pool opens, lets nobody fall       *)
(* asleep after the stop, and waits for ids that were handed out.          *)
LEMMA NextServed ==
  TypeOK /\ TypeOK' /\ Phase /\ Served /\ [Next]_vars => Served'
<1> SUFFICES ASSUME TypeOK, TypeOK', Phase, Served, [Next]_vars PROVE Served'
  OBVIOUS
<1> USE TaskpoolAssumption
    DEF TypeOK, Served, Started, AwakeAll, Nested, HandedOut, Blocked,
        Threads, At, Goto, host, table, life, rest
<1>1. CASE StoreEntry
  BY <1>1 DEF StoreEntry
<1>2. ASSUME NEW w \in Workers, StartThread(w) PROVE Served'
  BY <1>2 DEF StartThread
<1>3. CASE PoolMade
  BY <1>3 DEF PoolMade
<1>4. ASSUME NEW c \in Threads, StoreTask(c) PROVE Served'
  <2>1. c \in Workers => Nesting
    BY <1>4 DEF StoreTask, MayQueue
  <2>2. HandedOut'
    BY <1>4 DEF StoreTask
  <2> QED
    BY <1>4, <2>1, <2>2 DEF StoreTask, MayQueue
<1>5. ASSUME NEW c \in Threads, ScheduleTask(c) PROVE Served'
  <2>1. c \in Users => ~stop
    BY <1>5 DEF ScheduleTask, Phase, Stopping
  <2> QED
    BY <1>5, <2>1 DEF ScheduleTask
<1>6. ASSUME NEW c \in Threads, NotifyOne(c) PROVE Served'
  <2>1. UNCHANGED <<arg, stop, nextId, pool>>
    BY <1>6 DEF NotifyOne
  <2>2. \A d \in Threads : \/ pc'[d] = pc[d]
                           \/ d \in Workers /\ pc'[d] \in {"wait", "run"}
                           \/ d = c /\ d \in Users /\ pc'[d] = "idle" /\ pc[d] = "notify"
    BY <1>6 DEF NotifyOne, Returned
  <2>3. \A u \in Users : \A t \in held'[u] : t \in held[u] \/ t = arg[c]
    BY <1>6 DEF NotifyOne
  <2>4. HandedOut'
    BY <1>6, <2>1, <2>2, <2>3 DEF NotifyOne
  <2> QED
    BY <2>1, <2>2, <2>4
<1>7. ASSUME NEW u \in Users, CancelPeek(u) PROVE Served'
  BY <1>7 DEF CancelPeek
<1>8. ASSUME NEW u \in Users, CancelMark(u) PROVE Served'
  BY <1>8 DEF CancelMark
<1>9. ASSUME NEW u \in Users, CancelClear(u) PROVE Served'
  BY <1>9 DEF CancelClear
<1>10. ASSUME NEW u \in Users, CancelSwap(u) PROVE Served'
  BY <1>10 DEF CancelSwap
<1>11. ASSUME NEW u \in Users, NEW t \in held[u], GetStart(u, t) PROVE Served'
  BY <1>11 DEF GetStart
<1>12. ASSUME NEW u \in Users, GetReturn(u) PROVE Served'
  BY <1>12 DEF GetReturn
<1>13. ASSUME NEW u \in Users, NEW t \in held[u], Detach(u, t) PROVE Served'
  BY <1>13 DEF Detach
<1>14. CASE DestroyBegin
  BY <1>14 DEF DestroyBegin
<1>15. CASE HostStop
  BY <1>15 DEF HostStop
<1>16. CASE NotifyAll
  BY <1>16 DEF NotifyAll
<1>17. CASE JoinAll
  BY <1>17 DEF JoinAll
<1>18. CASE EraseEntry
  BY <1>18 DEF EraseEntry
<1>19. CASE ReleaseHold
  BY <1>19 DEF ReleaseHold
<1>20. CASE ProxyGone
  BY <1>20 DEF ProxyGone, Phase, Stopping
<1>21. ASSUME NEW w \in Workers, CvWait(w) PROVE Served'
  BY <1>21 DEF CvWait
<1>22. ASSUME NEW w \in Workers, SpuriousWake(w) PROVE Served'
  BY <1>22 DEF SpuriousWake
<1>23. ASSUME NEW w \in Workers, CheckStop(w) PROVE Served'
  BY <1>23 DEF CheckStop
<1>24. ASSUME NEW w \in Workers, CheckEmpty(w) PROVE Served'
  BY <1>24 DEF CheckEmpty
<1>25. ASSUME NEW w \in Workers, Dequeue(w) PROVE Served'
  BY <1>25 DEF Dequeue
<1>26. ASSUME NEW w \in Workers, Register(w) \/ EnterEnclave(w) PROVE Served'
  BY <1>26 DEF Register, EnterEnclave
<1>27. ASSUME NEW w \in Workers, ResolvePool(w) PROVE Served'
  BY <1>27 DEF ResolvePool
<1>28. ASSUME NEW w \in Workers, TryTake(w) PROVE Served'
  BY <1>28 DEF TryTake
<1>29. ASSUME NEW w \in Workers, CheckCancelled(w) PROVE Served'
  BY <1>29 DEF CheckCancelled
<1>30. ASSUME NEW w \in Workers, FinishTask(w) PROVE Served'
  BY <1>30 DEF FinishTask
<1>31. ASSUME NEW w \in Workers, ReleaseRef(w) PROVE Served'
  BY <1>31 DEF ReleaseRef
<1>32. ASSUME NEW w \in Workers, LeaveEnclave(w) PROVE Served'
  BY <1>32 DEF LeaveEnclave
<1>33. CASE UNCHANGED vars
  BY <1>33 DEF vars
<1> QED
  BY <1>1, <1>2, <1>3, <1>4, <1>5, <1>6, <1>7, <1>8, <1>9, <1>10,
     <1>11, <1>12, <1>13, <1>14, <1>15, <1>16, <1>17, <1>18, <1>19, <1>20,
     <1>21, <1>22, <1>23, <1>24, <1>25, <1>26, <1>27, <1>28, <1>29, <1>30,
     <1>31, <1>32, <1>33
     DEF Next, Running, OwnerStep, QueueStep, CancelStep, WorkerStep, Choice,
         Finished, Halted

(* A worker that waits for a thread of the enclave waits for a worker that *)
(* has one.                                                                *)
LEMMA SomebodyInside ==
  ASSUME Roomy, ~SlotFree
  PROVE  \E w \in Workers : pc[w] \in InEnclaveAt
<1> SUFFICES ASSUME \A w \in Workers : pc[w] \notin InEnclaveAt PROVE FALSE
  OBVIOUS
<1>1. Cardinality({w \in Workers : pc[w] \in InEnclaveAt}) = 0
  BY FS_EmptySet, {w \in Workers : pc[w] \in InEnclaveAt} = {}
<1>2. Cardinality(Users) \in Nat
  BY FiniteThreads, FS_CardinalityType
<1> QED
  BY <1>1, <1>2 DEF Roomy, SlotFree

(* A worker that was started, is awake and has not exited lets somebody    *)
(* move: itself, or whoever is inside the enclave.                         *)
LEMMA AwakeMoves ==
  ASSUME Nested, Roomy, crashed = "no",
         NEW w \in Workers, pc[w] \notin {"unborn", "blocked", "exited"}
  PROVE  Moving \/ Stranded
<1>1. CASE pc[w] = "orphaned"
  BY <1>1 DEF Nested, Stranded
<1>2. CASE pc[w] # "orphaned" /\ (pc[w] \in {"register", "call"} => SlotFree)
  BY <1>2 DEF Moving, WorkerMoves
<1>3. CASE ~SlotFree
  <2>1. PICK v \in Workers : pc[v] \in InEnclaveAt
    BY <1>3, SomebodyInside
  <2> QED
    BY <2>1 DEF InEnclaveAt, StrongAt, Nested, Stranded, Moving, WorkerMoves
<1> QED
  BY <1>1, <1>2, <1>3

(* The destructor never waits for nothing: while it has not returned, some *)
(* thread has a step to take, or a task that queued after the stop is      *)
(* stranded (taskpool.vtl1.h:134-147, 194), provided that the enclave has  *)
(* a thread more than it is used by.                                       *)
THEOREM DestructorServed == Safety => []ClosingIsServed
<1>1. ASSUME PhaseInv, Served, Roomy, pool = "closing", crashed = "no"
      PROVE  Moving \/ Stranded
  <2>1. pc[Owner] \in {"stop", "notify_all", "join", "erase", "release_hold", "await_proxy"}
    BY <1>1 DEF PhaseInv, Phase, Stopping
  <2>2. CASE pc[Owner] \in {"stop", "notify_all", "erase", "release_hold"}
    BY <1>1, <2>2, TaskpoolAssumption DEF Moving, UserMoves
  <2>3. CASE pc[Owner] = "await_proxy"
    <3>1. \A w \in Workers : pc[w] = "exited"
      BY <1>1, <2>3 DEF PhaseInv, Phase, Lifetime, PastJoin
    <3>2. StrongHolders = {}
      BY <3>1 DEF StrongHolders, StrongAt
    <3> QED
      BY <1>1, <2>3, <3>2, TaskpoolAssumption DEF Moving, UserMoves
  <2>4. CASE pc[Owner] = "join"
    <3>1. CASE \A w \in Workers : pc[w] = "exited"
      BY <1>1, <2>4, <3>1, TaskpoolAssumption DEF Moving, UserMoves
    <3>2. CASE \E w \in Workers : pc[w] # "exited"
      <4>1. PICK w \in Workers : pc[w] # "exited"
        BY <3>2
      <4>2. stop /\ Blocked = {}
        BY <1>1, <2>4 DEF PhaseInv, Phase, Stopping, Served, AwakeAll
      <4>3. pc[w] \notin {"unborn", "blocked", "exited"}
        BY <1>1, <4>1, <4>2 DEF Served, Started, Blocked
      <4> QED
        BY <1>1, <4>3, AwakeMoves DEF Served
    <3> QED
      BY <3>1, <3>2
  <2> QED
    BY <2>1, <2>2, <2>3, <2>4
<1>2. PhaseInv /\ Served => ClosingIsServed
  BY <1>1 DEF ClosingIsServed
<1>3. PhaseInv => TypeOK /\ Phase
  BY DEF PhaseInv
<1> QED
  BY <1>2, <1>3, InitPhaseInv, NextPhaseInv, InitServed, NextServed, PTL DEF Safety

(* A handle in the queue of a pool that is not stopped has a worker who is *)
(* awake, or a thread about to wake one.                                   *)
LEMMA QueueMoves ==
  ASSUME TypeOK, Phase, Served, ExitDrained, WorkConserving, Roomy, crashed = "no",
         Workers # {}, queue # <<>>
  PROVE  Moving \/ Stranded
<1>1. PICK w \in Workers : TRUE
  OBVIOUS
<1>2. \A v \in Workers : pc[v] # "exited"
  BY DEF ExitDrained
<1>3. CASE pc[w] \notin {"unborn", "blocked"}
  BY <1>2, <1>3, AwakeMoves DEF Served
<1>4. CASE pc[w] = "unborn"
  BY <1>4, TaskpoolAssumption DEF Served, Started, Phase, Moving, UserMoves
<1>5. CASE pc[w] = "blocked" /\ stop
  <2>1. pc[Owner] = "notify_all"
    BY <1>5 DEF Served, AwakeAll, Blocked
  <2> QED
    BY <2>1, TaskpoolAssumption DEF Moving, UserMoves
<1>6. CASE pc[w] = "blocked" /\ ~stop
  <2>1. Len(queue) <= Cardinality(Searching) + Cardinality(Notifying)
    BY <1>6 DEF WorkConserving, Blocked
  <2>2. Len(queue) \in Nat /\ Len(queue) # 0
    BY DEF TypeOK
  <2>3. CASE Searching = {} /\ Notifying = {}
    BY <2>1, <2>2, <2>3, FS_EmptySet
  <2>4. CASE Searching # {}
    BY <2>4 DEF Searching, Moving, WorkerMoves
  <2>5. CASE Notifying # {}
    BY <2>5 DEF Notifying, Threads, Moving, WorkerMoves, UserMoves
  <2> QED
    BY <2>3, <2>4, <2>5
<1> QED
  BY <1>3, <1>4, <1>5, <1>6

(* get never waits for nothing: in a pool that finishes all its tasks, as  *)
(* long as the promise of a task that was not cancelled is not set, some   *)
(* thread has a step to take, or a task is stranded (future.vtl1.h:194-218,*)
(* taskpool.vtl1.h:66-69, 194).                                            *)
THEOREM GetServed == Safety => []GetIsServed
<1>1. ASSUME Inv, Served, WorkConserving, Roomy, MustFinish, CancelSafe, Workers # {},
             NEW u \in Users, pc[u] = "get"
      PROVE  arg[u] < cancelledId \/ Moving \/ Stranded
  <2>1. TypeOK /\ Phase /\ crashed = "no" /\ Drained
    BY <1>1 DEF Inv, PhaseInv, SafeInv, Resolvable, PoolResolves, HandleResolves, TypeOK
  <2>2. arg[u] \in 1..(nextId - 1)
    BY <1>1 DEF Served, HandedOut
  <2>3. CASE arg[u] \in ready
    BY <1>1, <2>1, <2>3 DEF Moving, UserMoves
  <2>4. CASE Runs(arg[u])
    <3>1. PICK w \in Workers : pc[w] \in RunningAt
      BY <2>4 DEF Runs
    <3> QED
      BY <1>1, <2>1, <3>1, AwakeMoves DEF RunningAt, Served
  <2>5. CASE arg[u] \in tasks
    <3>1. InPlace(arg[u])
      BY <2>1, <2>5 DEF Drained, AllInPlace
    <3>2. CASE \E i \in 1..Len(queue) : queue[i] = arg[u]
      <4>1. queue # <<>>
        BY <3>2
      <4> QED
        BY <1>1, <2>1, <4>1, QueueMoves DEF Drained
    <3>3. CASE \E w \in Workers : pc[w] \in BeforeTake
      <4>1. PICK w \in Workers : pc[w] \in BeforeTake
        BY <3>3
      <4> QED
        BY <1>1, <2>1, <4>1, AwakeMoves DEF BeforeTake, Served
    <3>4. CASE \E c \in Threads : pc[c] \in BeforePush
      <4>1. PICK c \in Threads : pc[c] \in BeforePush
        BY <3>4
      <4>2. CASE c \in Workers
        BY <1>1, <2>1, <4>1, <4>2, AwakeMoves DEF BeforePush, Served
      <4>3. CASE c \in Users
        BY <1>1, <2>1, <4>1, <4>3 DEF BeforePush, Served, Nested, Moving, UserMoves
      <4> QED
        BY <4>2, <4>3 DEF Threads
    <3> QED
      BY <3>1, <3>2, <3>3, <3>4 DEF InPlace
  <2> QED
    BY <2>1, <2>2, <2>3, <2>4, <2>5 DEF Drained, Accounted
<1>2. Inv /\ Served /\ WorkConserving => GetIsServed
  BY <1>1 DEF GetIsServed
<1>3. Inv => TypeOK /\ Phase
  BY DEF Inv, PhaseInv
<1> QED
  BY <1>2, <1>3, InitInv, NextInv, InitServed, NextServed, ConservesWork, PTL DEF Safety
==============================================================================
