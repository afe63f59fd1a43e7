------------------------------ MODULE Taskpool ------------------------------
(***************************************************************************)
(* The task pool of the VBS enclave SDK, both halves of it: the VTL1       *)
(* object an enclave uses (veil::vtl1::taskpool: task table, cancelled id, *)
(* entry in the weak object table, futures) and the VTL0 object that backs *)
(* it with threads (taskpool_backing_threads: queue of handles, mutex,     *)
(* condition variable, stop flag).                                         *)
(*                                                                         *)
(* A thread has a program counter; an action is the code between two       *)
(* points where another thread can be observed: a critical section, one    *)
(* atomic access, or a call across the VTL boundary.  A worker waits on    *)
(* the condition variable exactly when its counter is "blocked".           *)
(***************************************************************************)
EXTENDS Integers, Sequences, FiniteSets

CONSTANTS
  Workers,     \* the VTL0 backing threads, one per unit of threadCount
  Users,       \* threads inside the enclave that use the pool
  Owner,       \* the user whose scope constructs and destroys the pool
  Cancellers,  \* the users that may call cancel_queued_tasks
  Nesting,     \* whether a task may call queue_task on its own pool
  MustFinish,  \* the mustFinishAllQueuedTasks argument
  Slots,       \* IMAGE_ENCLAVE_CONFIG.NumberOfThreads
  MaxTasks     \* bound on the number of queue_task calls

ASSUME TaskpoolAssumption ==
  /\ Owner \in Users
  /\ Users \cap Workers = {}
  /\ Cancellers \subseteq Users
  /\ Nesting \in BOOLEAN /\ MustFinish \in BOOLEAN
  /\ Slots \in Nat /\ MaxTasks \in Nat

(* threadCount is a number, and so is that of the enclave's threads.       *)
ASSUME FiniteThreads == IsFiniteSet(Workers) /\ IsFiniteSet(Users)

VARIABLES
  pc,           \* where each thread is
  arg,          \* id a thread's API call is about
  handle,       \* task handle a worker has dequeued
  stop, queue,  \* m_stop and m_taskHandles, in VTL0
  tasks,        \* ids stored in m_tasks, in VTL1
  nextId,       \* m_tasks.m_id
  cancelledId,  \* m_cancelledId
  entry,        \* the pool is in the weak object table
  hold,         \* m_keepaliveHold is set
  pool,         \* "constructing", "open", "closing" or "closed"
  ready,        \* ids whose promise has been set
  held,         \* futures each user still holds
  crashed       \* why the host process terminated, or "no"

vars == <<pc, arg, handle, stop, queue, tasks, nextId, cancelledId, entry,
          hold, pool, ready, held, crashed>>

host  == <<stop, queue>>
table == <<tasks, nextId>>
life  == <<entry, hold, pool>>
rest  == <<ready, held, crashed>>

Threads == Users \cup Workers
Ids     == 1..MaxTasks
At(c, l)   == crashed = "no" /\ pc[c] = l
Goto(c, l) == pc' = [pc EXCEPT ![c] = l]

Blocked == {w \in Workers : pc[w] = "blocked"}

(* Counters at which a worker holds a strong reference to the pool, and    *)
(* those at which it occupies an enclave thread (a callout does not free   *)
(* it).                                                                    *)
StrongAt    == {"take", "check_cancelled", "run", "schedule", "notify",
                "orphaned", "release_ref"}
InEnclaveAt == StrongAt \cup {"resolve", "leave"}

UserPc   == {"make", "ctor", "idle", "get", "schedule", "notify", "mark",
             "clear", "swap", "orphaned", "stop", "notify_all", "join", "erase",
             "release_hold", "await_proxy"}
WorkerPc == InEnclaveAt \cup {"unborn", "wait", "blocked", "check_stop",
             "check_empty", "dequeue", "register", "call", "exited"}

-----------------------------------------------------------------------------
Init ==
  /\ pc = [c \in Threads |-> IF c \in Workers THEN "unborn"
                             ELSE IF c = Owner THEN "ctor" ELSE "idle"]
  /\ arg = [c \in Threads |-> 0] /\ handle = [w \in Workers |-> 0]
  /\ stop = FALSE /\ queue = <<>>
  /\ tasks = {} /\ nextId = 1 /\ cancelledId = 0
  /\ entry = FALSE /\ hold = TRUE /\ pool = "constructing"
  /\ ready = {} /\ held = [u \in Users |-> {}] /\ crashed = "no"

(***************************************************************************)
(* Construction: the weak entry is stored, then taskpool_make starts the   *)
(* backing threads one by one; each runs as soon as it exists.             *)
(***************************************************************************)
StoreEntry ==
  /\ At(Owner, "ctor")
  /\ entry' = TRUE
  /\ Goto(Owner, "make")
  /\ UNCHANGED <<arg, handle, host, table, cancelledId, hold, pool, rest>>

StartThread(w) ==
  /\ At(Owner, "make") /\ At(w, "unborn")
  /\ Goto(w, "wait")
  /\ UNCHANGED <<arg, handle, host, table, cancelledId, life, rest>>

PoolMade ==
  /\ At(Owner, "make") /\ \A w \in Workers : pc[w] # "unborn"
  /\ Goto(Owner, "idle")
  /\ pool' = "open"
  /\ UNCHANGED <<arg, handle, host, table, cancelledId, entry, hold, rest>>

-----------------------------------------------------------------------------
(***************************************************************************)
(* queue_task, called by a user of the open pool or from inside a task.    *)
(* The lambda owning the promise is stored under a fresh id, the id is     *)
(* pushed in VTL0 and one waiter is notified after the lock is released.   *)
(***************************************************************************)
MayQueue(c) == \/ c \in Users /\ At(c, "idle") /\ pool = "open"
               \/ c \in Workers /\ Nesting /\ At(c, "run")

(* Mutant: the id is handed out without being consumed.                    *)
StoreTaskSameId(c) ==
  /\ MayQueue(c) /\ nextId <= MaxTasks
  /\ tasks' = tasks \cup {nextId}
  /\ arg' = [arg EXCEPT ![c] = nextId]
  /\ Goto(c, "schedule")
  /\ UNCHANGED <<handle, host, nextId, cancelledId, life, rest>>

StoreTask(c) ==
  /\ MayQueue(c) /\ nextId <= MaxTasks
  /\ tasks' = tasks \cup {nextId}
  /\ nextId' = nextId + 1
  /\ arg' = [arg EXCEPT ![c] = nextId]
  /\ Goto(c, "schedule")
  /\ UNCHANGED <<handle, host, cancelledId, life, rest>>

(* Once the pool stops, VTL0 refuses with ERROR_CANCELLED: queue_task      *)
(* unwinds through the destructor of its own future, which waits for a     *)
(* promise that stays in the table.  No action leaves "orphaned".          *)
ScheduleTask(c) ==
  /\ At(c, "schedule")
  /\ queue' = IF stop THEN queue ELSE Append(queue, arg[c])
  /\ Goto(c, IF stop THEN "orphaned" ELSE "notify")
  /\ UNCHANGED <<arg, handle, stop, table, cancelledId, life, rest>>

(* Mutant: a task that queued does not get back to its lambda.             *)
ReturnedIdle(c) == "idle"

Returned(c) == IF c \in Users THEN "idle" ELSE "run"

(* notify_one wakes any one waiter; queue_task then returns the future.    *)
(* A task that queued detaches it.                                         *)
NotifyOne(c) ==
  /\ At(c, "notify")
  /\ IF Blocked = {}
     THEN Goto(c, Returned(c))
     ELSE \E w \in Blocked :
            pc' = [pc EXCEPT ![c] = Returned(c), ![w] = "wait"]
  /\ held' = [u \in Users |-> IF u = c THEN held[u] \cup {arg[c]} ELSE held[u]]
  /\ UNCHANGED <<arg, handle, host, table, cancelledId, life, ready, crashed>>

-----------------------------------------------------------------------------
(***************************************************************************)
(* cancel_queued_tasks: read the next id, publish it, empty the VTL1       *)
(* table, and empty the VTL0 queue.                                        *)
(***************************************************************************)
CancelPeek(u) ==
  /\ u \in Cancellers /\ At(u, "idle") /\ pool = "open"
  /\ arg' = [arg EXCEPT ![u] = nextId]
  /\ Goto(u, "mark")
  /\ UNCHANGED <<handle, host, table, cancelledId, life, rest>>

(* Mutant: the last id handed out is published, not the next one.          *)
CancelMarkLast(u) ==
  /\ At(u, "mark")
  /\ cancelledId' = arg[u] - 1
  /\ Goto(u, "clear")
  /\ UNCHANGED <<arg, handle, host, table, life, rest>>

CancelMark(u) ==
  /\ At(u, "mark")
  /\ cancelledId' = arg[u]
  /\ Goto(u, "clear")
  /\ UNCHANGED <<arg, handle, host, table, life, rest>>

(* Mutant: only the VTL0 queue is emptied.                                 *)
CancelClearNothing(u) ==
  /\ At(u, "clear")
  /\ Goto(u, "swap")
  /\ UNCHANGED <<arg, handle, host, table, cancelledId, life, rest>>

CancelClear(u) ==
  /\ At(u, "clear")
  /\ tasks' = {}
  /\ Goto(u, "swap")
  /\ UNCHANGED <<arg, handle, host, nextId, cancelledId, life, rest>>

CancelSwap(u) ==
  /\ At(u, "swap")
  /\ queue' = <<>>
  /\ Goto(u, "idle")
  /\ UNCHANGED <<arg, handle, stop, table, cancelledId, life, rest>>

-----------------------------------------------------------------------------
(***************************************************************************)
(* Futures.  get() and ~future wait for the promise and give up the        *)
(* state; detach gives it up at once.                                      *)
(***************************************************************************)
GetStart(u, t) ==
  /\ At(u, "idle") /\ t \in held[u]
  /\ arg' = [arg EXCEPT ![u] = t]
  /\ held' = [held EXCEPT ![u] = @ \ {t}]
  /\ Goto(u, "get")
  /\ UNCHANGED <<handle, host, table, cancelledId, life, ready, crashed>>

GetReturn(u) ==
  /\ At(u, "get") /\ arg[u] \in ready
  /\ Goto(u, "idle")
  /\ UNCHANGED <<arg, handle, host, table, cancelledId, life, rest>>

Detach(u, t) ==
  /\ At(u, "idle") /\ t \in held[u]
  /\ held' = [held EXCEPT ![u] = @ \ {t}]
  /\ UNCHANGED <<pc, arg, handle, host, table, cancelledId, life, ready, crashed>>

-----------------------------------------------------------------------------
(***************************************************************************)
(* Destruction.  The C++ lifetime rule is the guard: no other user is      *)
(* inside a member function, and none enters one once the pool closes.     *)
(* The owner calls out to taskpool_delete (stop, notify_all, join), erases *)
(* the weak entry and waits for the last strong reference; the table and   *)
(* the promises left in it go last.                                        *)
(***************************************************************************)
DestroyBegin ==
  /\ pool = "open"
  /\ At(Owner, "idle") /\ \A u \in Users : pc[u] \in {"idle", "get"}
  /\ pool' = "closing"
  /\ Goto(Owner, "stop")
  /\ UNCHANGED <<arg, handle, host, table, cancelledId, entry, hold, rest>>

HostStop ==
  /\ At(Owner, "stop")
  /\ stop' = TRUE
  /\ Goto(Owner, "notify_all")
  /\ UNCHANGED <<arg, handle, queue, table, cancelledId, life, rest>>

(* Mutant: the destructor notifies one waiter.                             *)
NotifyAllOne ==
  /\ At(Owner, "notify_all")
  /\ \E d \in Blocked \cup {Owner} :
       pc' = [c \in Threads |-> IF c = Owner THEN "join"
                                ELSE IF c = d THEN "wait" ELSE pc[c]]
  /\ UNCHANGED <<arg, handle, host, table, cancelledId, life, rest>>

NotifyAll ==
  /\ At(Owner, "notify_all")
  /\ pc' = [c \in Threads |-> IF c = Owner THEN "join"
                              ELSE IF c \in Blocked THEN "wait" ELSE pc[c]]
  /\ UNCHANGED <<arg, handle, host, table, cancelledId, life, rest>>

(* Mutant: the threads are detached, not joined.                           *)
JoinAllDetached ==
  /\ At(Owner, "join")
  /\ queue' = <<>>
  /\ Goto(Owner, "erase")
  /\ UNCHANGED <<arg, handle, stop, table, cancelledId, life, rest>>

(* All threads joined: the VTL0 object goes, and its queue with it.        *)
JoinAll ==
  /\ At(Owner, "join") /\ \A w \in Workers : pc[w] = "exited"
  /\ queue' = <<>>
  /\ Goto(Owner, "erase")
  /\ UNCHANGED <<arg, handle, stop, table, cancelledId, life, rest>>

EraseEntry ==
  /\ At(Owner, "erase")
  /\ entry' = FALSE
  /\ Goto(Owner, "release_hold")
  /\ UNCHANGED <<arg, handle, host, table, cancelledId, hold, pool, rest>>

ReleaseHold ==
  /\ At(Owner, "release_hold")
  /\ hold' = FALSE
  /\ Goto(Owner, "await_proxy")
  /\ UNCHANGED <<arg, handle, host, table, cancelledId, entry, pool, rest>>

StrongHolders == {w \in Workers : pc[w] \in StrongAt}

ProxyGone ==
  /\ At(Owner, "await_proxy") /\ StrongHolders = {}
  /\ tasks' = {}
  /\ pool' = "closed"
  /\ Goto(Owner, "idle")
  /\ UNCHANGED <<arg, handle, host, nextId, cancelledId, entry, hold, rest>>

-----------------------------------------------------------------------------
(***************************************************************************)
(* thread_proc of a backing thread.                                        *)
(***************************************************************************)
(* Mutant: the wait's predicate forgets the queue.                         *)
CvWaitForStop(w) ==
  /\ At(w, "wait")
  /\ Goto(w, IF stop THEN "check_stop" ELSE "blocked")
  /\ UNCHANGED <<arg, handle, host, table, cancelledId, life, rest>>

CvWait(w) ==
  /\ At(w, "wait")
  /\ Goto(w, IF stop \/ queue # <<>> THEN "check_stop" ELSE "blocked")
  /\ UNCHANGED <<arg, handle, host, table, cancelledId, life, rest>>

SpuriousWake(w) ==
  /\ At(w, "blocked")
  /\ Goto(w, "wait")
  /\ UNCHANGED <<arg, handle, host, table, cancelledId, life, rest>>

(* Mutant: a stopped worker exits whatever is queued.                      *)
CheckStopExits(w) ==
  /\ At(w, "check_stop")
  /\ Goto(w, IF stop THEN "exited" ELSE "dequeue")
  /\ UNCHANGED <<arg, handle, host, table, cancelledId, life, rest>>

(* m_stop is read here without the mutex.                                  *)
CheckStop(w) ==
  /\ At(w, "check_stop")
  /\ Goto(w, IF ~stop THEN "dequeue"
             ELSE IF MustFinish THEN "check_empty" ELSE "exited")
  /\ UNCHANGED <<arg, handle, host, table, cancelledId, life, rest>>

CheckEmpty(w) ==
  /\ At(w, "check_empty")
  /\ Goto(w, IF queue = <<>> THEN "exited" ELSE "dequeue")
  /\ UNCHANGED <<arg, handle, host, table, cancelledId, life, rest>>

Dequeue(w) ==
  /\ At(w, "dequeue")
  /\ IF queue = <<>>
     THEN Goto(w, "wait") /\ UNCHANGED <<handle, queue>>
     ELSE /\ handle' = [handle EXCEPT ![w] = Head(queue)]
          /\ queue' = Tail(queue)
          /\ Goto(w, "register")
  /\ UNCHANGED <<arg, stop, table, cancelledId, life, rest>>

(* CallEnclave blocks until the enclave has a free thread.                 *)
SlotFree == Cardinality({w \in Workers : pc[w] \in InEnclaveAt})
              + Cardinality(Users) < Slots

(* Every run of a task first registers the callbacks of an interface of    *)
(* its own: a call of the enclave that waits for nothing inside and gives  *)
(* its thread back, so one step.                                           *)
Register(w) ==
  /\ At(w, "register") /\ SlotFree
  /\ Goto(w, "call")
  /\ UNCHANGED <<arg, handle, host, table, cancelledId, life, rest>>

EnterEnclave(w) ==
  /\ At(w, "call") /\ SlotFree
  /\ Goto(w, "resolve")
  /\ UNCHANGED <<arg, handle, host, table, cancelledId, life, rest>>

(* An unresolvable pool or a missing handle comes back to VTL0 as a failed *)
(* HRESULT that thread_proc throws and nothing catches.                    *)
ResolvePool(w) ==
  /\ At(w, "resolve")
  /\ IF entry /\ (hold \/ StrongHolders # {})
     THEN Goto(w, "take") /\ UNCHANGED crashed
     ELSE crashed' = "resource_not_online" /\ UNCHANGED pc
  /\ UNCHANGED <<arg, handle, host, table, cancelledId, life, ready, held>>

(* Mutant: the task is found but stays in the table.                       *)
TryTakeKeeps(w) ==
  /\ At(w, "take")
  /\ Goto(w, IF handle[w] \in tasks THEN "run" ELSE "check_cancelled")
  /\ UNCHANGED <<arg, handle, host, table, cancelledId, life, rest>>

TryTake(w) ==
  /\ At(w, "take")
  /\ tasks' = tasks \ {handle[w]}
  /\ Goto(w, IF handle[w] \in tasks THEN "run" ELSE "check_cancelled")
  /\ UNCHANGED <<arg, handle, host, nextId, cancelledId, life, rest>>

CheckCancelled(w) ==
  /\ At(w, "check_cancelled")
  /\ IF handle[w] < cancelledId
     THEN Goto(w, "release_ref") /\ UNCHANGED crashed
     ELSE crashed' = "invalid_index" /\ UNCHANGED pc
  /\ UNCHANGED <<arg, handle, host, table, cancelledId, life, ready, held>>

(* The lambda ends, by return or by exception: either sets the promise.    *)
FinishTask(w) ==
  /\ At(w, "run")
  /\ ready' = ready \cup {handle[w]}
  /\ Goto(w, "release_ref")
  /\ UNCHANGED <<arg, handle, host, table, cancelledId, life, held, crashed>>

ReleaseRef(w) ==
  /\ At(w, "release_ref")
  /\ Goto(w, "leave")
  /\ UNCHANGED <<arg, handle, host, table, cancelledId, life, rest>>

LeaveEnclave(w) ==
  /\ At(w, "leave")
  /\ Goto(w, "wait")
  /\ UNCHANGED <<arg, handle, host, table, cancelledId, life, rest>>

-----------------------------------------------------------------------------
(* What a thread does on its own once it is under way...                   *)
QueueStep(c)  == ScheduleTask(c) \/ NotifyOne(c)
CancelStep(u) == CancelMark(u) \/ CancelClear(u) \/ CancelSwap(u)
OwnerStep     == \/ StoreEntry \/ (\E w \in Workers : StartThread(w)) \/ PoolMade
                 \/ HostStop \/ NotifyAll \/ JoinAll
                 \/ EraseEntry \/ ReleaseHold \/ ProxyGone
WorkerStep(w) == \/ CvWait(w) \/ CheckStop(w) \/ CheckEmpty(w) \/ Dequeue(w)
                 \/ Register(w) \/ EnterEnclave(w) \/ ResolvePool(w)
                 \/ TryTake(w) \/ CheckCancelled(w) \/ FinishTask(w)
                 \/ ReleaseRef(w) \/ LeaveEnclave(w)

(* ... and what the program using the pool, or the system, may choose.     *)
Choice ==
  \/ \E c \in Threads : StoreTask(c)
  \/ \E u \in Users : CancelPeek(u)
  \/ \E u \in Users : \E t \in held[u] : GetStart(u, t) \/ Detach(u, t)
  \/ DestroyBegin
  \/ \E w \in Workers : SpuriousWake(w)

Finished == /\ pool = "closed" /\ \A u \in Users : pc[u] = "idle" /\ held[u] = {}
            /\ UNCHANGED vars
Halted   == crashed # "no" /\ UNCHANGED vars

Running ==
  \/ OwnerStep
  \/ \E c \in Threads : QueueStep(c)
  \/ \E u \in Users : CancelStep(u) \/ GetReturn(u)
  \/ \E w \in Workers : WorkerStep(w)
  \/ Choice

Next == Running \/ Finished \/ Halted

(* Every started thread keeps running, and a task's lambda returns.        *)
Fairness ==
  /\ WF_vars(OwnerStep)
  /\ \A c \in Threads : WF_vars(QueueStep(c))
  /\ \A u \in Users : WF_vars(CancelStep(u) \/ GetReturn(u))
  /\ \A w \in Workers : WF_vars(WorkerStep(w))

Safety == Init /\ [][Next]_vars
Spec   == Safety /\ Fairness
-----------------------------------------------------------------------------
(* Type invariant.                                                         *)
TypeOK ==
  /\ pc \in [Threads -> UserPc \cup WorkerPc]
  /\ \A u \in Users : pc[u] \in UserPc
  /\ \A w \in Workers : pc[w] \in WorkerPc
  /\ arg \in [Threads -> Nat] /\ handle \in [Workers -> Nat]
  /\ stop \in BOOLEAN /\ queue \in Seq(Nat)
  /\ tasks \subseteq Nat /\ nextId \in Nat \ {0} /\ cancelledId \in Nat
  /\ entry \in BOOLEAN /\ hold \in BOOLEAN
  /\ pool \in {"constructing", "open", "closing", "closed"}
  /\ ready \subseteq Nat
  /\ held \in [Users -> SUBSET Nat]
  /\ crashed \in {"no", "resource_not_online", "invalid_index"}

(* Lifetime: once the owner is past the join, no backing thread touches    *)
(* the VTL0 object or the pool, whatever calls were in flight when the     *)
(* destructor began (taskpool.vtl1.h:134-147, taskpool.vtl0.h:44-55).      *)
PastJoin == \/ pool = "closed"
            \/ pc[Owner] \in {"erase", "release_hold", "await_proxy"}
Lifetime == PastJoin => \A w \in Workers : pc[w] = "exited"

(* A call into the enclave always finds the pool: ERROR_RESOURCE_NOT_ONLINE *)
(* (taskpool.vtl1.cpp:54), which would terminate the host, never happens.  *)
PoolResolves == crashed # "resource_not_online"

(* A call into the enclave always finds its task or a cancellation that    *)
(* covers it: the "Task handle doesn't exist" throw (taskpool.vtl1.h:209), *)
(* which would terminate the host, never happens.                          *)
HandleResolves == crashed # "invalid_index"

(* No task is run by two workers, none is run again after its promise was  *)
(* set: set_value never throws promise_already_satisfied                   *)
(* (future.vtl1.h:131-134).                                                *)
RunningAt == {"run", "schedule", "notify", "orphaned"}
RunsAtMostOnce ==
  \A w \in Workers : pc[w] \in RunningAt =>
    /\ handle[w] \notin ready
    /\ \A v \in Workers \ {w} :
         pc[v] \in RunningAt => handle[v] # handle[w]

(* After cancel_queued_tasks has cleared the table, no task older than the *)
(* published id is left to be run (taskpool.vtl1.h:222-228).               *)
CancelledStayOut ==
  (\A u \in Users : pc[u] # "clear") => \A t \in tasks : t >= cancelledId

(* A destroyed must-finish pool has run every task that was not cancelled  *)
(* (taskpool.vtl1.h:66-69 and Test_Do_WaitForAllTasksToFinish).            *)
FinishedAll ==
  MustFinish /\ pool = "closed" =>
    \A t \in 1..(nextId - 1) : t \in ready \/ t < cancelledId

(* No lost wake-up, and no idle thread beside waiting work: while a worker *)
(* is blocked, every queued handle has a worker on its way to the queue or *)
(* a notify_one still to come (taskpool.vtl0.h:57-68, 81-112).             *)
Searching == {w \in Workers :
                pc[w] \in {"wait", "check_stop", "check_empty", "dequeue"}}
Notifying == {c \in Threads : pc[c] = "notify"}
WorkConserving ==
  ~stop /\ Blocked # {} =>
    Len(queue) <= Cardinality(Searching) + Cardinality(Notifying)

-----------------------------------------------------------------------------
(* A destructor that begins returns: the pool's "Blocking destructor"      *)
(* blocks only until its tasks are done or unscheduled                     *)
(* (taskpool.vtl1.h:66-69).                                                *)
DestructorReturns == (pool = "closing") ~> (pool = "closed")

(* A must-finish pool completes every task: get() on its future returns    *)
(* (future.vtl1.h:194-218).                                                *)
GetReturns == \A u \in Users : (pc[u] = "get") ~> (pc[u] = "idle")

-----------------------------------------------------------------------------
(* The pool implements TaskpoolAbs.  A task is queued from the moment it   *)
(* is in m_tasks, running from the moment it is taken out.                 *)
StatusOf(t) ==
  IF t >= nextId THEN "new"
  ELSE IF t \in ready THEN "done"
  ELSE IF t \in tasks THEN "queued"
  ELSE IF \E w \in Workers : pc[w] \in RunningAt /\ handle[w] = t THEN "running"
  ELSE "dropped"

Abs == INSTANCE TaskpoolAbs WITH
         Tasks  <- Ids,
         status <- [t \in Ids |-> StatusOf(t)],
         pool   <- IF pool = "constructing" THEN "open" ELSE pool

ImplementsAbs == Abs!Spec

(* The pool is an object that the keepalive mechanism keeps: its steps on  *)
(* the weak entry and on strong references, ProxyGone among them, are      *)
(* those of KeepaliveAbs, as Keepalive's are.                              *)
Object == INSTANCE KeepaliveAbs WITH
            Threads <- Workers,
            phase   <- IF pool = "closed" THEN "gone" ELSE IF entry THEN "known"
                       ELSE IF pc[Owner] = "ctor" THEN "made" ELSE "erased",
            using   <- StrongHolders
=============================================================================
