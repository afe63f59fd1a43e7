----------------------------- MODULE TaskpoolInv -----------------------------
(***************************************************************************)
(* The inductive invariants behind the theorems of TaskpoolProofs.         *)
(***************************************************************************)
EXTENDS Taskpool

OwnerOnlyPc == {"ctor", "make", "stop", "notify_all", "join", "erase",
                "release_hold", "await_proxy"}
Stopping    == {"notify_all", "join", "erase", "release_hold", "await_proxy"}

(* The phase of the pool against the counters: only the owner constructs   *)
(* and destroys, nobody else is in the pool then, and the threads exist    *)
(* only while the weak entry and the owner's reference do.                 *)
Phase ==
  /\ \A u \in Users \ {Owner} : pc[u] \notin OwnerOnlyPc
  /\ pool = "constructing" <=> pc[Owner] \in {"ctor", "make"}
  /\ pool = "closing" <=> pc[Owner] \in Stopping \cup {"stop"}
  /\ pool \in {"constructing", "closing"} =>
       \A u \in Users \ {Owner} : pc[u] \in {"idle", "get"}
  /\ pool = "closed" => \A u \in Users : pc[u] \in {"idle", "get"}
  /\ stop <=> pool = "closed" \/ pc[Owner] \in Stopping
  /\ pc[Owner] = "ctor" => \A w \in Workers : pc[w] = "unborn"
  /\ Lifetime
  /\ PastJoin => queue = <<>>
  /\ ~entry => \/ pc[Owner] \in {"ctor", "release_hold", "await_proxy"}
               \/ pool = "closed"
  /\ ~hold => pc[Owner] = "await_proxy" \/ pool = "closed"

PhaseInv == TypeOK /\ Phase /\ PoolResolves

(* The weak entry is there from the constructor to the destructor's erase. *)
EntryMatch ==
  entry <=> pool # "closed" /\ pc[Owner] \notin {"ctor", "release_hold", "await_proxy"}

(* Ids are handed out once: what is running is neither stored nor done.    *)
IdsOnce ==
  /\ \A t \in tasks \cup ready : t < nextId
  /\ tasks \cap ready = {}
  /\ \A w \in Workers : pc[w] \in RunningAt =>
       /\ handle[w] < nextId
       /\ handle[w] \notin tasks \cup ready
  /\ RunsAtMostOnce
  /\ cancelledId <= nextId
  /\ \A u \in Users : pc[u] = "mark" => arg[u] <= nextId
  /\ \A c \in Threads : pc[c] \in {"schedule", "notify", "orphaned"} =>
       arg[c] < nextId
  /\ \A i \in 1..Len(queue) : queue[i] < nextId
  /\ \A w \in Workers : handle[w] < nextId
  /\ CancelledStayOut

(***************************************************************************)
(* A program is cancel-safe if nothing queues while it cancels: it never   *)
(* cancels, or one thread does everything.                                 *)
(***************************************************************************)
CancelSafe == Cancellers = {} \/ (Users = {Owner} /\ ~Nesting)

(* The three places from which a stored id can still reach try_take: a     *)
(* dequeued handle, the queue, and the caller about to push it (or stuck). *)
BeforeTake == {"register", "call", "resolve", "take"}
BeforePush == {"schedule", "orphaned"}

OnePlace ==
  /\ \A i, j \in 1..Len(queue) : queue[i] = queue[j] => i = j
  /\ \A w \in Workers : pc[w] \in BeforeTake =>
       /\ \A i \in 1..Len(queue) : queue[i] # handle[w]
       /\ \A v \in Workers \ {w} : pc[v] \in BeforeTake => handle[v] # handle[w]
       /\ \A c \in Threads : pc[c] \in BeforePush => arg[c] # handle[w]
  /\ \A c \in Threads : pc[c] \in BeforePush =>
       /\ \A i \in 1..Len(queue) : queue[i] # arg[c]
       /\ \A d \in Threads \ {c} : pc[d] \in BeforePush => arg[d] # arg[c]

(* An id on its way to try_take is stored or counted as cancelled.         *)
Live(t) == t \in tasks \/ t < cancelledId

Resolvable ==
  /\ \A i \in 1..Len(queue) : Live(queue[i])
  /\ \A w \in Workers : pc[w] \in BeforeTake => Live(handle[w])
  /\ \A c \in Threads : pc[c] \in BeforePush => Live(arg[c])
  /\ \A w \in Workers : pc[w] = "check_cancelled" => handle[w] < cancelledId
  /\ \A u \in Users : pc[u] = "mark" => arg[u] = nextId
  /\ \A u \in Users : pc[u] = "clear" => cancelledId = nextId
  /\ \A u \in Users : pc[u] = "swap" => tasks = {}
  /\ \A u \in Users : pc[u] \in {"mark", "clear", "swap"} => u \in Cancellers
  /\ ~Nesting => \A w \in Workers : pc[w] \notin {"schedule", "notify", "orphaned"}
  /\ HandleResolves

(* Nothing stored is forgotten: it has a place, and a must-finish worker   *)
(* exits only from a stopped pool with an empty queue.                     *)
InPlace(t) == \/ \E i \in 1..Len(queue) : queue[i] = t
              \/ \E w \in Workers : pc[w] \in BeforeTake /\ handle[w] = t
              \/ \E c \in Threads : pc[c] \in BeforePush /\ arg[c] = t

AllInPlace == \A t \in tasks : InPlace(t)

ExitDrained ==
  /\ (\E w \in Workers : pc[w] = "exited") => stop /\ queue = <<>>
  /\ \A w \in Workers : pc[w] = "check_empty" => stop

Runs(t) == \E w \in Workers : pc[w] \in RunningAt /\ handle[w] = t

Accounted == \A t \in 1..(nextId - 1) :
               t \in tasks \/ t \in ready \/ t < cancelledId \/ Runs(t)

Drained == /\ AllInPlace /\ ExitDrained /\ Accounted
           /\ pool = "closed" => tasks = {}

SafeInv == /\ OnePlace
           /\ CancelSafe => /\ Resolvable
                            /\ MustFinish /\ Workers # {} => Drained

(* The whole of it.                                                        *)
Inv == PhaseInv /\ IdsOnce /\ SafeInv

(***************************************************************************)
(* Who waits is served: somebody has a step to take.  A thread under way   *)
(* has one unless it waits for a promise, an enclave thread, the           *)
(* condition variable or the destructor's threads and references.          *)
(***************************************************************************)
WorkerMoves(w) == /\ pc[w] \notin {"unborn", "blocked", "orphaned", "exited"}
                  /\ pc[w] \in {"register", "call"} => SlotFree
UserMoves(u)   == /\ pc[u] \notin {"idle", "orphaned"}
                  /\ pc[u] = "get" => arg[u] \in ready
                  /\ pc[u] = "join" => \A w \in Workers : pc[w] = "exited"
                  /\ pc[u] = "await_proxy" => StrongHolders = {}
Moving == /\ crashed = "no"
          /\ \/ \E w \in Workers : WorkerMoves(w)
             \/ \E u \in Users : UserMoves(u)

(* The one way to get stuck: a task that queued after the stop.            *)
Stranded == Nesting /\ \E w \in Workers : pc[w] = "orphaned"

(* The enclave has a thread for the workers: one more than are inside.     *)
Roomy == Cardinality(Users) < Slots

ClosingIsServed == Roomy /\ pool = "closing" /\ crashed = "no" => Moving \/ Stranded
GetIsServed ==
  Roomy /\ MustFinish /\ CancelSafe /\ Workers # {} =>
    \A u \in Users :
      pc[u] = "get" => arg[u] < cancelledId \/ Moving \/ Stranded

(* What serving them rests on: every thread was started, nobody sleeps     *)
(* through the stop, only a task that queues can be stranded, and futures  *)
(* are of ids that were handed out.                                        *)
Started  == pool # "constructing" => \A w \in Workers : pc[w] # "unborn"
AwakeAll == stop /\ pc[Owner] # "notify_all" => Blocked = {}
Nested   ==
  /\ \A w \in Workers : pc[w] \in {"schedule", "notify", "orphaned"} => Nesting
  /\ \A u \in Users : pc[u] # "orphaned"
HandedOut ==
  /\ \A u \in Users : \A t \in held[u] : t \in 1..(nextId - 1)
  /\ \A u \in Users : pc[u] = "get" => arg[u] \in 1..(nextId - 1)
  /\ \A c \in Threads : pc[c] \in {"schedule", "notify"} => arg[c] \in 1..(nextId - 1)
Served == Started /\ AwakeAll /\ Nested /\ HandedOut
==============================================================================
