# Specifications of the VBS enclave tooling

TLA+ models of the VBS enclave SDK, its call layer and the tool that generates the
calls, with the TLC configurations that check them and the TLAPS proofs of what holds
for every size.
Paths are relative to the repository; `taskpool.vtl1.h` and its neighbours are in
`src/VbsEnclaveSDK/src/veil_enclave_lib`, `taskpool.vtl0.h` in
`src/VbsEnclaveSDK/src/veil_host_lib`, the tool's files in `src/ToolingSharedLibrary`.

Run TLC on a configuration with `tlc -config X.cfg M`, and a proof module with `tlapm M.tla`.

## The system

A program is split between an ordinary process (VTL0, the host) and an enclave
(VTL1). A tool generates, from an interface file (EDL), the stubs by which each
side calls the other; an SDK builds services on these calls.

| Part | State | Operations | Correct when |
| --- | --- | --- | --- |
| Task pool (`taskpool.vtl1.h`, `taskpool.vtl0.h`) | VTL1: table of tasks, next id, cancelled id, entry in the weak table. VTL0: queue of handles, stop flag, mutex, condition variable, threads | construct, queue_task, cancel_queued_tasks, destroy; thread loop, run_task | a task runs at most once; an accepted task of a must-finish pool runs; no handle is unknown; no thread outlives the pool; nobody waits for ever |
| Keepalive and object tables (`object_table.vtl1.h`) | id to weak reference, owner's strong reference, destruction promise | store, erase, resolve, take, release and block | an object is alive while a resolved reference is; the destructor returns |
| Promise and future (`future.vtl1.h`) | ready flag, value, exception, condition variable | get, detach, set_value, set_exception, destroy | a waiter is woken; a value is set once |
| Call layer, C++ (`EnclaveHelpers.h`, `HostHelpers.h`, `MemoryAllocation.h`, `Vtl0Pointers.h`) | table of VTL0 callbacks, registration flag, VTL0 buffers of each call | register, call in, call out, allocate, free | each buffer freed once, none left; each side reads what was written for it; a callback found when registered |
| Range checks (`MemoryChecks.h`) | bounds of the enclave, computed lazily | check a VTL0 buffer, a VTL1 buffer, a function | a buffer that passes lies where it should, to the last byte; no race turns a good one away |
| Access restriction (`MemoryChecks.h`, `EnclaveHelpers.h`) | the system's setting, the probed meaning of TRUE, the once flag and its lock | enable once | nobody is inside an enclave that is not restricted |
| Call layer, Rust (`edlcodegen`) | the same with a read-write lock | the same | the same, and no lock held across a call that takes it |
| User-bound keys (`userboundkey.vtl1.cpp`, `.vtl0.cpp`) | sessions of the enclave and the handles to them on both sides, credential of each call, nonce of its last request, the host's credentials | create, load, challenge callback, close session, delete credential | each session closed once, by its one owner; no answer taken for another request's; a call ends |
| EDL lexer and parser (`LexicalAnalyzer.cpp`, `Parser.cpp`, `Structures.h`) | the tokens ahead, types, functions and unresolved names of each file, files parsed or being parsed, the next function number | tokenize, parse each construct, import, merge, validate | what is accepted means what is written, imports included; what is consistent is accepted; input always ends |
| Code generators, C++ and Rust (`CodeGeneration/`) | files written | definitions, schema, stubs, boundary functions, callback table; compile the schema | the halves of two runs fit; types are complete where they are needed; a parameter is carried in the directions it is declared for |
| Conversions (`ConversionHelpers.h`, the macros of `edlcodegen`) | none | struct to flatbuffer and back, call of the implementation | the values arrive |
| Command line (`main.cpp`, `CmdlineArgumentsParser.cpp`) | options | parse | options checked before anything is written |
| Logger, crypto, utilities, samples | handles | wrappers | pass-through |

**How they interact.** Every arrow between the halves of a component is a call
through the call layer. A call out keeps the enclave thread it was made on; a call in
blocks until an enclave thread is free, and there are
`IMAGE_ENCLAVE_CONFIG.NumberOfThreads` of them. The task pool holds promises in its
table and hands futures to its users; it reaches its own object from VTL0 by an id in
the weak table, and its destructor relies on the keepalive mechanism. A user-bound key call
goes out to the host, which asks the system, which calls back on another thread of the host,
which calls into the enclave again: two enclave threads for one call. The tool runs twice
for an interface, once for each half, and the two outputs meet only when a call is made.

**What is hard.** Threads of the pool, of its users and of the tasks interleave at
every lock and every call. Cancellation spans two tables on two sides with no lock over
both. The destructor overlaps with running tasks. VTL0 may call at any moment. The call
layer's failures come back as HRESULTs that the callers throw again, in destructors too.
A session's handle crosses the boundary as a number, twice, and any of the calls may fail.
In the tool the order of definitions, files and functions decides what is resolved, what is
complete and what the two halves call each other.

## Modules

### Taskpool

The core of the SDK, both halves in one module. Each thread has a counter `pc[c]`, and an
action is the code between two points at which another thread can look: a critical
section, one atomic access, or a call across the boundary.

| Code | Actions |
| --- | --- |
| constructor, `taskpool_make` | `StoreEntry`, `StartThread(w)`, `PoolMade` |
| `queue_task`, both halves | `StoreTask(c)`, `ScheduleTask(c)`, `NotifyOne(c)`; refused after the stop, the caller becomes "orphaned" in `~future` |
| `cancel_queued_tasks` | `CancelPeek(u)`, `CancelMark(u)`, `CancelClear(u)`, `CancelSwap(u)` |
| `future::get`, `~future`, `detach` | `GetStart(u, t)`, `GetReturn(u)`, `Detach(u, t)` |
| destructors of both halves | `DestroyBegin`, `HostStop`, `NotifyAll`, `JoinAll`, `EraseEntry`, `ReleaseHold`, `ProxyGone` |
| `thread_proc` | `CvWait(w)`, `SpuriousWake(w)`, `CheckStop(w)`, `CheckEmpty(w)`, `Dequeue(w)`, `Register(w)`, `EnterEnclave(w)`, `LeaveEnclave(w)` |
| `taskpool_run_task`, `run_task`, the task lambda | `ResolvePool(w)`, `TryTake(w)`, `CheckCancelled(w)`, `FinishTask(w)`, `ReleaseRef(w)` |

What the data became: a lambda is its id; a future is membership in `held`; a promise is
membership in `ready`. A task ends by return or exception alike, since both set the
promise. An HRESULT that `thread_proc` throws ends the process: `crashed` says why, and
nothing moves afterwards. `CallEnclave` is external; the model has it block until fewer than
`Slots` threads are inside, counting each user as inside for good (users live in the
enclave, and a call out does not give the thread back). A task takes two such calls: the first
registers the callbacks of an interface made for this task (`taskpool.vtl0.cpp:54`); it waits
for nothing inside, so `Register` enters and leaves in one step.

A user calls member functions under the C++ lifetime rule: none is inside one, or enters
one, once the owner destroys the pool. A task is different: it runs on a pool thread, the
destructor waits for it, and it may call `queue_task` meanwhile (`Nesting`).

### TaskpoolAbs

What the pool promises, without threads, queue or boundary: a task is new, queued,
running, done or dropped; cancellation drops what has not started; a must-finish pool closes
with nothing queued. `Taskpool!ImplementsAbs` maps the state: queued is being in the table,
running is having been taken out of it by a worker.

### Keepalive

The keepalive mechanism with the weak table and the shared state of its promise, with any
number of VTL0 callers that call as often as they like. It goes below the grain of
`Taskpool`, where "the last strong reference is gone" is one test (`ProxyGone`): here the
last owner to drop its reference signals the promise, under its lock, and the destructor
sleeps on the condition variable. `KeepaliveAbs` is what an object with automatic storage is promised by the
two, without references and promises: threads may come to use it while its id is known, nobody
comes after, and it goes when the last one has let go. `Keepalive!Abs` maps the protocol to it, and
`Taskpool!Object` the pool.

| Code | Actions |
| --- | --- |
| a call from VTL0 | `CallIn(c)`, `Resolve(c)`, `Use(c)`, `Drop(c)` |
| `~keepalive_object_proxy` | `Signal(c)` |
| destructor, `release_keepalive_and_block` | `Destroy`, `Erase`, `Drop(Owner)`, `WaitForReady`, `SpuriousWake` |

### Future

`promise` and `future` with values, exceptions and the rules that each is set and taken once.
Any number of threads hold the promise, and come with a value, an exception
(`MayFail`) or nothing (`MayAbandon`: a lambda that is destroyed without being run); one owns the
future. A critical section of the shared state is one action: `Set(c)` is `set_value` and
`set_exception`, `WaitForReady` one turn of the loop in `wait_for_ready`. `get` is `GetStart` or
`GetNoState`, then `WaitForReady`, then `Take`; `Destroy` goes the same way with `inDtor`
set, where an exception ends the program.

### AbiCall

Calls across the boundary, nested to any depth: the host calls an export
(`CallVtl1ExportFromVtl0Impl`, `CallVtl1ExportFromVtl1`), whose implementation calls back
(`CallVtl0CallbackFromVtl1Impl`, `CallVtl0CallbackImplFromVtl0`), whose implementation may call
an export again. A call is named by thread and depth; odd depths are exports. The state
is the host's heap, what each of its buffers holds and for which call, and the buffers each
call refers to: `params`, `context` and `result` are the enclave's `vtl0_memory_ptr`,
`returned` is the pointer in the call's context.

| Code | Actions |
| --- | --- |
| `CallVtl1ExportFromVtl0Impl` | `Call(t)`, `ReturnToHost(c)` |
| `CallVtl1ExportFromVtl1` | `EnterExport(c)`, `Implementation(c)`, `AllocateReturn(c)`, `WriteReturn(c)`, `Publish(c)` |
| `CallVtl0CallbackFromVtl1Impl` | `AllocateParams(c)`, `WriteParams(c)`, `AllocateContext(c)`, `WriteContext(c)`, `CopyContext(c)`, `CopyResult(c)` |
| `CallVtl0CallbackImplFromVtl0` | `EnterCallback(c)`, `Implementation(c)`, `Answer(c)` |
| destructors, in reverse order of construction | `Destroy(c)`, `Return(c)` |

Everything that returns an error may do so if `Faults` has its kind; then the destructors run and
the caller gets the error. Memory of the enclave's own heap and of the two stacks is scoped
and left out. Whether an implementation catches an error of a call it made is open: it goes
on or throws.

### UserBoundKey

`create_user_bound_key` and `load_user_bound_key` with the host's half and the challenge
callback, for any number of concurrent calls, names and cache options. `hold[c]` says which
session handle is where: in the return value of the attestation, in the host's
`unique_sessionhandle`, in the return value of the request, in the enclave's. `lost` has the
sessions whose handle went with a return that failed. `terminated` is an exception out of a
destructor. The system's side (credentials, challenges, the counting of nonces in a session)
is external, modelled by what the code relies on.

| Code | Actions |
| --- | --- |
| the two functions, to the callout | `CreateUserBoundKey`, `LoadUserBoundKey`, `FormatKeyName` |
| `userboundkey_establish_session_for_create`, `_load` | `Establish`, `RequestCreate`, `Open`, `RequestFails`, `Unwind` |
| the challenge callback | `Challenge`, `EnterEnclave`, `Attest`, `Set` (with `Reset` when it has a session already) |
| the two functions, after the callout | `Return`, `RequestContext`, `GetAuthContext`, `Protect`, `RequestSecret`, `Unprotect` |
| destructors | `DestroyHandle`, `CloseSession`, `DeleteCredential`, `DeleteFails` |

Resealing touches no state; whether a blob is stale is an input of a load. A load whose cache
option is not that of its credential fails as a system call does. `Lang` is the language:
in Rust a deletion that fails drops the reference, in C++ it ends the enclave.

### EdlTool and what it is made of

`edlcodegen.exe`, run once for each command line of a project, and calls through what it
wrote. `EdlBuild` and `EdlCalls` are the state machine, whose parameters are the methods of the parser
and the generators; `EdlTool` extends them with those of the tool (`ToolOpen`, `ToolMove`, ...), which
the configurations give to the parameters. So what the driver
does by itself can be proved for any parser, though the real one is recursive. The rest is pure:

| Module | Code | Contents |
| --- | --- | --- |
| `EdlLexer` | `LexicalAnalyzer.cpp`, `Utils.h`, `OrderedMap` | the next token; maps in order of insertion and their merge |
| `EdlTypes` | `Structures.h` | types and what an interface consists of |
| `EdlParser` | `Parser.cpp`, `Structures.h` | a parser is a record (`cur`, `next`, types, functions, unresolved names, `err`); each Parse method is a function from parser to parser, in the order of its checks; an exception sets `err`, after which nothing changes; `Then(p, Rest)` is the rest of a method unless one was thrown |
| `Codegen` | `Common/Helpers.h`, `BuilderHelpers.cpp` | directions of parameters, ABI names and structures, the schema |
| `CppFunctions` | `CppCodeBuilder.cpp`, `CppCodeGenerator.cpp` | what the C++ builder makes of functions: stubs, boundary functions, callback table; the steps of a run around the header of the developer's types (`CppSteps`); `CallsResolve` |
| `CppCodegen` | `CppCodeBuilder.cpp` | that header: structures in an order in which optionals are complete |
| `RustCodegen` | the Rust builder and generator | the same steps in Rust; `StubsReach` |
| `Marshal` | `ConversionHelpers.h`, templates and macros of Rust | what becomes of each argument of a call |
| `CommandLine` | `CmdlineArgumentsParser.cpp`, `CmdlineParsingHelpers.h` | the settings, or an error |
| `EdlBuild` | `main.cpp`, `ParseInternal`, `ParseBody`, `ParseImport` | the actions of the tool, below. The call stack of `ParseImport` is `frames`, a file and its parser each |
| `EdlCalls` | the generated files, built and called | the two halves beside each other, and calls through their stubs |
| `EdlTool` | all of it | the parameters' values, and the properties that look into parsers and types |

A step of a generator is to save a file, throw, or compile the schema. A saved file is a record of what
other files refer to: types, stubs, boundary functions, callback table.

| Code | Actions |
| --- | --- |
| `main`, command line | `LineRejected`, `ShowHelp`, `FailureToLoadFile`, `StartParsing` |
| `ParseBody`, one construct at a time | `Trusted`, `Untrusted`, `Enumeration`, `Structure`, `Import`, `UnexpectedToken`, `EndOfFile`, `Thrown` |
| generators | `SaveFile`, `SaveFails`, `GeneratorThrows`, `CompileFlatbufferFile`, `CompilerFails`, `Finished` |
| a caller of a stub | `Call("trusted")`, `Call("untrusted")` |

A word of a file is one value: whether it is a number, an identifier or punctuation is looked
up, and the rest of the text after an unclosed comment or string is a fault of that word.
The properties do not use the parser: `MCEdlTool` writes projects as syntax trees, prints
them to words, and says from the trees what they mean (`Meaning`, `WellFormed`).

### RangeCheck

`AbiCheckForVTL0Buffer` and `AbiCheckForVTL1Buffer` on addresses `0..Word - 1`, for every
buffer and length, by threads that compute the enclave's bounds at the same time: each access to
the two bounds and the flag is an action. The reference is the set of bytes that the
machine touches, with wrap-around.

### RestrictAccess

`EnableEnclaveRestrictContainingProcessAccessOnce`, at the start of each export, on a system that
takes TRUE for "restrict" and on one that takes FALSE. The system call is
external: `System(in)`. Its failure ends the process (`FAIL_FAST_IF_FAILED`).

### Definitions named as mutants

A definition whose comment starts with "Mutant:" is a plausible mistake in the
definition it precedes. None is used by a specification; replacing the definition by it must
violate a property, which shows that the property looks at that code.

## Runs

| Configuration | Instance | Shows |
| --- | --- | --- |
| `taskpool_finish` | 2 workers, 1 user, 3 tasks, 2 enclave threads, must finish | `FinishedAll`, `GetReturns`, `DestructorReturns`, `ImplementsAbs`, no deadlock |
| `taskpool_cancel` | 2 workers, 1 user who cancels, 3 tasks, may drop | `HandleResolves`, `DestructorReturns`, `ImplementsAbs` |
| `taskpool_nested` | 2 workers, 2 users, both cancel, tasks queue tasks, 2 tasks, may drop | `TypeOK`, `WorkConserving`, `PoolResolves`, `RunsAtMostOnce`, `CancelledStayOut` |
| `keepalive` | 3 callers | `TypeOK`, `UseIsAlive`, `SignalOnce`, `DestructorReturns` |
| `future` | 3 setters that may fail or abandon | `TypeOK`, `KeptOnce`, `Delivered`, `WakesUp` |
| `abi_call` | 2 threads, depth 4, 5 buffers; every fault but a context that cannot be read back | `TypeOK`, `NothingLeaks`, `OneOwner`, `ReadsOwn` |
| `range_check` | 2 threads, 8 addresses, enclave of 2 | `TypeOK`, `AcceptsOnlyGood`, `RejectsOnlyBad` |
| `restrict_access` | 3 threads, both systems | `TypeOK`, `RestrictedInside`, `GetsIn` |
| `user_bound_key` | 2 calls, 1 name, a known and an unknown cache option, 2 sessions, 3 enclave threads, every fault, C++ | `TypeOK`, `HandlesOwned`, `AnswersMatch`, `CallsEnd` |
| `edl_tool` | 9357 projects: some two thousand interfaces, of 1 to 5 files in C++ and of one in Rust; damaged texts; command lines | `TypeOK`, `MeansWhatIsWritten`, `SidesAgree`, `OptionalsComeFirst`, `ValuesArrive`, `Progress` |

Two more show where the code departs from what it says of itself:

- `taskpool_cancel_race`: a task stored between the two critical sections of
  `cancel_queued_tasks` is erased without being below the published id. The backing
  thread that dequeued its handle reaches the "Task handle doesn't exist" throw
  (`taskpool.vtl1.h:209`), and nothing in VTL0 catches it.
- `edl_shared_import`: a file that two others import is merged into the first of them only, so
  that the second, and the interface, is refused for a type that it does import. The comment
  at `Parser.cpp:1374` is of the opinion that parsing it once is enough.

More show in other instances, without a configuration of their own:

- `taskpool_cancel` with `Nesting = TRUE`: `DestructorReturns` fails. A task that queues after the
  stop is refused, unwinds through its own future and waits for ever; so does the "Blocking
  destructor".
- `abi_call` with `Faults <- ContextFault`: `NothingLeaks` fails. When a callback has succeeded
  and its context cannot be copied into the enclave, the result's buffer is leaked, though the
  comment after the copy wants to "Make sure returned params are freed". `LeaksOnlyAnswers` proves
  that nothing else leaks.
- `edl_tool` with `INVARIANT CppValuesArrive`: fails. The C++ stub of a function that returns
  nothing and has an `[out]` parameter copies from `return_params`, which the template for void
  functions does not declare (`CppCodeBuilder.cpp:423` and `:436`). `ValuesArrive` is the same
  property without the functions that `Broken` names: these, and in Rust those with an `[out]`
  structure, wide string (unless in an array) or optional, where the caller's default is an empty Option that
  the other side expects to be full.
- `user_bound_key` with `EnclaveThreads = 2`: `CallsEnd` fails. Both calls wait for challenges
  that wait for a thread.
- `taskpool_finish` with one worker and `Slots = 1`: `DestructorReturns` fails. The owner holds the
  enclave's only thread while its destructor waits for a task that needs it, where the note on
  thread counts says that the pool "won't deadlock" (`taskpool.vtl1.h:109`).
- `taskpool_finish` without workers, what the formula of that note gives for an enclave with one
  thread: `FinishedAll` fails, the pool closes with its tasks unrun.
- `future`, where setters may abandon: a promise that is destroyed unset, as that of a cancelled
  task is, leaves `wait_for_ready` waiting for ever, where a `std::future` would be told.
- `future`, where setters may fail: a future that goes out of scope with an exception in it ends
  the program (`crashed`), for `~future` rethrows.

What `edl_tool` does not claim, because the code does otherwise and says nothing: an interface may
be refused, or lose what a name means, when a type is used ahead of its definition (`UsedAhead`);
of two types or functions of one name in different files, one is dropped silently (`Twice`); an
enum after a structure that uses it makes the schema builder throw `std::out_of_range`
(`GeneratorThrows`). One thing it excepts although the tool's help says otherwise: a command line of
enough options without `--Language` reads the file, generates nothing and succeeds
(`main.cpp:51-84`), while the help lists `--Language` as mandatory (`CmdlineParsingHelpers.h:28`);
`MeansWhatIsWritten` names the case, and fails without it.

**Bounds.** `MaxTasks` bounds the calls to `queue_task`, in the guard of `StoreTask`;
nothing else is bounded in `Taskpool`. Two workers are the least that race for a handle and
of which one may sleep while the other works; three tasks let one run, one be dequeued
and one wait; two users are the least that queue beside a canceller. `taskpool_finish` gives
two workers a single enclave thread, so that they also queue for it. With
both users cancelling and tasks that queue, two tasks keep the run short and still reach every
step of the known race.
`Keepalive` counts signals to 2.
In `AbiCall` `MaxDepth` and `Buffers` are the bounds: a callback in flight holds three buffers, so
that four or five let one thread finish while another is refused; the heap running full
is one of the cases, and a buffer that could not be freed stays "lost". Eight
addresses hold an enclave with room on both sides of it, and buffers that touch, overlap, contain it and run over the top. Symmetry is used only in runs without temporal
properties. `CHECK_DEADLOCK FALSE` stands where the model has states without a successor:
orphaned callers, futures of dropped tasks that are waited for, and crashes (the last are
modelled as a stuttering `Halted`). `Finished` is the stuttering end of a program that destroyed
its pool and gave up its futures; `taskpool_finish` checks that it ends nowhere else.

In `UserBoundKey` `MaxSessions` bounds the sessions open at a time, and the system refuses
another; two let each call have one, or one call have a second while the first is closed, and
let a closed handle be given out again while a stale copy could still be around. `MaxKeys`
bounds credentials ever made (two: one that replaces another), `MaxCreate` and `MaxOpen` the
challenges of one request (two, and one), `MaxLost` the sessions lost for good (one; each
further one only makes fewer). Three enclave threads are one more than calls.
The projects of `MCEdlTool` are every one, pair and triple of ten items, all orders of some
fours, and 1008 projects of up to five files that import in rows, diamonds, circles and
not at all; texts cut at each word, with each word removed or replaced by each of ten; and all
pairs and triples of 18 options. They reach every action, error and branch of the generators
that the map names; numbers stop at `MaxU64 = 3` so that they overflow.

**Fairness.** Weak fairness for each thread's own steps (`QueueStep`, `CancelStep`,
`WorkerStep`, `OwnerStep`, `GetReturn`): a started thread is scheduled and a lambda
returns. None for `Choice`: nobody is obliged to queue, cancel, wait on a future or destroy,
and no spurious wake-up can be relied on. Entry into the enclave and the mutex need no
strong fairness: a mutex is held for one action only, and in the runs that
check liveness a worker that waits for an enclave thread is passed over only by one that
has a handle, of which there are finitely many, and with which it enters twice. In `Keepalive` callers are fair
once they are in a call, and may call for ever: `DestructorReturns` has to come from the
erased id. In `Future` the setters and the owner's wait are fair, the owner's choices are not.
In `RestrictAccess` a thread is fair once it has called; the lock needs no more, for each thread
takes it at most once before the work is done. In `UserBoundKey` a call's own steps
are weakly fair, a request ends only when no challenge of it is under way (`Run`), and the
steps on the host's threads are strongly fair (`HostStep`): `CallEnclave` serves those who wait
for an enclave thread in turn, but another may be in between each time. Nobody is obliged to
begin a call or to challenge. `EdlTool` has no fairness: `Progress` is an action property, a
measure that every step of the tool decreases.

## Proofs

Eight modules hold the theorems about `Safety` (`Init /\ [][Next]_vars`; `ToolSafety` where stubs are
called), each named after its component: `TaskpoolProofs` (its invariants are in `TaskpoolInv`, so that TLC can check them),
`KeepaliveProofs`, `FutureProofs`, `AbiCallProofs`, `UserBoundKeyProofs`, `RangeCheckProofs`,
`RestrictProofs`, and `ToolProofs` for the tool and what it generates. Each theorem is for all values of the
constants under the assumptions next to their declaration (`TaskpoolAssumption`, ...). Where
threads are counted there is one more, that they are finitely many (`FiniteThreads`,
`FiniteCallers`).

**The task pool**

1. `PhaseInv` ties the owner's counter to the pool's phase, the stop flag, the weak entry
   and the threads that exist. `Lifetime` and `PoolResolves` alone are not inductive: they need
   that the entry and the owner's reference go only after the join, and that every worker
   has exited then. Gives `Typing`, `LifetimeHolds`, `PoolAlwaysResolves`.
2. `IdsOnce`: an id that is running is neither stored nor done, and every id in sight
   is below the next one, so none can be handed out again. Gives `RunOnce` and
   `CancelledGone`, without any hypothesis on who cancels.
3. `OnePlace`: an id on its way to `try_take` is in one place only, so another
   worker's `try_take` cannot remove it. `Resolvable`: what is on its way is stored or below
   the published id. The second holds if nothing queues while it cancels
   (`CancelSafe`: nobody cancels, or one thread does everything and tasks do not
   queue), and fails otherwise, as `taskpool_cancel_race` shows. Gives `HandlesResolve`.
4. `Drained`: everything stored has a place, a worker exits only from a stopped pool with an
   empty queue, and every id handed out is stored, running, done or cancelled. Needs
   `Workers # {}`. Most steps move no id and send nobody
   back; `QuietDrained` disposes of them at once. Gives `FinishesAll`.
5. `ConservesWork`: `WorkConserving` is inductive by itself, given `TypeOK`; the proof counts.
   A step either leaves the three numbers alone (`KeepsConserving`), adds a handle and its
   notifier together (`ScheduleConserves`), turns a notifier into a searcher (`NotifyConserves`),
   or takes a handle together with the searcher; the last searcher blocks only on an empty queue.
6. `Implements`: every step maps, under `StatusOf`, to a step of `TaskpoolAbs` or a stutter. This
   is the safety part of `ImplementsAbs`. The invariant is all of `Inv`; the hypothesis
   (`MustFinish => CancelSafe /\ Workers # {}`) is needed, for the abstract pool closes a
   must-finish pool only when nothing is queued in it.
7. `DestructorServed`, `GetServed`: in every state where somebody waits for the destructor or
   for a future, some thread can take a step (`Moving`), unless a task that queued
   after the stop waits for ever (`Stranded`). `WorkerMoves` and `UserMoves` say when a
   thread's own step is enabled; ENABLED itself is beyond the prover, and TLC found the two to be
   the same in every state of the instances. `Served` is what it takes: nobody sleeps through
   the stop, only a task that queues can be stranded, a future is of an id handed out. The
   hypothesis `Roomy` (an enclave thread more than users are inside) is needed: without it the
   run of `taskpool_finish` with `Slots = 1` stops.

**Keepalive and futures**

8. `Keepalive!IInv`: the counters tell who owns a reference, and one thread at
   most is about to signal, only when nobody owns one. Gives `AliveWhenUsed`, `SignalledOnce`.
   `InHand` adds that a promise not yet set is in somebody's hand. Gives `WaitsForSomebody`: the
   destructor sleeps on no promise that is set, and not while nobody will set it.
9. `FutureProofs!Bookkeeping`: the state is set exactly when a setter was accepted, and holds
   that setter's offer until it is taken. Gives `SetOnce`, `DeliversWhatWasKept`. `Awake`: nobody
   sleeps once the state is set. Gives `WaitsForSetter`.

**The call layer**

10. `RangeCheckProofs!IInv`: whoever is about to compare finds both bounds written, and a verdict
    agrees with the true bounds; `CheckDecides` relates the comparisons to sets of bytes.
    Gives `Sound`, `Complete`, under `RangeCheckAssumption` only.
11. `RestrictProofs!Progress` says what the thread with the lock has done so far. Gives
    `Restricted`, `Reverts`.
12. `AbiCallProofs!CallInv`: `Owner` is `OneOwner` call by call, `Wrote` what each point of a call
    knows of its buffers. `Frame` reduces a step to the call that makes it: another call's
    buffers carry that call's name, so they cannot be the ones written or freed. Gives `OwnedOnce`,
    `ReadsWhatWasWritten`, for any nesting, any heap and any faults.
13. `AbiCallProofs!LeakInv`: a buffer in use is in a slot of some call, or is the answer of a
    callback that succeeded and whose context could not be copied in. `NothingLeaks` is not inductive, for it
    speaks of the end of a call only. Gives `LeaksOnlyAnswers` under every fault: what the
    fault of a context leaks (below "Runs") is all that can leak. `LeaksNothing` is `NothingLeaks`
    when `Faults` lacks that one, whatever else it has.

**User-bound keys**

14. `TypeOK` and `HandlesOwned` together, and neither is inductive
    alone: that a closed session was not among the lost ones needs that its handle had one place
    only, and that handles move to places of their own needs where a call may hold one. Gives
    `Typing`, `Owned`, for any number of calls, sessions, names, threads and faults.
15. `MatchInv`: the store has the newest credential of each name (`Newest`), and a call knows of its
    credential that it is the blob's, or of another name, or made since (`Match`). Credentials are
    never taken back (`KeysGrow`), so what a call has learned stays true. Gives `Matches`.
16. `Served`: a call that is not over can go on (`GoesOn`), or a callback is in the enclave and
    will leave it. A thread is free while no callback is inside, for each call has at most one
    then. It needs `Cardinality(Callers) < EnclaveThreads`, and fails without. `GoesOn` is
    what the fair steps need to be enabled; TLC found it to be the same in every state of
    `user_bound_key`.

**The object's life**

17. `KeepaliveProofs!Implements`: every step of the protocol is one of `KeepaliveAbs` or a stutter. The object goes
    there when nobody uses it, here when the promise is seen to be set; that the first follows from the
    second is `UseIsAlive` with its strengthening.
18. `TaskpoolProofs!KeptAlive`: so is every step of the pool, whose test for the last reference
    (`ProxyGone`) is one action. `EntryMatch` says that the entry in the weak table and the phase of the
    pool go together; the workers who use the object are those that hold a reference. That the two
    models implement the same specification is what justifies the coarser grain of `Taskpool`.

**The tool** (`ToolProofs`)

19. `CppStubsDeliver`, `RustStubsDeliver`, about the operators: a call through what is generated for `f` does what it
    should exactly when `f` is not `Broken`, parameter by parameter (`CppParameter`,
    `RustParameter`). `Accepted(f)` is the hypothesis: parameters have names of their own and each is
    `[in]`, `[out]` or both. A parameter marked `[]`, which the parser takes and the generators
    treat as `[in, out]` in some places and as neither in others, is not covered.
20. `CppLayersFit`, `RustLayersFit`: `CallsResolve` and `StubsReach` hold of what the
    generators write for any interface whose functions are `Numbered`, each with a name of its own at the
    boundary, and none with that of the function that registers the callbacks. `Mapped`,
    `Table` and `OneMore` are the lemmas on sequences that they rest on.
21. `BuildTyping`: the files marked as being parsed are those of the frames, each once. The invariant
    `Parsers` adds that the frames are a sequence. `Exact` is the relation of the two, with a lemma for
    each thing a step does to the stack: `ExactInPlace`, `ExactPush` (an import of a file not seen),
    `ExactPop`. Holds for whatever the parser, the disk and the generators are.
22. `BuiltFromOneSource` (`OneSource`): in a finished build of lines that name the same file and import
    directories, every file of either layer is what the generator makes of the *one* interface that
    the last run read. The runs share no state, so the argument is that parsing is a function of
    texts and settings: `Turn` is the next state as a function of the last, `Reads` says that the present one
    is at the end of a trace of turns, and two traces from one start agree (`TracesAgree`; its
    induction is a least counterexample, `Minimum`). `Result` is what a trace leads to, and
    `AllSourced` keeps for each file on the disk the run that wrote it.
23. `BuiltCompletely` (`NothingMissing`): no half lacks a file that its generator makes, and no
    generator threw. `Kept`: each line of the project is still to run, is the one being run, whose
    steps are still to do or on the disk, or is done with all its files on the disk. Files are
    overwritten and never removed.
24. `HalvesFit`: `SidesAgree`, for every build. 22 and 23 say what is on the disk (`RustBuilt`, `CppBuilt`),
    20 that it fits. Its premise on the interface is `ToldApart`.
25. `CallsDeliver`: `ValuesArrive`, for every build and call. The last call was one through the files that
    are still there (`Calling`), and 19 says what it does. Its premise is that the lines
    differ in the layer only (`OneInterface`) and that the function called is `Accepted`.

`BuildAssumption`, which TLC evaluates for the projects of `edl_tool`, says that a project has a line
to run and that the end of text is no keyword. Of the generators, 22 and 23 assume that they make
sequences of steps (`Stepwise`), and 24 and 25 what `ToolGenerator` is by definition (`Generates`): the
generator of the settings' language, under the settings' layer and namespace, where what the C++ one
makes of the developer's types is left open but for depending on the interface only. The first
follows from the second (`GeneratesSteps`). Both are about every interface and all settings, so TLC
cannot evaluate them and they are hypotheses of the theorems and not an `ASSUME`. The premises on
interfaces, `Numbered` and `Accepted`, are what
the parser has to make sure of by looking at text: `MeansWhatIsWritten` checks them (`InForm`) of each
interface that `edl_tool` reads, but for parameters marked `[]`.

TLC checked each of the invariants of 1 to 18 on the instances above before it was proved, both
mappings to `KeepaliveAbs` included, and of the tool `TypeOK`, `OneSource`, `NothingMissing` and the premises of
24 on that of `edl_tool`. `OneSource` and `NothingMissing` are not properties of the run,
for `SidesAgree` and `ValuesArrive` are violated by the same mistakes.

**Only model-checked.** Everything under fairness: `GetReturns`, both `DestructorReturns`, `WakesUp`,
`GetsIn`, `CallsEnd`, and the liveness of `ImplementsAbs`; liveness and ENABLED are beyond the
prover, and 5, 7, 8, 9 and 16 are the safety halves of theirs. Of the tool, what its parser makes of text
and the C++ builder of the order of structures, which goes by recursion over text and graphs and so is
beyond it too: `MeansWhatIsWritten`, `OptionalsComeFirst`, and `Progress`, whose measure
goes down because each method of the parser uses up text. `SidesAgree` and `ValuesArrive` are proved
under the premises of 24 and 25; that the parser meets these is in `MeansWhatIsWritten`, and so only
checked. `LifetimeHolds` and `Reverts` are proved and not run:
`PoolResolves` and `RestrictedInside` are violated by the same mistakes.

## Not modelled

- In the pool: a constructor that fails half-way, `cancel_queued_tasks` from inside a task,
  a task that waits for another task's future, moved-from pools, failures of the call layer.
- Ids do not wrap: they are 64 bits wide and grow by one per call.
- `unique_object_table::take` (nothing calls it); moving a future.
- In the call layer: the callback table (a failed lookup is a failing call), the fields' sizes,
  and that the enclave reads a context the host may change meanwhile.
- In the tool: characters (a word is a value), the text around what is generated, the flatbuffer
  compiler and the C++ and Rust compilers, except that a stub that refers to something
  undeclared does not compile.
- In user-bound keys: the cryptography, the fields of the cache configuration besides its option,
  reference counts of host objects (the C++ host never releases a credential's,
  `userboundkey.vtl0.cpp:462`), the empty report of the Rust attestation.
- Wrappers over Windows APIs, the C++ support library, the Rust SDK, samples, tests and build
  files: pass-through, without state of their own.
- The callback table of both call layers, and the rest of the Rust call layer: planned below.

## Plan

Done: the pool, keepalive, futures, the C++ call layer, the range checks and the restriction;
user-bound keys; the tool from command line to calls. Left, in order:

1. `CallbackTable`: registration once, lookups beside it, the C++ flag and the Rust lock held
   across a call. *A registered callback is found*, with its proof.
2. An abstract key service (a blob is opened only by the credential it was made with) refined by
   `UserBoundKey`, and an abstract future refined by `Future` and by the futures of `Taskpool`.
3. For the pool: failing construction, tasks that cancel. For the tool: projects in Rust that
   import.
