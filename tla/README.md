# Luminal in TLA+

Luminal is an async runtime for Rust: futures are spawned as tasks, polled by
worker threads that steal work from each other, and waited for with
`JoinHandle.await` or with `block_on`, which polls other tasks while it waits.
A second, much smaller executor serves `no_std` programs.  This directory holds
TLA+ models of both executors, of the thread-local runtimes behind the global
functions, and of the memory of wakers; what TLC checks of them, and what TLAPS
proves.
Paths such as `executor.rs:104` are relative to `src/src/runtime/`.

## 1. The system

| Part | Code | State it keeps | Operations | Model |
|---|---|---|---|---|
| Executor | `executor.rs` | global queue (`Injector`), shutdown flag, worker handles, `tasks_processed`; shared through an `Arc` | `new`, `spawn`, `block_on`, `run`, `stats`, `drop` | `Executor` |
| Worker | `worker.rs` | a FIFO deque, the stealers of other deques | `run`, `run_task`, `steal_work` | `Executor` |
| Result channel | `join_handle.rs` | one-shot channel (std), one-slot queue (no_std) | send by the wrapper future, `poll`, `try_recv` | `Executor`, `SimpleExecutor` |
| Runtime, Handle | `runtime.rs`, `handle.rs` | a clone of the executor's `Arc` | forward to the executor, `clone` | `owners` in `Executor` and `SimpleExecutor` |
| Waker | `waker.rs` | a boxed `WakerData` per waker: task id, `Arc` of the queue | clone, wake, drop | `Memory`; that wake does nothing, in all |
| Task | `task.rs` | id, boxed future | `new`, `poll`, `default` | a task is a member of `Tasks` |
| SimpleExecutor | `simple_executor.rs` | bounded queue behind a mutex, counter | `spawn`, `block_on`, `stats` | `SimpleExecutor`; its lock in `Memory` |
| Thread-local runtime | `runtime.rs:202-336` | one `Runtime` per thread, made on first use | global `spawn`, `block_on`; start and end with the thread | `Runtimes` |
| Errors | `error.rs` | none: no `RuntimeError` is ever constructed | | no |
| User code | tests, README | | what it asks of the runtime | `Program` (external) |

**How the parts interact.**  `spawn` wraps a future so that its result is sent
through a channel, and pushes it on the global queue.  A worker drains its own
deque, looks at the shutdown flag, then moves a batch from the global queue to
its deque, or from the deque of another worker.  `block_on` spawns its future
and polls tasks *from the global queue only*, on its own stack, until it finds
a result.  Whoever polls a task pushes it back on the global queue when it
returns Pending.  `Executor::drop`, run by whichever thread drops the last
clone, raises the flag and joins the workers.

**What is hard here, and what makes each part correct.**

* *Tasks move between n + 2 kinds of places* (queue, n deques, stacks of
  threads) without a common lock.  Correct: a task in flight is in exactly one
  place, and one that is not is in none.
* *There is no waking.*  A Pending task is polled again only because its poller
  pushed it back.  Correct: every spawned task resolves.
* *`block_on` nests.*  It polls foreign tasks on top of its caller's frame, and
  these may call `block_on` in turn.  Correct: it returns when the task it waits
  for can complete.
* *Ownership ends the runtime.*  A future that calls the runtime owns a clone of
  it, so that the last clone may be dropped by a user thread, by a task on a
  worker, by a destroyed task, or while a panic unwinds.  Correct: nothing is
  destroyed that somebody waits for, and after the drop nothing is left.
* *Panics* are caught nowhere: they unwind nested tasks and end workers, whose
  deques die with the last thread that can reach them.
* *The no_std queue is bounded* and its overflow is ignored; a rejected task is
  destroyed under the queue's lock.
* *Runtimes nest.*  A task that calls the global `spawn` gives its worker's
  thread a runtime of its own, with as many workers again.  Correct: a task stays
  with the runtime it was spawned on, and when a thread ends everything below it
  ends first.
* *Wakers outlive everything.*  They are raw pointers behind a hand-written
  vtable.  Correct: each `WakerData` is freed once, after its last use.

`PROJECT.json` lists these hazards at their lines, with the properties that are
about them, and the one that no property covers.

## 2. Modules

| Module | Contents |
|---|---|
| `Program` | User code: for each task and user thread a finite script of spawn, await, block_on, run, yield and panic |
| `TaskContract` | The abstract specification: the life of a task and of its result, whatever the queues and threads |
| `Executor` | The std executor, its workers, channels, reference count and drop |
| `ExecutorProps` | Its invariants, action properties, liveness, and the refinement mapping to `TaskContract` |
| `MCExecutor` | Small programs for TLC; one `.cfg` per run |
| `SimpleExecutor`, `SimpleProps`, `MCSimple` | The same for the no_std executor |
| `Runtimes`, `RuntimesProps`, `MCRuntimes` | The thread-local runtimes of all threads, how they start and end |
| `Memory`, `MemoryProps`, `MCMemory` | What tasks and wakers own, and the lock of the no_std queue |
| `QueueLemmas` | What append, pop, batch steals and concatenation do to the elements of a queue, and to its freedom from duplicates |
| `ExecutorProofs` | The types of the std executor |
| `ExecutorBooks` | That it neither copies nor mislays a task |
| `ExecutorContract` | That it implements `TaskContract` |
| `ExecutorEnds` | How its workers steal and count, in which order tasks wait, who holds the runtime, what `block_on` may rely on, and what the drop leaves |
| `SimpleProofs` | The no_std executor: types, where its tasks are, when the queue has room, what it leaks, and that it implements `TaskContract` |
| `MemoryProofs` | All invariants of `Memory` |
| `RuntimesProofs` | `Runtimes`: types, that tasks stay home, how runtimes end and what they leak, and that together they implement `TaskContract` |

`SimpleExecutor` and `Executor` differ in every action that touches the queue;
they share `Program`, `TaskContract` and the way code on a thread is described.
`Runtimes` composes many executors, each reduced to what the others see of it,
and is shown to keep the same `TaskContract`.  `Memory` is about what the other
modules leave out of the no_std executor: ownership other than of the `Runtime`.

### From code to model

**Code on threads.**  `stack[th]` is what thread `th` is in the middle of: a
user thread's own code at the bottom, a polled task, a task polled by that
task's `block_on`, and so on.  Only the innermost frame acts.  `ip`, `mode` and
`tries` (the `for _ in 0..4` of `block_on`) belong to the code, not to the
thread, because a task that yields may continue on another thread.

**Granularity.**  One action is one operation on shared state: a push, a steal,
a `try_recv`, a load of the flag, the drop of an `Arc`.  Between a poll's result
and what the poller does with it there is no other shared access, so the
poller's push (or count) and the return from the poll are one action.

**crossbeam's queues** (`Injector`, `Worker`, `Stealer`) are external and taken
as documented: linearizable FIFO queues, `steal_batch_and_pop` takes some
unspecified number of tasks from the front, and any steal may answer `Retry`.

**Steals** (`worker.rs:173-221`) keep the control flow of the code: a batch from
the global queue, on `Retry` one plain steal, then the other deques in order,
each with its own single retry.  `NumStealers(w) = w + 1` is
`executor.rs:104`: `stealers.clone()` is taken inside the loop that fills it.

**The end.**  `owners` is the set of pieces of code that hold a clone.  When it
becomes empty the thread that emptied it is put in `joining` and does nothing
but `JoinNext`, `JoinSelf` and `DropDone` until the drop is done.  A worker that
leaves its loop drops its deque and its stealers: `LastHolder(w, j)` says that
no other worker can still reach deque `j`, whose tasks then are destroyed.
`JoinSelf` is a worker that joins itself; where the platform reports that
deadlock, `join` panics, so the step is there; nothing says it happens, because
on other platforms it does not.  A panic raised while unwinding sets `aborted`.

**What a task leaves behind.**  `Destroy` closes its channel.  With std, a reader
of a closed channel sees Disconnected: `block_on` panics, `JoinHandle::poll`
answers Pending (`join_handle.rs:99-104`).  Without std there is no such state.

**Thread-local runtimes** (`Runtimes`).  A runtime is named by the thread whose
`THREAD_RUNTIME` it is: `runtime[th]` is its state, `queue[th]` the tasks in its
injector and deques (one set: which queue a task is in is the subject of
`Executor`), and `home[w]` says whose worker thread w is.  `spawn` and `block_on`
of `Program` are the global functions here.  The first call on a thread runs
`StartRuntime`, one `StartWorker` for each worker, which begins at once, and
`StoreRuntime`; `StartFails` is the `expect` of `executor.rs:113`.  `Source` is
the queue that a poller puts a pending task back on: that of the worker's
runtime for the task at the bottom of its stack, that of the thread's own for
what its `block_on` polls.  A thread whose closure is over is `ending` while the
destructor of `THREAD_RUNTIME` runs `ExecutorInner::drop`: `DropRuntime`, then
`DropDone` once every worker is dead, which a worker is only after its own
thread-local runtime is gone.  Which tasks only a leaving worker's deque holds
depends on the deques, so that `Leave` destroys any subset of the queue.

**Memory of wakers** (`Memory`).  `heap` is the set of addresses of `WakerData`
that are allocated, `held[p]` the wakers at p: those of the poll a thread is in,
those stored in a task's future, and those that user code keeps elsewhere.
`wake` takes a waker out of `held` and frees nothing; `woken` remembers it for
the properties.  `ReleaseQueue` says that the queue, and the tasks in it, live
until the executor's share and those of all `WakerData` are gone.  `lock` is the
mutex: an operation that takes and returns it is one action, except a push onto
a full queue, which destroys the task before the guard (`Push`, `Reject`), and
calls the executor in the destructor of a `Reentrant` task (`CallBack`).
`block_on` inside a poll and what destructors do elsewhere are not in this
module; the wakers of the std executor differ in the type of queue only.

**Left out**, because no property depends on it: task ids (copied into handles
and wakers, read by nothing), backoff and sleeping (scheduling only), and what
futures compute.  A waker that user code stores keeps the std injector alive,
too; user code of `Program` stores none, and `DropIsFinal` says nothing of code
that does.

## 3. Runs

All instances are small because each needs few actors to go wrong: a helper, a
worker and the tasks between them.

| Run | Instance | Shows |
|---|---|---|
| `executor_safety` | 2 workers, 2 user threads, 3 tasks, eight programs, panics included | all safety invariants, order in the global queue and the deques, refinement of `TaskContract` |
| `executor_progress` | 2 workers, 2 tasks, fair | every task resolves, user threads return, the drop completes |
| `executor_stacked` | 1 worker, 4 tasks, fair | *violation*: see 5.1 |
| `executor_stranded` | 2 workers, 3 tasks, fair | *violation*: see 5.2 |
| `executor_orphan` | 1 worker, 2 tasks, fair | *violation*: see 5.3 |
| `executor_stats` | 1 worker, 2 tasks | *violation*: see 5.4 |
| `executor_self_join` | 1 worker, 3 tasks | *violation*: see 5.5 |
| `simple` | 2 user threads, 2 slots, programs of 2 and of 3 tasks, fair | nothing is lost while there is room, overflow keeps the books straight, `TaskContract`, every `block_on` returns |
| `simple_requeue` | the same with 1 slot | *violation*: see 5.6 |
| `runtimes` | 1 user thread, 2 workers per runtime, 3 tasks, at most 6 threads, fair | tasks stay home, a runtime ends with all below it, only failed starts leave workers, `TaskContract`, every user thread ends |
| `runtimes_start` | one program of the same | *violation*: see 5.7 |
| `memory` | 2 threads, 3 tasks (one with a destructor), 1 slot, 4 addresses | wakers are sound, only wake leaks, the lock is held over no poll and only over what a full queue rejected |

**Bounds.**  `HelpLimit` is 2 for the code's 4, `BatchLimit` 2 for 10: what
matters is that the loop can end by its limit, by an empty queue and by `Retry`.
Two workers are the fewest with which a task changes deques and with which one
worker lacks a stealer; that no larger number copies or mislays a task is proved
(section 4).  `Capacity` is 2 for 1024 in `simple`, with programs that spawn
exactly as many tasks and programs that spawn one more.  Six threads are a user
thread and two full runtimes, or three generations with the last one failing to
start for lack of threads; when `MaxThreads` is reached `StartFails` is the only
way on, which is what the bound of a system does.  Four addresses are the poll's
waker of each thread, one stored in a task and one kept outside; when all are
taken no waker is cloned and no task polled until one is dropped.  The addresses
and the threads of `memory` are interchangeable and declared symmetric; it has
no liveness property.  Scripts are finite and each future is spawned once, as in
Rust, so that no counter needs a cap.  Deadlock is checked in all runs but
`memory`, where a thread that locks again in a destructor stops for good, with
all others after it: that is what the code does.  Elsewhere `Next` allows
stuttering only in `Ended`.

**Fairness.**  `FairSpec` assumes weak fairness of each thread, which is what an
operating system gives, and strong fairness of each thread's successful steal
from the global queue and from deques: crossbeam answers `Retry` when another
thread won the race, so a thread cannot lose for ever against queues that are
touched finitely often.  Nothing is assumed of `JoinSelf`.  The no_std model
needs weak fairness only.  In `Runtimes`, where a thread's loop is not broken
down into its queue operations, strong fairness of `Recv` says that `block_on`
looks at its channel after every few polls, and of `Quit` that a worker comes
back to the shutdown flag once its deque is drained, which nothing fills during
the drain.  `StartFails` and the programs' panics may happen or not.  Awaiting a
task that was lost is endless (5.3), but it keeps only a worker busy, and workers
look at the flag between polls, so that `UsersEnd` holds in spite of it; a user
thread that itself waits for such a task is in `executor_orphan`.

**Mutants.**  Each property is broken by a plausible bug, given next to the
definition it changes: a forgotten push, a copy instead of a move, an early or
late bound, a loop that is not left, a flag not read, a task pushed on the wrong queue, a clone that shares its
allocation, a lock guard that lives too long.

## 4. Proofs

Every invariant and every action property that a passing run checks, and all
three refinements of `TaskContract`, are theorems, for every set of programs,
tasks and user threads, every number of workers and every limit.

| Theorem | States | Assumes |
|---|---|---|
| `ExecutorProofs!TypeCorrect` | `TypeOK` | `ExecutorAssumption` |
| `ExecutorBooks!NoTaskIsCopied` | `NoTaskTwice` | `ExecutorAssumption` |
| `ExecutorBooks!NoTaskIsMislaid` | `NothingMislaid` | `ExecutorAssumption` |
| `ExecutorContract!ImplementsContract` | `KeepsContract` | `ExecutorAssumption` |
| `ExecutorEnds!StealsWhenDry` | `StealsOnlyWhenDry` | `ExecutorAssumption` |
| `ExecutorEnds!LinesAreKept` | `NobodyOvertakes` | `ExecutorAssumption` |
| `ExecutorEnds!CountsAreSafe` | `CountsNoMoreThanDone` | `ExecutorAssumption` |
| `ExecutorEnds!HeldMeansAlive` | `OnlyShutdownDestroys` | also `HandleAssumption` |
| `ExecutorEnds!BlockOnStaysConnected` | `BlockOnIsSafe` | also `HandleAssumption` |
| `ExecutorEnds!DropLeavesNothing` | `DropIsFinal` | also `HandleAssumption` |
| `SimpleProofs!TypeCorrect` | `TypeOK` | `SimpleAssumption` |
| `SimpleProofs!NoTaskIsCopied` | `NoTaskTwice` | `SimpleAssumption` |
| `SimpleProofs!NoTaskIsMislaid` | `NothingMislaid` | `SimpleAssumption` |
| `SimpleProofs!RoomIsEnough` | `RoomForAll` | `SimpleAssumption`, finitely many tasks |
| `SimpleProofs!LeaksAreCycles` | `LeftoversNeedCycle` | `SimpleAssumption` |
| `SimpleProofs!ImplementsContract` | `KeepsContract` | `SimpleAssumption`, a user thread, finitely many tasks |
| `MemoryProofs!TypeCorrect` | `TypeOK` | `MemoryAssumption` |
| `MemoryProofs!WakersStaySound` | `WakersAreSound` | `MemoryAssumption` |
| `MemoryProofs!WakeLeaks` | `OnlyWakeLeaks` | `MemoryAssumption` |
| `MemoryProofs!DeadTasksOwnNothing` | `DeadOwnNothing` | `MemoryAssumption` |
| `MemoryProofs!WakersKeepLeftovers` | `LeftoversNeedWaker` | `MemoryAssumption` |
| `MemoryProofs!LockIsShort` | `LockedOnlyToReject` | `MemoryAssumption` |
| `RuntimesProofs!TypeCorrect` | `TypeOK` | `RuntimesAssumption` |
| `RuntimesProofs!TasksAreAtHome` | `TasksStayHome` | `RuntimesAssumption` |
| `RuntimesProofs!LeaksAreFailedStarts` | `OnlyFailedStartsLeak` | `RuntimesAssumption` |
| `RuntimesProofs!GoneForGood` | `GoneIsFinal` | `RuntimesAssumption` |
| `RuntimesProofs!ImplementsContract` | `KeepsContract` | `RuntimesAssumption` |

The assumptions say that there is at least one worker and one user thread
(std), that the limits and the capacity are positive, and that tasks, callers,
workers and the markers that stand for none of them are different things.  TLC
evaluates them in every run.  `HandleAssumption` says that a task which one
`block_on` waits for is named by no other `await` or `block_on`: `block_on` takes
its future by value and keeps the `JoinHandle` in a local variable
(`executor.rs:259-271`), so that Rust has no program of another kind.  Without
it somebody else could take the result, and `block_on` would find its channel
disconnected with no panic anywhere.

**Types.**  `TInv == TypeOK /\ OnlyTasksPend`.  `TypeOK` alone is not inductive:
a poll that returns Pending pushes its code on a queue *of tasks*, so one has to
know that user threads, which nobody polls, never get there.  The other point
that is not obvious is `PeerIsWorker`: the index arithmetic of `steal_work` with
the short list of stealers never leaves the workers.

**Where the tasks are.**  `BInv == TInv /\ Fresh /\ NoTaskTwice /\ NothingMislaid`.
The two properties need each other: that a task which is pushed back is not in
a queue already follows from its being on a stack and nowhere else; that a task
which ends is gone from everywhere follows from the same; and that a task to be
spawned is nowhere follows from its not being in flight.  `Fresh` (a task that
was not spawned has done nothing) makes a new task be in flight once it is
pushed.  `ExecutorBooks` first proves one lemma for each way a task can move
(`EntersQueue`, `QueueToStack`, `DequeToStack`, `QueueToDeque`, `DequeToDeque`,
`LeavesStack`, `ReentersQueue`, `QueuesAreCleared`) from the lemmas on sequences
in `QueueLemmas`, then that every action makes one of these moves, or none.

**Room for all.**  `RInv` joins `BInv`, `CallersOwn`, `RoomForAll` and
`BornOfCode`.  A task that is about to be pushed is not in the queue, the queue
has no duplicates, and only tasks that some script spawns are ever in it
(`BornOfCode`), so it is shorter than the number of these tasks (`RoomLemma`):
the push finds room.
`CallersOwn` (code that calls the runtime keeps its clone until its body ends)
is needed because a spawn by code that holds no clone could follow the end of
the executor.

**Ownership.**  `MInv` joins the invariants of `Memory` with `Hands`, which says
what a thread has in its hands at each place of its program, and `QueueIsOwned`.
Without `Hands` a poll could overwrite the waker of an earlier one, or a push
the task of an earlier one, and either would be lost unseen.  There is one lemma
for each way a waker can change hands (`NewWakerIsSound`, `WakerLeaves`,
`DropWakersIsSound`): they show soundness and the exact extent of the leak
together, because a waker that leaves its holder leaves one address without a
reader only if no other waker shared it.  `WakersKeepLeftovers` then is no step
of an induction but a consequence: a queue that is there has an owner, an owner
that is not a clone of the `Runtime` is a `WakerData`, and that is leaked or held.

**Tasks at home.**  `HInv == Ranges /\ Births /\ FramesAtHome /\ QueuesAtHome`.
That a worker polls only tasks of its own or its thread's runtime is not enough
to know where it pushes one back: `FramesAtHome` adds that the bottom frame of a
worker is the one from `home`, which is what `Source` goes by.  `Births` (a
thread has an empty stack until it is started) is why giving a thread a home
does not change that of a task already on its stack.

**Kinds of steps.**  A refinement has as many cases as `Next` has actions, and
most actions differ in ways the contract does not see.  `ExecutorContract`,
`SimpleProofs` and `RuntimesProofs` therefore first show that every step is of one
of some ten kinds (`Kinds`): it is `Quiet`, or it `Spawns`, `Takes`, `Sends`,
`Polls`, `Returns`, `Discards`, `Unwinds`, and so on, each defined by what it does
to modes, channels and stacks.  Whether an invariant is kept, and which step of
the contract is taken, is then proved once for each kind.

**The contract of the std executor.**  `CInv` adds to `BInv` what the mapping
looks at.  That what lies under another poll is in `block_on` (`BlockedBelow`)
says that a task whose poll ends with a result is the innermost.
`ChannelsFollow` ties a channel to the mode of its task, so that a result is sent
once and a closed channel means a destroyed task.  `QueuedInCode` and
`StopsUnsent` say that a task which a drop or a panic destroys has sent nothing:
the contract allows only such a task to be lost.  `FaultsFirst`, that a worker
leaves its loop only after a fault, is why destroying a deque is a `Lose` that
the contract allows.

**Looking for work.**  `WorkersDry` is inductive with one more fact: nobody but
its owner puts anything into a deque.  `CountInv` holds because the count follows
the completion, in the same action.

**Order.**  A task that awaits something is pushed back at every poll, without
end, so that it matters where: `NobodyOvertakes` says behind all others in the
global queue, never straight into a deque, and that batches and single steals
keep the order of those they leave and those they move.  It needs no invariant
but `BInv`: a queue without duplicates, from which elements are taken at the head,
keeps the order of the rest (`OrderBehind`); `QueueIsKept` and `DequesAreKept` show
that nothing else is done to a queue or a deque.  It is a safety property, and
one half of why spinning tasks let the others get on; `TasksResolve` is the
whole, for the programs of `executor_progress`.

**Owners.**  `OnlyShutdownDestroys` is about channels, its reason is ownership.
`OwnersInv` says that code which may still call the runtime holds a clone, and
that the flag is raised exactly when there is none; `ClosedInFault` that channels
close after a fault only.  For `BlockOnIsSafe` one must know where the code is:
`BlockedAt` says that code in `block_on` is at that operation and that its result
was not taken, which rests on `HandlesMove`; being in `block_on` it is a holder,
so that the flag is not raised and its channel is not closed.

**The drop.**  `DropInv` follows the workers out: a deque that nobody can reach is
empty, and so is the global queue once the last worker has left (`DequesEmptied`,
`QueueEmptied`); a handle that was joined is that of an exited thread
(`JoinedExited`); and a worker that has left its loop is inside the drop only if it
unwinds (`DropperUnwinds`), where its own handle ends the process, so that such a
drop never completes.  At the end all workers have exited, all queues are empty and all
stacks too, and `NothingMislaid` turns that into "no task is in flight".

**Leaks of the no_std executor.**  When the user threads have ended nobody polls;
a task in flight is in the queue (`BInv`), which would be gone without a clone of
the Runtime (`QueueFalls`), and a clone is held by code that is alive and calls
the runtime (`HoldersAlive`): a task in the queue.  The refinement
rests on the lemma under `RoomIsEnough`: unless the queue is smaller than the
program, a task is lost only with the last clone.  It is why the tasks must be
finite here; and there must be a user thread because without one nobody holds
the Runtime at the start, which the mapping takes for a fault.

**Runtimes.**  `BInv` says of `Runtimes` what `BInv` and `CInv` say of `Executor`,
with three additions.  There are no channels in this module, so that
`TakenWasSent` and `BlockedAt` recover what they would say from the place where
code is in its script.  `UnwindsUnsent` plays the part of `StopsUnsent`.
`StartsAtCall` says that a runtime is made inside of a call, so that the panic of
a `StartFails` unwinds code which has sent no result.

`LInv` is about lives: `EndsInOrder` is the order of the destructor (a runtime is
dropped when its thread's closure is over, and a thread is dead only after its
runtime), `StacksAlive` that no code runs on a dead thread, and
`WorkersHaveRuntime` that no worker belongs to a runtime that never started.
`OnlyFailedStartsLeak` is part of `LInv`, and `GoneIsFinal` a consequence of both.

**Only model-checked** is liveness: `TasksResolve`, `CallersReturn`,
`DropCompletes` and `UsersEnd` need fairness, and with it `ENABLED`, which the
prover does not support.  The violations of section 5 are counterexamples.

## 5. Where code and documentation part

1. **`block_on` can bury what it waits for** (`executor_stacked`).  The docs say
   helping avoids deadlocks (`runtime.rs:106-107`).  Task a waits in `block_on`
   for d; the loop polls b on top of it; b waits in `block_on` for e, and e
   awaits a.  a cannot continue below b, although no task depends on itself and
   no deque keeps a task out of reach.
2. **Stealers are missing** (`executor_stranded`).  `stealers.clone()` is taken
   while the vector is being filled, so worker i can steal from workers 0 to i
   only.  A task in the last worker's deque waits for that worker, even if it is
   in `block_on` and others are idle.  With all stealers the property holds.
3. **A `block_on` that neither returns nor panics** (`executor_orphan`).  There
   is no 30 second timeout (`executor.rs:258`); awaiting a task that panicked is
   Pending for ever.
4. **`stats` undercounts** (`executor_stats`): tasks completed inside `block_on`
   are not counted.
5. **Dropping the runtime on a worker** (`executor_self_join`) makes it join
   itself.
6. **A task lost to a full queue** (`simple_requeue`): "Re-queue the task"
   ignores that its slot may have been taken.

A comment in `worker.rs:67` calls the local queue LIFO; `executor.rs:98` makes it
FIFO, as the model has it.  `waker.rs:58` calls re-queueing by wakers "a crucial
part of the runtime's task scheduling system"; wake does nothing, and `memory`
shows what it fails to free.

7. **A start that fails panics** (`runtimes_start`).  `Runtime::new` says that it
   returns an error (`runtime.rs:47`); it panics when a thread cannot be started.
   The trace fails at the first worker.  Where a later one fails, those already
   started run for ever: that is not in this trace but in the run `runtimes`, where
   `OnlyFailedStartsLeak` shows that it is the only way a worker outlives its runtime.

## 6. Not modelled

* *Task ids.*  Two counters that both start at 1 number the tasks
  (`executor.rs:125`, `task.rs:39`), so that ids repeat; nothing reads one.
* *Errors.*  Nothing constructs a `RuntimeError` or a `TaskError`.
* *Benchmarks and examples* (`main.rs`, `examples/`): programs that use the
  runtime.
* *Memory orderings* inside crossbeam, crossbeam-channel and the standard
  library: their queues and channels are taken as linearizable.
* *`WorkerThread::run` for no_std* (`worker.rs:100-121`): the module is compiled
  with std only.
* *Starvation* of a task in the deque of a blocked worker by tasks that await
  something and keep the global queue filled (in the global queue itself
  `NobodyOvertakes` rules out that they pass it).
* *Platforms that forbid joining a thread in a thread-local destructor* (the loader
  lock of Windows): `UsersEnd` holds where the destructor of `THREAD_RUNTIME` may
  wait for the workers.
* *Nesting in `Memory`*: `block_on` inside a poll, and destructors that call the
  executor outside the one place where they do so under the lock.
