------------------------------ MODULE Runtimes ------------------------------
(***************************************************************************)
(* The global functions luminal::spawn and luminal::block_on (runtime.rs). *)
(* Each thread that calls one gets a Runtime of its own, kept in its       *)
(* thread-local storage: user threads, and the workers of other runtimes   *)
(* whose tasks call them.  The runtime of a thread is named by the thread. *)
(* It starts its workers one after the other, and ends when the thread     *)
(* does, which waits for the workers, which wait for theirs.               *)
(*                                                                         *)
(* In Program, spawn and block_on are the global functions here.  What     *)
(* goes on inside one executor is the subject of Executor; here its queues *)
(* are one set of tasks.                                                   *)
(***************************************************************************)
EXTENDS Naturals, Sequences, SequencesExt, FiniteSets, Program

CONSTANTS
  MaxThreads,  \* bound on the threads that are ever started, users included
  NumWorkers,  \* available_parallelism()
  Workloads    \* the programs, each a function from Code to scripts

Threads  == 1 .. MaxThreads
NoThread == 0

ASSUME RuntimesAssumption ==
  /\ MaxThreads \in Nat
  /\ NumWorkers \in Nat \ {0}
  /\ Callers \subseteq Threads
  /\ Tasks \cap (Threads \cup {NoThread}) = {}
  /\ Workloads \subseteq [Code -> Seq(Op)]

VARIABLES
  script,     \* the program being run
  ip,         \* per piece of code: the next operation of its script
  mode,       \* per piece of code, see Modes
  stack,      \* per thread: the code it is inside of, innermost last
  life,       \* per thread, see Lives
  home,       \* per worker: the thread whose runtime it belongs to
  runtime,    \* per thread: its THREAD_RUNTIME, see RuntimeStates
  queue,      \* per thread: the tasks in the queues of its runtime
  born,       \* per task: the thread whose runtime it was spawned on
  unwinding   \* the threads in which a panic was raised

codeVars   == <<script, ip, mode, stack, unwinding>>
threadVars == <<life, home, runtime>>
taskVars   == <<queue, born>>
vars       == <<codeVars, threadVars, taskVars>>

(* blocked: in block_on's loop; sent: its result is sent, its poll is      *)
(* about to return; lost: destroyed before it completed.                   *)
Modes == {"code", "blocked", "sent", "done", "lost"}

(* ending: its closure has returned or unwound, its thread-local values    *)
(* are being destroyed.                                                    *)
Lives == {"unborn", "alive", "ending", "dead"}

(* starting: in ExecutorInner::new; failed: None again, after a panic in   *)
(* there; dropping: in ExecutorInner::drop, the shutdown flag is up.       *)
RuntimeStates == {"none", "starting", "failed", "up", "dropping", "gone"}

Init ==
  /\ script \in Workloads
  /\ ip = [c \in Code |-> 1]
  /\ mode = [c \in Code |-> "code"]
  /\ stack = [th \in Threads |-> IF th \in Callers THEN <<th>> ELSE <<>>]
  /\ life = [th \in Threads |-> IF th \in Callers THEN "alive" ELSE "unborn"]
  /\ home = [th \in Threads |-> NoThread]
  /\ runtime = [th \in Threads |-> "none"]
  /\ queue = [th \in Threads |-> {}]
  /\ born = [u \in Tasks |-> NoThread]
  /\ unwinding = {}

-----------------------------------------------------------------------------
Running(th, c) ==
  /\ stack[th] # <<>>
  /\ c = Last(stack[th])
  /\ th \notin unwinding

(* c is at a call of luminal::spawn or luminal::block_on, or at what it    *)
(* does between the calls.                                                 *)
AtOp(th, c, ops) ==
  /\ Running(th, c)
  /\ mode[c] = "code"
  /\ ip[c] <= Len(script[c])
  /\ script[c][ip[c]].do \in ops

Operand(c) == script[c][ip[c]].task

IsWorker(th) == home[th] # NoThread

WorkersOf(th) == {w \in Threads : home[w] = th}

Step(c) == ip' = [ip EXCEPT ![c] = @ + 1]

Pop(th) == stack' = [stack EXCEPT ![th] = Front(@)]

Lose(S) == mode' = [c \in Code |-> IF c \in S THEN "lost" ELSE mode[c]]

-----------------------------------------------------------------------------
(* with_thread_local_runtime: the first call on a thread makes a runtime.  *)

StartRuntime(th) ==
  /\ \E c \in Code : AtOp(th, c, {"spawn", "block_on"})
  /\ runtime[th] = "none"
  /\ runtime' = [runtime EXCEPT ![th] = "starting"]
  /\ UNCHANGED <<codeVars, life, home, taskVars>>

(* Mutant: an inclusive range of worker indices.                           *)
AllStartedLate(th) == Cardinality(WorkersOf(th)) > NumWorkers

AllStarted(th) == Cardinality(WorkersOf(th)) >= NumWorkers

(* ExecutorInner::new starts one worker, which begins to run at once.      *)
StartWorker(th) ==
  /\ runtime[th] = "starting" /\ ~AllStarted(th)
  /\ \E w \in Threads :
       /\ life[w] = "unborn"
       /\ \A v \in Threads : v < w => life[v] # "unborn"
       /\ life' = [life EXCEPT ![w] = "alive"]
       /\ home' = [home EXCEPT ![w] = th]
  /\ UNCHANGED <<codeVars, runtime, taskVars>>

(***************************************************************************)
(* The system refuses another thread: expect panics and unwinds out of     *)
(* new.  There is no ExecutorInner yet to be dropped; the handles of the   *)
(* workers that were started are, which detaches them.                     *)
(***************************************************************************)
StartFails(th) ==
  /\ runtime[th] = "starting" /\ ~AllStarted(th)
  /\ runtime' = [runtime EXCEPT ![th] = "failed"]
  /\ unwinding' = unwinding \cup {th}
  /\ UNCHANGED <<script, ip, mode, stack, life, home, taskVars>>

StoreRuntime(th) ==
  /\ runtime[th] = "starting" /\ AllStarted(th)
  /\ runtime' = [runtime EXCEPT ![th] = "up"]
  /\ UNCHANGED <<codeVars, life, home, taskVars>>

-----------------------------------------------------------------------------
(* Code on a thread.                                                       *)

SpawnTask(th, u) ==
  /\ born[u] = NoThread
  /\ born' = [born EXCEPT ![u] = th]
  /\ queue' = [queue EXCEPT ![th] = @ \cup {u}]

GlobalSpawn(th, c) ==
  /\ AtOp(th, c, {"spawn"})
  /\ runtime[th] = "up"
  /\ SpawnTask(th, Operand(c))
  /\ Step(c)
  /\ UNCHANGED <<script, mode, stack, unwinding, threadVars>>

GlobalBlockOn(th, c) ==
  /\ AtOp(th, c, {"block_on"})
  /\ runtime[th] = "up"
  /\ SpawnTask(th, Operand(c))
  /\ mode' = [mode EXCEPT ![c] = "blocked"]
  /\ UNCHANGED <<script, ip, stack, unwinding, threadVars>>

HasResult(u) == mode[u] \in {"sent", "done"}

(* Mutant: a worker pushes back what its own runtime's block_on polled.    *)
SourceOfWorker(th) == IF IsWorker(th) THEN home[th] ELSE th

(***************************************************************************)
(* A task is polled by a worker of its runtime, at the bottom of its       *)
(* stack, or by the runtime's own thread inside block_on.  It is pushed    *)
(* back on the queue it came from.                                         *)
(***************************************************************************)
Source(th) == IF IsWorker(th) /\ Len(stack[th]) = 1 THEN home[th] ELSE th

Poll(th, r, u) ==
  /\ u \in queue[r]
  /\ queue' = [queue EXCEPT ![r] = @ \ {u}]
  /\ stack' = [stack EXCEPT ![th] = Append(@, u)]

(* Mutant: the task is dropped instead.                                    *)
SuspendForgets(th, c) == Pop(th) /\ UNCHANGED queue

(* Its poll returns Pending.                                               *)
Suspend(th, c) ==
  Pop(th) /\ queue' = [queue EXCEPT ![Source(th)] = @ \cup {c}]

Await(th, c) ==
  /\ AtOp(th, c, {"await"})
  /\ c \in Tasks
  /\ IF HasResult(Operand(c))
       THEN Step(c) /\ UNCHANGED <<stack, queue>>
       ELSE Suspend(th, c) /\ UNCHANGED ip
  /\ UNCHANGED <<script, mode, born, unwinding, threadVars>>

Yield(th, c) ==
  /\ AtOp(th, c, {"yield"})
  /\ c \in Tasks
  /\ Step(c)
  /\ Suspend(th, c)
  /\ UNCHANGED <<script, mode, born, unwinding, threadVars>>

Panic(th, c) ==
  /\ AtOp(th, c, {"panic"})
  /\ unwinding' = unwinding \cup {th}
  /\ UNCHANGED <<script, ip, mode, stack, threadVars, taskVars>>

(* The code ends: a task sends its result, a user thread is through.       *)
Finish(th, c) ==
  /\ Running(th, c)
  /\ mode[c] = "code"
  /\ ip[c] > Len(script[c])
  /\ IF c \in Tasks
       THEN /\ mode' = [mode EXCEPT ![c] = "sent"]
            /\ UNCHANGED <<stack, life>>
       ELSE /\ mode' = [mode EXCEPT ![c] = "done"]
            /\ stack' = [stack EXCEPT ![th] = <<>>]
            /\ life' = [life EXCEPT ![th] = "ending"]
  /\ UNCHANGED <<script, ip, unwinding, home, runtime, taskVars>>

Return(th, c) ==
  /\ Running(th, c)
  /\ mode[c] = "sent"
  /\ mode' = [mode EXCEPT ![c] = "done"]
  /\ Pop(th)
  /\ UNCHANGED <<script, ip, unwinding, threadVars, taskVars>>

Blocked(th, c) == Running(th, c) /\ mode[c] = "blocked"

(* block_on looks at its channel ...                                       *)
Recv(th, c) ==
  /\ Blocked(th, c)
  /\ HasResult(Operand(c))
  /\ mode' = [mode EXCEPT ![c] = "code"]
  /\ Step(c)
  /\ UNCHANGED <<script, stack, unwinding, threadVars, taskVars>>

RecvDisconnected(th, c) ==
  /\ Blocked(th, c)
  /\ mode[Operand(c)] = "lost"
  /\ unwinding' = unwinding \cup {th}
  /\ UNCHANGED <<script, ip, mode, stack, threadVars, taskVars>>

(* ... and polls tasks of its thread's runtime, on a worker too.           *)
Help(th, c, u) ==
  /\ Blocked(th, c)
  /\ Poll(th, th, u)
  /\ UNCHANGED <<script, ip, mode, unwinding, threadVars, born>>

-----------------------------------------------------------------------------
(* Workers, and the ends of threads.                                       *)

Idle(w) == IsWorker(w) /\ life[w] = "alive" /\ stack[w] = <<>>

WorkerPoll(w, u) ==
  /\ Idle(w)
  /\ Poll(w, home[w], u)
  /\ UNCHANGED <<script, ip, mode, unwinding, threadVars, born>>

(***************************************************************************)
(* The thread's closure is over.  A worker destroys the tasks that only    *)
(* its deque holds, any of those that are queued.                          *)
(***************************************************************************)
Leave(th, S) ==
  /\ S \subseteq (IF IsWorker(th) THEN queue[home[th]] ELSE {})
  /\ queue' = [r \in Threads |-> queue[r] \ (IF r = home[th] THEN S ELSE {})]
  /\ life' = [life EXCEPT ![th] = "ending"]

(* Mutant: a worker looks at the flag of its own runtime, and goes on.     *)
QuitOwnFlag(w) == Idle(w) /\ runtime[w] # "dropping" /\ UNCHANGED vars

(* The shutdown flag is up.                                                *)
Quit(w) ==
  /\ Idle(w)
  /\ runtime[home[w]] = "dropping"
  /\ \E S \in SUBSET Tasks : Leave(w, S) /\ Lose(S)
  /\ UNCHANGED <<script, ip, stack, unwinding, home, runtime, born>>

(* A panic unwinds the innermost frame, and at the bottom the thread.      *)
Unwind(th) ==
  /\ th \in unwinding
  /\ stack[th] # <<>>
  /\ Pop(th)
  /\ IF Len(stack[th]) > 1
       THEN Lose({Last(stack[th])}) /\ UNCHANGED <<life, queue>>
       ELSE \E S \in SUBSET Tasks :
              Leave(th, S) /\ Lose(S \cup {Last(stack[th])})
  /\ UNCHANGED <<script, ip, unwinding, home, runtime, born>>

(* Mutant: a worker's thread-local values are leaked.                      *)
HasRuntimeUser(th) == runtime[th] = "up" /\ ~IsWorker(th)

HasRuntime(th) == runtime[th] = "up"

(* The destructor of THREAD_RUNTIME runs ExecutorInner::drop.              *)
DropRuntime(th) ==
  /\ life[th] = "ending"
  /\ HasRuntime(th)
  /\ runtime' = [runtime EXCEPT ![th] = "dropping"]
  /\ UNCHANGED <<codeVars, life, home, taskVars>>

Exit(th) ==
  /\ life[th] = "ending"
  /\ ~HasRuntime(th) /\ runtime[th] # "dropping"
  /\ life' = [life EXCEPT ![th] = "dead"]
  /\ UNCHANGED <<codeVars, home, runtime, taskVars>>

(* Mutant: the handles are dropped, not joined.                            *)
JoinedNone(th) == TRUE

(* A worker is joined once its own thread-local runtime is gone, too.      *)
Joined(th) == \A w \in WorkersOf(th) : life[w] = "dead"

(* What is left in the queue is destroyed.                                 *)
DropDone(th) ==
  /\ runtime[th] = "dropping"
  /\ Joined(th)
  /\ runtime' = [runtime EXCEPT ![th] = "gone"]
  /\ life' = [life EXCEPT ![th] = "dead"]
  /\ queue' = [queue EXCEPT ![th] = {}]
  /\ Lose(queue[th])
  /\ UNCHANGED <<script, ip, stack, unwinding, home, born>>

-----------------------------------------------------------------------------
CodeStep(th, c) ==
  \/ GlobalSpawn(th, c) \/ GlobalBlockOn(th, c) \/ Await(th, c)
  \/ Yield(th, c) \/ Panic(th, c) \/ Finish(th, c) \/ Return(th, c)
  \/ Recv(th, c) \/ RecvDisconnected(th, c)
  \/ \E u \in Tasks : Help(th, c, u)

ThreadStep(th) ==
  \/ StartRuntime(th) \/ StartWorker(th) \/ StartFails(th) \/ StoreRuntime(th)
  \/ \E c \in Code : CodeStep(th, c)
  \/ \E u \in Tasks : WorkerPoll(th, u)
  \/ Quit(th) \/ Unwind(th)
  \/ DropRuntime(th) \/ Exit(th) \/ DropDone(th)

(* No user thread is left; workers of failed starts may be.                *)
Ended == \A th \in Callers : life[th] = "dead"

Next == (\E th \in Threads : ThreadStep(th)) \/ (Ended /\ UNCHANGED vars)

Spec == Init /\ [][Next]_vars

(***************************************************************************)
(* Every thread goes on.  A block_on that has its result does not poll     *)
(* other tasks for ever: it looks after every few polls.  Nor does a       *)
(* worker that is told to stop: it only drains its deque, which is not     *)
(* filled again.                                                           *)
(***************************************************************************)
Fairness ==
  \A th \in Threads : /\ WF_vars(ThreadStep(th))
                      /\ SF_vars(\E c \in Code : Recv(th, c))
                      /\ SF_vars(Quit(th))

FairSpec == Spec /\ Fairness
=============================================================================
