--------------------------- MODULE SimpleExecutor ---------------------------
(***************************************************************************)
(* The no_std executor of Luminal, src/src/runtime/simple_executor.rs: one *)
(* queue of bounded size, no workers.  Tasks are polled by the threads     *)
(* that call block_on and by nobody else.  There is no Executor::run here, *)
(* and a panic ends a no_std program, so neither occurs in a workload.     *)
(*                                                                         *)
(* As in Executor, stack[th] is the code thread th is inside of, innermost *)
(* last.                                                                   *)
(***************************************************************************)
EXTENDS Naturals, Sequences, SequencesExt, Program

CONSTANTS
  Capacity,    \* of the queue, heapless::Deque<Task, 1024>
  BatchLimit,  \* tasks block_on polls between two looks at its result: 10
  Workloads    \* the programs, each a function from Code to scripts

SimpleOp == {op \in Op : op.do \notin {"run", "panic"}}

ASSUME SimpleAssumption ==
  /\ Capacity \in Nat \ {0}
  /\ BatchLimit \in Nat \ {0}
  /\ Callers \cap Tasks = {}
  /\ Workloads \subseteq [Code -> Seq(SimpleOp)]

VARIABLES
  script,     \* the program being run
  ip,         \* per piece of code: the next operation of its script
  mode,       \* per piece of code: what it is doing, see Modes
  tries,      \* per piece of code in block_on: the tasks it has polled since
              \* it last looked at its result
  queue,      \* SimpleExecutor::global_queue
  stack,      \* per thread: the code it is inside of
  chan,       \* per task: its result queue
  owners,     \* the code that holds a clone of the Runtime
  processed   \* SimpleExecutor::tasks_processed

userVars == <<script, ip, mode, tries>>
vars == <<userVars, queue, stack, chan, owners, processed>>

(* As in Executor.                                                         *)
Modes == {"code", "blocked", "pending", "finished", "ready", "done", "dropped"}

(***************************************************************************)
(* As in Executor, but "closed", the task was destroyed and will never     *)
(* send, looks to a reader like "open".                                    *)
(***************************************************************************)
ChannelStates == {"none", "open", "value", "received", "closed"}

Init ==
  /\ script \in Workloads
  /\ ip = [c \in Code |-> 1]
  /\ mode = [c \in Code |-> "code"]
  /\ tries = [c \in Code |-> 0]
  /\ queue = <<>>
  /\ stack = [th \in Callers |-> <<th>>]
  /\ chan = [u \in Tasks |-> "none"]
  /\ owners = Callers
  /\ processed = 0

-----------------------------------------------------------------------------
Running(th, c) == stack[th] # <<>> /\ c = Last(stack[th])

AtOp(th, c, do) ==
  /\ Running(th, c)
  /\ mode[c] = "code"
  /\ ip[c] <= Len(script[c])
  /\ script[c][ip[c]].do = do

Operand(c) == script[c][ip[c]].task

Poll(th, u) == stack' = [stack EXCEPT ![th] = Append(@, u)]

Return(th) == stack' = [stack EXCEPT ![th] = Front(@)]

Destroyed(S) == [u \in Tasks |-> IF u \in S THEN "closed" ELSE chan[u]]

(* Mutant: a ring buffer that keeps one slot free.                         *)
IsFullEarly == Len(queue) >= Capacity - 1

(* Mutant: off by one the other way.                                       *)
IsFullLate == Len(queue) > Capacity

(***************************************************************************)
(* queue.push_back(u), the error ignored: a full queue gives the task back *)
(* and it is destroyed on the spot, with what it captured.                 *)
(***************************************************************************)
IsFull == Len(queue) >= Capacity

(* Mutant: a full queue makes room by giving up its oldest task.           *)
PushBackEvicting(u) ==
  queue' = Append(IF IsFull THEN Tail(queue) ELSE queue, u)

PushBack(u) == queue' = IF IsFull THEN queue ELSE Append(queue, u)

(* SimpleExecutor::spawn.                                                  *)
SpawnTask(u) ==
  /\ chan[u] = "none"
  /\ PushBack(u)
  /\ chan' = [chan EXCEPT ![u] = IF IsFull THEN "closed" ELSE "open"]
  /\ owners' = IF Captures(script[u]) /\ ~IsFull THEN owners \cup {u}
                                                 ELSE owners

DoSpawn(th, c) ==
  /\ AtOp(th, c, "spawn")
  /\ SpawnTask(Operand(c))
  /\ ip' = [ip EXCEPT ![c] = @ + 1]
  /\ mode' = IF IsFull THEN [mode EXCEPT ![Operand(c)] = "dropped"] ELSE mode
  /\ UNCHANGED <<script, tries, stack, processed>>

DoBlockOn(th, c) ==
  /\ AtOp(th, c, "block_on")
  /\ SpawnTask(Operand(c))
  /\ mode' = [x \in Code |-> CASE x = c -> "blocked"
                               [] x = Operand(c) /\ IsFull -> "dropped"
                               [] OTHER -> mode[x]]
  /\ UNCHANGED <<script, ip, tries, stack, processed>>

(* Mutant: a result queue that the task has left answers, too.             *)
AnswersClosed(u) == chan[u] \in {"value", "closed"}

Answers(u) == chan[u] = "value"

(* JoinHandle::poll, the no_std one.                                       *)
DoAwait(th, c) ==
  /\ AtOp(th, c, "await")
  /\ c \in Tasks
  /\ \/ /\ Answers(Operand(c))
        /\ chan' = [chan EXCEPT ![Operand(c)] = "received"]
        /\ ip' = [ip EXCEPT ![c] = @ + 1]
        /\ UNCHANGED mode
     \/ /\ ~Answers(Operand(c))
        /\ mode' = [mode EXCEPT ![c] = "pending"]
        /\ UNCHANGED <<chan, ip>>
  /\ UNCHANGED <<script, tries, queue, stack, owners, processed>>

(* Mutant: the waker queues the task, as its Pending does once more.       *)
WakeQueues(c) == queue' = Append(queue, c)

(* As in Executor, wakers do nothing.                                      *)
Wake(c) == UNCHANGED queue

DoYield(th, c) ==
  /\ AtOp(th, c, "yield")
  /\ c \in Tasks
  /\ ip' = [ip EXCEPT ![c] = @ + 1]
  /\ mode' = [mode EXCEPT ![c] = "pending"]
  /\ Wake(c)
  /\ UNCHANGED <<script, tries, stack, chan, owners, processed>>

(* Mutant: the tasks that are left survive the executor.                   *)
LastOwnerNever(c) == FALSE

LastOwner(c) == owners = {c}

(***************************************************************************)
(* The body of a task, or a user thread, is done with its clone of the     *)
(* Runtime.  With the last one the queue goes, and all the tasks in it.    *)
(***************************************************************************)
Finish(th, c) ==
  LET lost == IF LastOwner(c) THEN ToSet(queue) ELSE {}
  IN  /\ Running(th, c)
      /\ mode[c] = "code"
      /\ ip[c] > Len(script[c])
      /\ owners' = owners \ {c}
      /\ queue' = IF LastOwner(c) THEN <<>> ELSE queue
      /\ chan' = Destroyed(lost)
      /\ mode' = [x \in Code |->
                    CASE x \in lost -> "dropped"
                      [] x = c      -> IF c \in Tasks THEN "finished" ELSE "ready"
                      [] OTHER      -> mode[x]]
      /\ UNCHANGED <<script, ip, tries, stack, processed>>

Send(th, c) ==
  /\ Running(th, c)
  /\ mode[c] = "finished"
  /\ chan' = [chan EXCEPT ![c] = "value"]
  /\ mode' = [mode EXCEPT ![c] = "ready"]
  /\ UNCHANGED <<script, ip, tries, queue, stack, owners, processed>>

ReturnReady(th, c) ==
  /\ Running(th, c)
  /\ mode[c] = "ready"
  /\ Return(th)
  /\ mode' = [mode EXCEPT ![c] = "done"]
  /\ processed' = IF c \in Tasks THEN processed + 1 ELSE processed
  /\ UNCHANGED <<script, ip, tries, queue, chan, owners>>

(* "Re-queue the task".                                                    *)
ReturnPending(th, c) ==
  /\ Running(th, c)
  /\ mode[c] = "pending"
  /\ Return(th)
  /\ PushBack(c)
  /\ mode' = [mode EXCEPT ![c] = IF IsFull THEN "dropped" ELSE "code"]
  /\ chan' = IF IsFull THEN Destroyed({c}) ELSE chan
  /\ owners' = IF IsFull THEN owners \ {c} ELSE owners
  /\ UNCHANGED <<script, ip, tries, processed>>

-----------------------------------------------------------------------------
(* The loop of SimpleExecutor::block_on.                                   *)

PopTask(th, c) ==
  /\ Running(th, c)
  /\ mode[c] = "blocked"
  /\ tries[c] < BatchLimit
  /\ queue # <<>>
  /\ Poll(th, Head(queue))
  /\ queue' = Tail(queue)
  /\ tries' = [tries EXCEPT ![c] = @ + 1]
  /\ UNCHANGED <<script, ip, mode, chan, owners, processed>>

(* Mutant: block_on waits for tasks before it looks at its result.         *)
BreakNever(c) == UNCHANGED tries

(* break: it looks at its result next.                                     *)
Break(c) == tries' = [tries EXCEPT ![c] = BatchLimit]

NoMoreTasks(th, c) ==
  /\ Running(th, c)
  /\ mode[c] = "blocked"
  /\ tries[c] < BatchLimit
  /\ queue = <<>>
  /\ Break(c)
  /\ UNCHANGED <<script, ip, mode, queue, stack, chan, owners, processed>>

Look(th, c) ==
  /\ Running(th, c)
  /\ mode[c] = "blocked"
  /\ tries[c] = BatchLimit
  /\ tries' = [tries EXCEPT ![c] = 0]
  /\ \/ /\ Answers(Operand(c))
        /\ chan' = [chan EXCEPT ![Operand(c)] = "received"]
        /\ mode' = [mode EXCEPT ![c] = "code"]
        /\ ip' = [ip EXCEPT ![c] = @ + 1]
     \/ /\ ~Answers(Operand(c))
        /\ UNCHANGED <<chan, mode, ip>>
  /\ UNCHANGED <<script, queue, stack, owners, processed>>

-----------------------------------------------------------------------------
ThreadStep(th) ==
  \E c \in Code :
    \/ DoSpawn(th, c) \/ DoBlockOn(th, c) \/ DoAwait(th, c) \/ DoYield(th, c)
    \/ Finish(th, c) \/ Send(th, c) \/ ReturnReady(th, c) \/ ReturnPending(th, c)
    \/ PopTask(th, c) \/ NoMoreTasks(th, c) \/ Look(th, c)

Ended == \A th \in Callers : stack[th] = <<>>

Next == (\E th \in Callers : ThreadStep(th)) \/ (Ended /\ UNCHANGED vars)

Spec == Init /\ [][Next]_vars

(* Every thread goes on.                                                   *)
FairSpec == Spec /\ \A th \in Callers : WF_vars(ThreadStep(th))
=============================================================================
