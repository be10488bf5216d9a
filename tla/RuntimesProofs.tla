--------------------------- MODULE RuntimesProofs ---------------------------
(***************************************************************************)
(* What is proved of the thread-local runtimes, however many threads there *)
(* are and whatever their tasks call: each task stays with the runtime it  *)
(* was spawned on, a runtime that ends takes everything below it along,    *)
(* and all of them together implement TaskContract.                        *)
(*                                                                         *)
(* The first part is about homes.  The second classifies the steps by what *)
(* they do to a task, as ExecutorContract does, and shows where tasks are. *)
(* The third follows the lives of threads, and the last maps each kind of  *)
(* step to a step of the contract.                                         *)
(***************************************************************************)
EXTENDS RuntimesProps, QueueLemmas

(* Nobody uses a thread before it is started, and a user's is no worker.   *)
Births ==
  \A th \in Threads :
    /\ life[th] = "unborn" => stack[th] = <<>> /\ th \notin Callers
    /\ th \in Callers => ~IsWorker(th)

(* The task at the bottom of a worker's stack belongs to the worker's      *)
(* runtime, those above it, and on a user's stack, to the thread's own.    *)
HomeOf(th, i) == IF IsWorker(th) /\ i = 1 THEN home[th] ELSE th

FramesAtHome ==
  \A th \in Threads : \A i \in 1 .. Len(stack[th]) :
    stack[th][i] \in Tasks => born[stack[th][i]] = HomeOf(th, i)

QueuesAtHome ==
  \A th \in Threads : \A u \in queue[th] : born[u] = th

HInv == Ranges /\ Births /\ FramesAtHome /\ QueuesAtHome

(* spawn, await and block_on name a task.                                  *)
LEMMA OperandIsTask ==
  ASSUME Ranges, NEW c \in Code, ip[c] <= Len(script[c]),
         script[c][ip[c]].do \in {"spawn", "await", "block_on"}
  PROVE  Operand(c) \in Tasks
  <1>1. script[c] \in Seq(Op) /\ ip[c] \in 1 .. Len(script[c])
    BY DEF Ranges
  <1>2. script[c][ip[c]] \in Op
    BY <1>1
  <1> QED
    BY <1>2 DEF Op, Operand

(* Threads are numbers, and none is NoThread.                              *)
LEMMA NoThreadIsNone == NoThread \notin Threads /\ NoThread \in Nat
  BY RuntimesAssumption DEF Threads, NoThread

-----------------------------------------------------------------------------
(* The ways a stack or a queue can change.                                 *)

LEMMA PopMove ==
  ASSUME HInv, NEW th \in Threads, stack[th] # <<>>, Pop(th)
  PROVE  /\ stack' \in [Threads -> Seq(Code)]
         /\ \A t \in Threads : stack[t] = <<>> => stack'[t] = <<>>
         /\ \A t \in Threads : \A i \in 1 .. Len(stack'[t]) :
              i \in 1 .. Len(stack[t]) /\ stack'[t][i] = stack[t][i]
  <1>1. /\ stack \in [Threads -> Seq(Code)]
        /\ stack' = [stack EXCEPT ![th] = Front(@)]
    BY DEF HInv, Ranges, Pop
  <1>2. /\ Front(stack[th]) \in Seq(Code) /\ Len(stack[th]) \in Nat
        /\ Len(Front(stack[th])) = Len(stack[th]) - 1
        /\ \A i \in 1 .. Len(stack[th]) - 1 : Front(stack[th])[i] = stack[th][i]
    BY <1>1, FramesLemma
  <1> QED
    BY <1>1, <1>2

(* A task that is polled moves from a queue of its home to a place of the  *)
(* same home.                                                              *)
LEMMA PollMove ==
  ASSUME HInv, NEW th \in Threads, NEW r \in Threads, NEW u \in Tasks,
         Poll(th, r, u), r = HomeOf(th, Len(stack[th]) + 1),
         UNCHANGED <<home, born>>
  PROVE  /\ stack' \in [Threads -> Seq(Code)]
         /\ queue' \in [Threads -> SUBSET Tasks]
         /\ FramesAtHome' /\ QueuesAtHome'
         /\ \A t \in Threads : t # th => stack'[t] = stack[t]
  <1>1. /\ stack' = [stack EXCEPT ![th] = Append(@, u)]
        /\ queue' = [queue EXCEPT ![r] = @ \ {u}] /\ u \in queue[r]
    BY DEF Poll
  <1>2. /\ stack \in [Threads -> Seq(Code)] /\ u \in Code
        /\ queue \in [Threads -> SUBSET Tasks]
    BY DEF HInv, Ranges, Code
  <1>3. born[u] = r
    BY <1>1 DEF HInv, QueuesAtHome
  <1>4. ASSUME NEW i \in 1 .. Len(stack'[th]), stack'[th][i] \in Tasks
        PROVE  born[stack'[th][i]] = HomeOf(th, i)
    <2>1. stack'[th] = Append(stack[th], u) /\ Len(stack[th]) \in Nat
      BY <1>1, <1>2
    <2>2. CASE i = Len(stack[th]) + 1
      BY <1>2, <1>3, <2>1, <2>2
    <2>3. CASE i \in 1 .. Len(stack[th])
      BY <1>2, <1>4, <2>1, <2>3 DEF HInv, FramesAtHome
    <2> QED
      BY <1>2, <2>1, <2>2, <2>3
  <1>5. \A t \in Threads : t # th => stack'[t] = stack[t]
    BY <1>1
  <1>6. FramesAtHome'
    <2>1. ASSUME NEW t \in Threads, NEW i \in 1 .. Len(stack'[t]),
                 stack'[t][i] \in Tasks
          PROVE  born[stack'[t][i]] = HomeOf(t, i)
      <3>1. CASE t = th
        BY <1>4, <2>1, <3>1
      <3>2. CASE t # th
        BY <1>5, <2>1, <3>2 DEF HInv, FramesAtHome
      <3> QED
        BY <3>1, <3>2
    <2> QED
      BY <2>1 DEF FramesAtHome, HomeOf, IsWorker
  <1>7. QueuesAtHome'
    BY <1>1, <1>2 DEF HInv, QueuesAtHome
  <1> QED
    BY <1>1, <1>2, <1>5, <1>6, <1>7

(* A task whose poll returns Pending goes back where it came from.         *)
LEMMA SuspendMove ==
  ASSUME HInv, NEW th \in Threads, NEW c \in Tasks, Running(th, c),
         Suspend(th, c), UNCHANGED <<home, born>>
  PROVE  /\ stack' \in [Threads -> Seq(Code)]
         /\ queue' \in [Threads -> SUBSET Tasks]
         /\ FramesAtHome' /\ QueuesAtHome'
         /\ \A t \in Threads : stack[t] = <<>> => stack'[t] = <<>>
  <1>1. /\ stack[th] \in Seq(Code) /\ stack[th] # <<>> /\ c = Last(stack[th])
        /\ queue \in [Threads -> SUBSET Tasks]
        /\ queue' = [queue EXCEPT ![Source(th)] = @ \cup {c}] /\ Pop(th)
    BY DEF HInv, Ranges, Running, Suspend
  <1>2. c = stack[th][Len(stack[th])] /\ Len(stack[th]) \in 1 .. Len(stack[th])
    <2>1. /\ Last(stack[th]) = stack[th][Len(stack[th])]
          /\ Len(stack[th]) \in Nat /\ Len(stack[th]) > 0
      BY <1>1, FramesLemma
    <2> QED
      BY <1>1, <2>1
  <1>3. born[c] = Source(th)
    BY <1>2 DEF HInv, FramesAtHome, HomeOf, Source
  <1>4. FramesAtHome'
    BY <1>1, PopMove DEF HInv, FramesAtHome, HomeOf, IsWorker
  <1>5. QueuesAtHome'
    BY <1>1, <1>3 DEF HInv, QueuesAtHome
  <1> QED
    BY <1>1, <1>4, <1>5, PopMove

(* spawn: u is new, hence in no queue and on no stack.                     *)
LEMMA SpawnMove ==
  ASSUME HInv, NEW th \in Threads, NEW u \in Tasks, SpawnTask(th, u),
         UNCHANGED <<home, stack>>
  PROVE  /\ queue' \in [Threads -> SUBSET Tasks]
         /\ born' \in [Tasks -> Threads \cup {NoThread}]
         /\ FramesAtHome' /\ QueuesAtHome'
  <1>1. /\ born[u] = NoThread /\ born' = [born EXCEPT ![u] = th]
        /\ queue' = [queue EXCEPT ![th] = @ \cup {u}]
        /\ born \in [Tasks -> Threads \cup {NoThread}]
        /\ queue \in [Threads -> SUBSET Tasks]
        /\ home \in [Threads -> Threads \cup {NoThread}]
    BY DEF SpawnTask, HInv, Ranges
  <1>2. \A t \in Threads : u \notin queue[t]
    BY <1>1, NoThreadIsNone DEF HInv, QueuesAtHome
  <1>3. \A t \in Threads : \A i \in 1 .. Len(stack[t]) : stack[t][i] # u
    BY <1>1, NoThreadIsNone DEF HInv, FramesAtHome, HomeOf, IsWorker
  <1>4. FramesAtHome'
    BY <1>1, <1>3 DEF HInv, FramesAtHome, HomeOf, IsWorker
  <1>5. QueuesAtHome'
    BY <1>1, <1>2 DEF HInv, QueuesAtHome
  <1> QED
    BY <1>1, <1>4, <1>5

(* Steps that take nothing but frames off stacks and tasks out of queues.  *)
LEMMA NothingNew ==
  ASSUME HInv, UNCHANGED <<home, born>>,
         \A t \in Threads : queue'[t] \subseteq queue[t],
         \A t \in Threads : \A i \in 1 .. Len(stack'[t]) :
           i \in 1 .. Len(stack[t]) /\ stack'[t][i] = stack[t][i]
  PROVE  FramesAtHome' /\ QueuesAtHome'
  BY DEF HInv, FramesAtHome, QueuesAtHome, HomeOf, IsWorker

-----------------------------------------------------------------------------
(* The invariant.                                                          *)

LEMMA InitHomes == Init => HInv
  <1> SUFFICES ASSUME Init PROVE HInv
    OBVIOUS
  <1>1. Callers \subseteq Threads /\ Workloads \subseteq [Code -> Seq(Op)]
    BY RuntimesAssumption
  <1>2. \A th \in Callers : <<th>> \in Seq(Code)
    BY DEF Code
  <1>3. stack \in [Threads -> Seq(Code)]
    BY <1>2 DEF Init
  <1>4. Ranges
    BY <1>1, <1>3 DEF Init, Ranges, Modes, Lives, RuntimeStates
  <1>5. Births
    BY DEF Init, Births, IsWorker
  <1>6. FramesAtHome
    <2>1. ASSUME NEW th \in Threads, NEW i \in 1 .. Len(stack[th])
          PROVE  stack[th][i] \notin Tasks
      <3>1. CASE th \in Callers
        BY <2>1, <3>1, RuntimesAssumption DEF Init
      <3>2. CASE th \notin Callers
        BY <2>1, <3>2 DEF Init
      <3> QED
        BY <3>1, <3>2
    <2> QED
      BY <2>1 DEF FramesAtHome
  <1>7. QueuesAtHome
    BY DEF Init, QueuesAtHome
  <1> QED
    BY <1>4, <1>5, <1>6, <1>7 DEF HInv

(* A task that is lost is in a mode like any other.                        *)
LEMMA LoseRange ==
  ASSUME Ranges, NEW S, Lose(S)
  PROVE  mode' \in [Code -> Modes]
  BY DEF Ranges, Lose, Modes

(* Steps of the code that runs on a thread.                                *)
LEMMA CodeHomes ==
  ASSUME HInv, NEW th \in Threads, NEW c \in Code, CodeStep(th, c)
  PROVE  HInv'
  <1> USE DEF codeVars, threadVars, taskVars
  <1>0. /\ Ranges /\ Births /\ stack[th] # <<>> /\ life[th] # "unborn"
        /\ Running(th, c)
    BY DEF HInv, Births, CodeStep, GlobalSpawn, GlobalBlockOn, Await, Yield,
       Panic, Finish, Return, Recv, RecvDisconnected, Help, Blocked, AtOp,
       Running
  <1>1. CASE GlobalSpawn(th, c)
    <2>1. Operand(c) \in Tasks
      BY <1>0, <1>1, OperandIsTask DEF GlobalSpawn, AtOp
    <2>2. /\ queue' \in [Threads -> SUBSET Tasks]
          /\ born' \in [Tasks -> Threads \cup {NoThread}]
          /\ FramesAtHome' /\ QueuesAtHome'
      BY <1>1, <2>1, SpawnMove DEF GlobalSpawn
    <2>3. Ranges'
      BY <1>0, <1>1, <2>2 DEF GlobalSpawn, Ranges, Step
    <2>4. Births'
      BY <1>0, <1>1 DEF GlobalSpawn, Births, IsWorker
    <2> QED
      BY <2>2, <2>3, <2>4 DEF HInv
  <1>2. CASE GlobalBlockOn(th, c)
    <2>1. Operand(c) \in Tasks
      BY <1>0, <1>2, OperandIsTask DEF GlobalBlockOn, AtOp
    <2>2. /\ queue' \in [Threads -> SUBSET Tasks]
          /\ born' \in [Tasks -> Threads \cup {NoThread}]
          /\ FramesAtHome' /\ QueuesAtHome'
      BY <1>2, <2>1, SpawnMove DEF GlobalBlockOn
    <2>3. Ranges'
      BY <1>0, <1>2, <2>2 DEF GlobalBlockOn, Ranges, Modes
    <2>4. Births'
      BY <1>0, <1>2 DEF GlobalBlockOn, Births, IsWorker
    <2> QED
      BY <2>2, <2>3, <2>4 DEF HInv
  <1>3. CASE Await(th, c) /\ HasResult(Operand(c))
    <2>1. FramesAtHome' /\ QueuesAtHome'
      BY <1>3, NothingNew DEF Await
    <2>2. Ranges' /\ Births'
      BY <1>0, <1>3 DEF Await, Ranges, Births, IsWorker, Step
    <2> QED
      BY <2>1, <2>2 DEF HInv
  <1>4. CASE Await(th, c) /\ ~HasResult(Operand(c))
    <2>1. Suspend(th, c) /\ c \in Tasks /\ UNCHANGED <<home, born>>
      BY <1>4 DEF Await
    <2>2. /\ stack' \in [Threads -> Seq(Code)]
          /\ queue' \in [Threads -> SUBSET Tasks]
          /\ FramesAtHome' /\ QueuesAtHome'
          /\ \A t \in Threads : stack[t] = <<>> => stack'[t] = <<>>
      BY <1>0, <2>1, SuspendMove
    <2>3. Ranges' /\ Births'
      BY <1>0, <1>4, <2>2 DEF Await, Ranges, Births, IsWorker
    <2> QED
      BY <2>2, <2>3 DEF HInv
  <1>5. CASE Yield(th, c)
    <2>1. Suspend(th, c) /\ c \in Tasks /\ UNCHANGED <<home, born>>
      BY <1>5 DEF Yield
    <2>2. /\ stack' \in [Threads -> Seq(Code)]
          /\ queue' \in [Threads -> SUBSET Tasks]
          /\ FramesAtHome' /\ QueuesAtHome'
          /\ \A t \in Threads : stack[t] = <<>> => stack'[t] = <<>>
      BY <1>0, <2>1, SuspendMove
    <2>3. Ranges' /\ Births'
      BY <1>0, <1>5, <2>2 DEF Yield, Ranges, Births, IsWorker, Step
    <2> QED
      BY <2>2, <2>3 DEF HInv
  <1>6. CASE Panic(th, c) \/ Recv(th, c) \/ RecvDisconnected(th, c)
    <2>1. FramesAtHome' /\ QueuesAtHome'
      BY <1>6, NothingNew DEF Panic, Recv, RecvDisconnected
    <2>2. Ranges'
      <3>1. CASE Panic(th, c) \/ RecvDisconnected(th, c)
        BY <1>0, <3>1 DEF Panic, RecvDisconnected, Ranges
      <3>2. CASE Recv(th, c)
        BY <1>0, <3>2 DEF Recv, Ranges, Modes, Step
      <3> QED
        BY <1>6, <3>1, <3>2
    <2>3. Births'
      BY <1>0, <1>6 DEF Panic, Recv, RecvDisconnected, Births, IsWorker
    <2> QED
      BY <2>1, <2>2, <2>3 DEF HInv
  <1>7. CASE Finish(th, c)
    <2>1. /\ stack' \in [Threads -> Seq(Code)]
          /\ \A t \in Threads : stack'[t] \in {stack[t], <<>>}
      <3>1. CASE c \in Tasks
        BY <1>0, <1>7, <3>1 DEF Finish, Ranges
      <3>2. CASE c \notin Tasks
        <4>1. stack' = [stack EXCEPT ![th] = <<>>] /\ <<>> \in Seq(Code)
          BY <1>7, <3>2 DEF Finish
        <4>2. stack \in [Threads -> Seq(Code)]
          BY <1>0 DEF Ranges
        <4> QED
          BY <4>1, <4>2
      <3> QED
        BY <3>1, <3>2
    <2>2. FramesAtHome' /\ QueuesAtHome'
      <3>1. \A t \in Threads : \A i \in 1 .. Len(stack'[t]) :
              i \in 1 .. Len(stack[t]) /\ stack'[t][i] = stack[t][i]
        BY <2>1
      <3>2. UNCHANGED <<home, born, queue>>
        BY <1>7 DEF Finish
      <3> QED
        BY <3>1, <3>2, NothingNew
    <2>3. Ranges'
      BY <1>0, <1>7, <2>1 DEF Finish, Ranges, Modes, Lives
    <2>4. Births'
      <3>1. \A t \in Threads : life'[t] = "unborn" => life[t] = "unborn"
        BY <1>0, <1>7 DEF Finish, Ranges
      <3>2. home' = home
        BY <1>7 DEF Finish
      <3> QED
        BY <1>0, <2>1, <3>1, <3>2 DEF Births, IsWorker
    <2> QED
      BY <2>2, <2>3, <2>4 DEF HInv
  <1>8. CASE Return(th, c)
    <2>1. /\ stack' \in [Threads -> Seq(Code)]
          /\ \A t \in Threads : stack[t] = <<>> => stack'[t] = <<>>
          /\ \A t \in Threads : \A i \in 1 .. Len(stack'[t]) :
               i \in 1 .. Len(stack[t]) /\ stack'[t][i] = stack[t][i]
      BY <1>0, <1>8, PopMove DEF Return
    <2>2. FramesAtHome' /\ QueuesAtHome'
      BY <1>8, <2>1, NothingNew DEF Return
    <2>3. Ranges' /\ Births'
      BY <1>0, <1>8, <2>1 DEF Return, Ranges, Births, IsWorker, Modes
    <2> QED
      BY <2>2, <2>3 DEF HInv
  <1>9. ASSUME NEW u \in Tasks, Help(th, c, u) PROVE HInv'
    <2>1. th = HomeOf(th, Len(stack[th]) + 1)
      BY <1>0, FramesLemma DEF HomeOf, Ranges
    <2>2. /\ stack' \in [Threads -> Seq(Code)]
          /\ queue' \in [Threads -> SUBSET Tasks]
          /\ FramesAtHome' /\ QueuesAtHome'
          /\ \A t \in Threads : t # th => stack'[t] = stack[t]
      BY <1>9, <2>1, PollMove DEF Help
    <2>3. Ranges' /\ Births'
      BY <1>0, <1>9, <2>2 DEF Help, Ranges, Births, IsWorker
    <2> QED
      BY <2>2, <2>3 DEF HInv
  <1> QED
    BY <1>1, <1>2, <1>3, <1>4, <1>5, <1>6, <1>7, <1>8, <1>9 DEF CodeStep, Await

(* Steps of the runtime itself: starts, idle workers, and ends.            *)
LEMMA ThreadHomes ==
  ASSUME HInv, NEW th \in Threads, ThreadStep(th)
  PROVE  HInv'
  <1> USE DEF codeVars, threadVars, taskVars
  <1>0. Ranges /\ Births
    BY DEF HInv
  <1>1. CASE StartRuntime(th) \/ StartFails(th) \/ StoreRuntime(th)
             \/ DropRuntime(th)
    <2>1. FramesAtHome' /\ QueuesAtHome'
      BY <1>1, NothingNew
         DEF StartRuntime, StartFails, StoreRuntime, DropRuntime
    <2>2. Ranges'
      BY <1>0, <1>1 DEF StartRuntime, StartFails, StoreRuntime, DropRuntime,
         Ranges, RuntimeStates
    <2>3. Births'
      BY <1>0, <1>1 DEF StartRuntime, StartFails, StoreRuntime, DropRuntime,
         Births, IsWorker
    <2> QED
      BY <2>1, <2>2, <2>3 DEF HInv
  <1>2. CASE StartWorker(th)
    <2>1. PICK w \in Threads : /\ life[w] = "unborn"
                               /\ life' = [life EXCEPT ![w] = "alive"]
                               /\ home' = [home EXCEPT ![w] = th]
      BY <1>2 DEF StartWorker
    <2>2. UNCHANGED <<codeVars, runtime, queue, born>>
      BY <1>2 DEF StartWorker
    <2>3. stack[w] = <<>> /\ w \notin Callers
      BY <1>0, <2>1 DEF Births
    <2>4. FramesAtHome'
      <3>1. \A t \in Threads : t # w => home'[t] = home[t]
        BY <2>1
      <3>2. 1 .. Len(stack[w]) = {}
        BY <2>3
      <3> QED
        BY <2>2, <3>1, <3>2 DEF HInv, FramesAtHome, HomeOf, IsWorker
    <2>5. QueuesAtHome'
      BY <2>2 DEF HInv, QueuesAtHome
    <2>6. Ranges'
      BY <1>0, <2>1, <2>2 DEF Ranges, Lives
    <2>7. Births'
      BY <1>0, <2>1, <2>2, <2>3 DEF Births, IsWorker, Ranges
    <2> QED
      BY <2>4, <2>5, <2>6, <2>7 DEF HInv
  <1>3. ASSUME NEW c \in Code, CodeStep(th, c) PROVE HInv'
    BY <1>3, CodeHomes
  <1>4. ASSUME NEW u \in Tasks, WorkerPoll(th, u) PROVE HInv'
    <2>1. /\ IsWorker(th) /\ stack[th] = <<>> /\ life[th] = "alive"
          /\ home[th] \in Threads
      BY <1>0, <1>4 DEF WorkerPoll, Idle, IsWorker, Ranges
    <2>2. home[th] = HomeOf(th, Len(stack[th]) + 1)
      BY <2>1 DEF HomeOf
    <2>3. /\ stack' \in [Threads -> Seq(Code)]
          /\ queue' \in [Threads -> SUBSET Tasks]
          /\ FramesAtHome' /\ QueuesAtHome'
          /\ \A t \in Threads : t # th => stack'[t] = stack[t]
      BY <1>4, <2>1, <2>2, PollMove DEF WorkerPoll
    <2>4. Ranges' /\ Births'
      BY <1>0, <1>4, <2>1, <2>3 DEF WorkerPoll, Ranges, Births, IsWorker
    <2> QED
      BY <2>3, <2>4 DEF HInv
  <1>5. ASSUME Quit(th) PROVE HInv'
    <2>1. PICK S \in SUBSET Tasks : Leave(th, S) /\ Lose(S)
      BY <1>5 DEF Quit
    <2>2. /\ queue' \in [Threads -> SUBSET Tasks]
          /\ \A t \in Threads : queue'[t] \subseteq queue[t]
          /\ life' = [life EXCEPT ![th] = "ending"]
      BY <1>0, <2>1 DEF Leave, Ranges
    <2>3. FramesAtHome' /\ QueuesAtHome'
      BY <1>5, <2>2, NothingNew DEF Quit
    <2>4. mode' \in [Code -> Modes]
      BY <1>0, <2>1, LoseRange
    <2>5. Ranges' /\ Births'
      BY <1>0, <1>5, <2>2, <2>4 DEF Quit, Ranges, Births, IsWorker, Lives
    <2> QED
      BY <2>3, <2>5 DEF HInv
  <1>6. ASSUME Unwind(th) PROVE HInv'
    <2>1. PICK S : Lose(S)
      BY <1>6 DEF Unwind
    <2>2. /\ queue' \in [Threads -> SUBSET Tasks]
          /\ \A t \in Threads : queue'[t] \subseteq queue[t]
          /\ life' \in [Threads -> Lives]
          /\ \A t \in Threads : life'[t] = "unborn" => life[t] = "unborn"
      <3>1. CASE Len(stack[th]) > 1
        BY <1>0, <1>6, <3>1 DEF Unwind, Ranges
      <3>2. ASSUME NEW X, Leave(th, X)
            PROVE  /\ queue' \in [Threads -> SUBSET Tasks]
                   /\ \A t \in Threads : queue'[t] \subseteq queue[t]
                   /\ life' = [life EXCEPT ![th] = "ending"]
        BY <1>0, <3>2 DEF Leave, Ranges
      <3>3. CASE ~(Len(stack[th]) > 1)
        BY <1>0, <1>6, <3>2, <3>3 DEF Unwind, Ranges, Lives
      <3> QED
        BY <3>1, <3>3
    <2>3. /\ stack' \in [Threads -> Seq(Code)]
          /\ \A t \in Threads : stack[t] = <<>> => stack'[t] = <<>>
          /\ \A t \in Threads : \A i \in 1 .. Len(stack'[t]) :
               i \in 1 .. Len(stack[t]) /\ stack'[t][i] = stack[t][i]
      BY <1>6, PopMove DEF Unwind
    <2>4. FramesAtHome' /\ QueuesAtHome'
      BY <1>6, <2>2, <2>3, NothingNew DEF Unwind
    <2>5. mode' \in [Code -> Modes]
      BY <1>0, <2>1, LoseRange
    <2>6. Ranges' /\ Births'
      BY <1>0, <1>6, <2>2, <2>3, <2>5 DEF Unwind, Ranges, Births, IsWorker
    <2> QED
      BY <2>4, <2>6 DEF HInv
  <1>7. ASSUME Exit(th) PROVE HInv'
    <2>1. FramesAtHome' /\ QueuesAtHome'
      BY <1>7, NothingNew DEF Exit
    <2>2. Ranges' /\ Births'
      BY <1>0, <1>7 DEF Exit, Ranges, Births, IsWorker, Lives
    <2> QED
      BY <2>1, <2>2 DEF HInv
  <1>8. ASSUME DropDone(th) PROVE HInv'
    <2>1. /\ queue' \in [Threads -> SUBSET Tasks]
          /\ \A t \in Threads : queue'[t] \subseteq queue[t]
      BY <1>0, <1>8 DEF DropDone, Ranges
    <2>2. FramesAtHome' /\ QueuesAtHome'
      BY <1>8, <2>1, NothingNew DEF DropDone
    <2>3. mode' \in [Code -> Modes]
      BY <1>0, <1>8, LoseRange DEF DropDone
    <2>4. Ranges' /\ Births'
      BY <1>0, <1>8, <2>1, <2>3
         DEF DropDone, Ranges, Births, IsWorker, Lives, RuntimeStates
    <2> QED
      BY <2>2, <2>4 DEF HInv
  <1> QED
    BY <1>1, <1>2, <1>3, <1>4, <1>5, <1>6, <1>7, <1>8 DEF ThreadStep

(* No step takes a task away from its home.                                *)
LEMMA NextHomes == HInv /\ [Next]_vars => HInv'
  <1> SUFFICES ASSUME HInv, [Next]_vars PROVE HInv'
    OBVIOUS
  <1>1. CASE UNCHANGED vars
    BY <1>1 DEF HInv, Ranges, Births, FramesAtHome, QueuesAtHome, HomeOf,
       IsWorker, vars, codeVars, threadVars, taskVars
  <1>2. ASSUME NEW th \in Threads, ThreadStep(th) PROVE HInv'
    BY <1>2, ThreadHomes
  <1> QED
    BY <1>1, <1>2 DEF Next

-----------------------------------------------------------------------------
(* A runtime has no more workers than the machine has processors.          *)

FewWorkers == \A th \in Threads : Cardinality(WorkersOf(th)) <= NumWorkers

(* A runtime has finitely many workers, as there are finitely many         *)
(* threads.                                                                *)
LEMMA WorkersAreFinite ==
  ASSUME NEW th \in Threads
  PROVE  IsFiniteSet(WorkersOf(th)) /\ IsFiniteSet(WorkersOf(th)')
  <1>1. IsFiniteSet(Threads)
    BY RuntimesAssumption, FS_Interval DEF Threads
  <1>2. WorkersOf(th) \subseteq Threads /\ WorkersOf(th)' \subseteq Threads
    BY DEF WorkersOf
  <1> QED
    BY <1>1, <1>2, FS_Subset

(* A worker is started only while the runtime has fewer than its number.   *)
LEMMA FewWorkersStep ==
  ASSUME HInv, FewWorkers, NEW th \in Threads, StartWorker(th)
  PROVE  FewWorkers'
  <1>1. PICK w \in Threads : home' = [home EXCEPT ![w] = th]
    BY DEF StartWorker
  <1>2. \A t \in Threads : home'[t] = IF t = w THEN th ELSE home[t]
    BY <1>1 DEF HInv, Ranges
  <1>3. Cardinality(WorkersOf(th)') <= NumWorkers
    <2>1. WorkersOf(th)' = WorkersOf(th) \cup {w}
      BY <1>2 DEF WorkersOf
    <2>2. /\ Cardinality(WorkersOf(th)) \in Nat
          /\ Cardinality(WorkersOf(th) \cup {w})
               = IF w \in WorkersOf(th) THEN Cardinality(WorkersOf(th))
                 ELSE Cardinality(WorkersOf(th)) + 1
      BY WorkersAreFinite, FS_AddElement, FS_CardinalityType
    <2>3. Cardinality(WorkersOf(th)) < NumWorkers /\ NumWorkers \in Nat
      BY <2>2, RuntimesAssumption DEF StartWorker, AllStarted
    <2> QED
      BY <2>1, <2>2, <2>3
  <1>4. ASSUME NEW t \in Threads, t # th
        PROVE  Cardinality(WorkersOf(t)') <= NumWorkers
    <2>1. WorkersOf(t)' \subseteq WorkersOf(t)
      BY <1>2, <1>4 DEF WorkersOf
    <2>2. /\ Cardinality(WorkersOf(t)') <= Cardinality(WorkersOf(t))
          /\ Cardinality(WorkersOf(t)') \in Nat
          /\ Cardinality(WorkersOf(t)) \in Nat
      BY <2>1, WorkersAreFinite, FS_Subset, FS_CardinalityType
    <2>3. Cardinality(WorkersOf(t)) <= NumWorkers /\ NumWorkers \in Nat
      BY RuntimesAssumption DEF FewWorkers
    <2> QED
      BY <2>2, <2>3
  <1> QED
    BY <1>3, <1>4 DEF FewWorkers

(* Every other step leaves the workers as they are.                        *)
LEMMA OthersStartNone ==
  ASSUME NEW th \in Threads, ThreadStep(th), ~StartWorker(th)
  PROVE  home' = home
  <1> USE DEF threadVars
  <1>1. ASSUME NEW c \in Code, CodeStep(th, c) PROVE home' = home
    BY <1>1 DEF CodeStep, GlobalSpawn, GlobalBlockOn, Await, Yield, Panic,
       Finish, Return, Recv, RecvDisconnected, Help
  <1>2. ASSUME NEW u \in Tasks, WorkerPoll(th, u) PROVE home' = home
    BY <1>2 DEF WorkerPoll
  <1> QED
    BY <1>1, <1>2 DEF ThreadStep, StartRuntime, StartFails, StoreRuntime, Quit,
       Unwind, DropRuntime, Exit, DropDone

(* Every variable stays in its range, and the workers within their number. *)
THEOREM TypeCorrect == Spec => []TypeOK
  <1>1. Init => HInv /\ FewWorkers
    <2>1. ASSUME Init, NEW th \in Threads PROVE WorkersOf(th) = {}
      BY <2>1, NoThreadIsNone DEF Init, WorkersOf
    <2>2. Init => FewWorkers
      BY <2>1, FS_EmptySet, RuntimesAssumption DEF FewWorkers
    <2> QED
      BY <2>2, InitHomes
  <1>2. HInv /\ FewWorkers /\ [Next]_vars => HInv' /\ FewWorkers'
    <2> SUFFICES ASSUME HInv, FewWorkers, [Next]_vars PROVE FewWorkers'
      BY NextHomes
    <2>1. CASE home' = home
      BY <2>1 DEF FewWorkers, WorkersOf
    <2>2. ASSUME NEW th \in Threads, StartWorker(th) PROVE FewWorkers'
      BY <2>2, FewWorkersStep
    <2> QED
      BY <2>1, <2>2, OthersStartNone DEF Next, vars, threadVars
  <1>3. HInv /\ FewWorkers => TypeOK
    BY DEF HInv, FewWorkers, TypeOK
  <1> QED
    BY <1>1, <1>2, <1>3, PTL DEF Spec

(* Every task is queued and polled in the runtime it was spawned on only.  *)
THEOREM TasksAreAtHome == Spec => []TasksStayHome
  <1>1. ASSUME HInv, NEW u \in Tasks, NEW th \in Threads, Polled(th, u)
        PROVE  born[u] \in {th, home[th]}
    <2>1. PICK i \in 1 .. Len(stack[th]) : stack[th][i] = u
      BY <1>1, ElementsLemma DEF HInv, Ranges, Polled
    <2> QED
      BY <1>1, <2>1 DEF HInv, FramesAtHome, HomeOf
  <1>2. HInv => TasksStayHome
    BY <1>1 DEF HInv, QueuesAtHome, TasksStayHome
  <1> QED
    BY <1>2, InitHomes, NextHomes, PTL DEF Spec

-----------------------------------------------------------------------------
(* Where the tasks are.                                                    *)

Queued(u) == \E r \in Threads : u \in queue[r]

(* A task is on one stack or in a queue, and a user's code at the bottom   *)
(* of its own thread's stack.                                              *)
Apart ==
  /\ \A th \in Threads : IsInjective(stack[th])
  /\ \A th \in Threads, u \in Tasks :
       Polled(th, u) => ~Queued(u) /\ \A t \in Threads : Polled(t, u) => t = th
  /\ \A th \in Threads, c \in Callers : Polled(th, c) => th = c
  /\ \A th \in Threads : \A i \in 1 .. Len(stack[th]) :
       i > 1 => stack[th][i] \in Tasks

InFlight(u) == born[u] # NoThread /\ mode[u] \notin {"done", "lost"}

(* A task is queued or polled from its spawn to its end.                   *)
NotMislaid ==
  \A u \in Tasks :
    InFlight(u) <=> Queued(u) \/ \E th \in Threads : Polled(th, u)

(* A task that is not running, spawned or not, is at an operation of its   *)
(* script.                                                                 *)
WaitsInCode == \A u \in Tasks : born[u] = NoThread \/ Queued(u) => mode[u] = "code"

(* What lies under another poll is in block_on.                            *)
BlockedBelow ==
  \A th \in Threads, x \in Code :
    Polled(th, x) /\ x # Last(stack[th]) => mode[x] = "blocked"

(* Code in block_on is at that operation.                                  *)
AtBlockOn(c) ==
  ip[c] \in 1 .. Len(script[c]) /\ script[c][ip[c]].do = "block_on"

BlockedAt == \A c \in Code : mode[c] = "blocked" => AtBlockOn(c)

(* A panic is raised by code that has not sent its result.                 *)
UnwindsUnsent ==
  \A th \in unwinding : stack[th] # <<>> => mode[Last(stack[th])] \in {"code", "blocked"}

(* Only results that were sent are taken.                                  *)
TakenWasSent == \A u \in Tasks : Taken(u) => HasResult(u)

(* A runtime is made inside of a call.                                     *)
StartsAtCall ==
  \A th \in Threads : runtime[th] = "starting" =>
    \E c \in Code : AtOp(th, c, {"spawn", "block_on"})

BInv == /\ HInv /\ Apart /\ NotMislaid /\ WaitsInCode
        /\ BlockedBelow /\ BlockedAt /\ UnwindsUnsent /\ TakenWasSent
        /\ StartsAtCall

-----------------------------------------------------------------------------
(* The kinds of steps, by what they do to the code and to the tasks.       *)

(* Code goes on, past something that takes no result.                      *)
Skips(c) == Step(c) /\ script[c][ip[c]].do \notin {"await", "block_on"}

(* The code stands still, but for a panic that is raised.                  *)
Steady(th) ==
  /\ UNCHANGED <<ip, mode, stack, queue, born>>
  /\ faultedBar => faultedBar'
  /\ \/ UNCHANGED unwinding
     \/ /\ unwinding' = unwinding \cup {th} /\ stack[th] # <<>>
        /\ mode[Last(stack[th])] \in {"code", "blocked"}

Spawns(th, c, u) ==
  /\ Running(th, c) /\ mode[c] = "code" /\ SpawnTask(th, u)
  /\ \/ UNCHANGED mode /\ Skips(c)
     \/ mode' = [mode EXCEPT ![c] = "blocked"] /\ AtBlockOn(c) /\ UNCHANGED ip
  /\ UNCHANGED <<stack, unwinding, runtime>>

Suspends(th, c) ==
  /\ Running(th, c) /\ mode[c] = "code" /\ c \in Tasks
  /\ Suspend(th, c)
  /\ UNCHANGED ip \/ Skips(c)
  /\ UNCHANGED <<mode, born, unwinding, runtime>>

(* A result is there, and the code goes on behind its await or block_on.   *)
Takes(th, c) ==
  /\ Running(th, c) /\ mode[c] \in {"code", "blocked"}
  /\ ip[c] \in 1 .. Len(script[c])
  /\ script[c][ip[c]].do \in {"await", "block_on"}
  /\ HasResult(Operand(c)) /\ Step(c)
  /\ mode' = [mode EXCEPT ![c] = "code"]
  /\ UNCHANGED <<stack, queue, born, unwinding, runtime>>

(* A user's thread is through.                                             *)
EndsThread(th, c) ==
  /\ Running(th, c) /\ mode[c] = "code" /\ c \notin Tasks
  /\ mode' = [mode EXCEPT ![c] = "done"]
  /\ stack' = [stack EXCEPT ![th] = <<>>]
  /\ UNCHANGED <<ip, queue, born, unwinding, runtime>>

Sends(th, c) ==
  /\ Running(th, c) /\ mode[c] = "code" /\ c \in Tasks
  /\ mode' = [mode EXCEPT ![c] = "sent"]
  /\ UNCHANGED <<ip, stack, queue, born, unwinding, runtime>>

Returns(th, c) ==
  /\ Running(th, c) /\ mode[c] = "sent" /\ Pop(th)
  /\ mode' = [mode EXCEPT ![c] = "done"]
  /\ UNCHANGED <<ip, queue, born, unwinding, runtime>>

(* A poll begins, at the bottom of a stack or inside a block_on.           *)
Polls(th, r, u) ==
  /\ r = HomeOf(th, Len(stack[th]) + 1) /\ Poll(th, r, u)
  /\ stack[th] # <<>> => th \notin unwinding /\ mode[Last(stack[th])] = "blocked"
  /\ UNCHANGED <<ip, mode, born, unwinding, runtime>>

(* The tasks S are lost out of the queues, and nothing else.               *)
Discards(S) ==
  /\ \A u \in S : u \in Tasks /\ Queued(u)
  /\ queue' = [r \in Threads |-> queue[r] \ S]
  /\ UNCHANGED <<ip, born>>

(* A panic takes the innermost frame off, too.                             *)
Unwinds(th, S) ==
  /\ th \in unwinding /\ stack[th] # <<>> /\ Pop(th)
  /\ Discards(S) /\ Lose(S \cup {Last(stack[th])})
  /\ UNCHANGED unwinding

Kinds(th) ==
  \/ Steady(th)
  \/ \E c \in Code :
       \/ \E u \in Tasks : Spawns(th, c, u)
       \/ Suspends(th, c) \/ Takes(th, c) \/ EndsThread(th, c)
       \/ Sends(th, c) \/ Returns(th, c)
  \/ \E r \in Threads, u \in Tasks : Polls(th, r, u)
  \/ \E S : /\ Discards(S) /\ Lose(S) /\ faultedBar'
            /\ UNCHANGED <<stack, unwinding>>
  \/ \E S : Unwinds(th, S)

(* An operation that code is at.                                           *)
LEMMA AtOpFacts ==
  ASSUME Ranges, NEW th \in Threads, NEW c \in Code, NEW ops, AtOp(th, c, ops)
  PROVE  /\ Running(th, c) /\ mode[c] = "code"
         /\ ip[c] \in 1 .. Len(script[c]) /\ script[c][ip[c]].do \in ops
  BY DEF AtOp, Ranges

(* Steps of the code on a thread.                                          *)
LEMMA CodeKind ==
  ASSUME BInv, NEW th \in Threads, NEW c \in Code, CodeStep(th, c)
  PROVE  Kinds(th) /\ script' = script
  <1> USE DEF threadVars, taskVars
  <1>0. Ranges
    BY DEF BInv, HInv
  <1>1. CASE GlobalSpawn(th, c) \/ GlobalBlockOn(th, c)
    <2>1. /\ Running(th, c) /\ mode[c] = "code" /\ ip[c] \in 1 .. Len(script[c])
          /\ GlobalSpawn(th, c) => script[c][ip[c]].do = "spawn"
          /\ GlobalBlockOn(th, c) => script[c][ip[c]].do = "block_on"
      BY <1>0, <1>1, AtOpFacts DEF GlobalSpawn, GlobalBlockOn
    <2>2. Operand(c) \in Tasks
      <3>1. ip[c] <= Len(script[c])
        BY <1>0, <2>1 DEF Ranges
      <3> QED
        BY <1>0, <1>1, <2>1, <3>1, OperandIsTask
    <2>3. Spawns(th, c, Operand(c))
      BY <1>1, <2>1 DEF GlobalSpawn, GlobalBlockOn, Spawns, Skips, AtBlockOn
    <2> QED
      BY <1>1, <2>2, <2>3 DEF GlobalSpawn, GlobalBlockOn, Kinds
  <1>2. CASE Await(th, c)
    <2>1. /\ Running(th, c) /\ mode[c] = "code" /\ ip[c] \in 1 .. Len(script[c])
          /\ script[c][ip[c]].do = "await" /\ c \in Tasks /\ mode' = mode
      BY <1>0, <1>2, AtOpFacts DEF Await
    <2>2. mode' = [mode EXCEPT ![c] = "code"]
      BY <1>0, <2>1 DEF Ranges
    <2>3. Takes(th, c) \/ Suspends(th, c)
      BY <1>2, <2>1, <2>2 DEF Await, Takes, Suspends
    <2> QED
      BY <1>2, <2>3 DEF Await, Kinds
  <1>3. CASE Yield(th, c)
    <2>1. Suspends(th, c)
      BY <1>0, <1>3, AtOpFacts DEF Yield, Suspends, Skips
    <2> QED
      BY <1>3, <2>1 DEF Yield, Kinds
  <1>4. CASE Panic(th, c) \/ RecvDisconnected(th, c)
    <2>1. Running(th, c) /\ mode[c] \in {"code", "blocked"}
      BY <1>4 DEF Panic, RecvDisconnected, Blocked, AtOp
    <2>2. stack[th] # <<>> /\ c = Last(stack[th])
      BY <2>1 DEF Running
    <2>3. Steady(th)
      BY <1>4, <2>1, <2>2 DEF Panic, RecvDisconnected, Steady, faultedBar
    <2> QED
      BY <1>4, <2>3 DEF Panic, RecvDisconnected, Kinds
  <1>5. CASE Finish(th, c)
    <2>1. Sends(th, c) \/ EndsThread(th, c)
      BY <1>5 DEF Finish, Sends, EndsThread
    <2> QED
      BY <1>5, <2>1 DEF Finish, Kinds
  <1>6. CASE Return(th, c)
    <2>1. Returns(th, c)
      BY <1>6 DEF Return, Returns
    <2> QED
      BY <1>6, <2>1 DEF Return, Kinds
  <1>7. CASE Recv(th, c)
    <2>1. AtBlockOn(c)
      BY <1>7 DEF Recv, Blocked, BInv, BlockedAt
    <2>2. Takes(th, c)
      BY <1>7, <2>1 DEF Recv, Blocked, Takes, AtBlockOn
    <2> QED
      BY <1>7, <2>2 DEF Recv, Kinds
  <1>8. ASSUME NEW u \in Tasks, Help(th, c, u)
        PROVE  Kinds(th) /\ script' = script
    <2>1. stack[th] \in Seq(Code) /\ stack[th] # <<>>
      BY <1>0, <1>8 DEF Help, Blocked, Running, Ranges
    <2>2. th = HomeOf(th, Len(stack[th]) + 1)
      BY <2>1, FramesLemma DEF HomeOf
    <2>3. Polls(th, th, u)
      BY <1>8, <2>2 DEF Help, Blocked, Running, Polls
    <2> QED
      BY <1>8, <2>3 DEF Help, Kinds
  <1> QED
    BY <1>1, <1>2, <1>3, <1>4, <1>5, <1>6, <1>7, <1>8 DEF CodeStep

(* A worker leaves, with tasks that only its deque held.                   *)
LEMMA LeaveDiscards ==
  ASSUME HInv, NEW th \in Threads, NEW S, Leave(th, S), UNCHANGED <<ip, born>>
  PROVE  Discards(S)
  <1>1. /\ queue \in [Threads -> SUBSET Tasks]
        /\ home \in [Threads -> Threads \cup {NoThread}]
    BY DEF HInv, Ranges
  <1>2. CASE IsWorker(th)
    <2>1. home[th] \in Threads /\ S \subseteq queue[home[th]]
      BY <1>1, <1>2 DEF Leave, IsWorker
    <2>2. \A u \in S : u \in Tasks /\ Queued(u)
      BY <1>1, <2>1 DEF Queued
    <2>3. \A r \in Threads : r # home[th] => queue[r] \cap S = {}
      BY <2>1 DEF HInv, QueuesAtHome
    <2>4. \A r \in Threads :
            queue[r] \ (IF r = home[th] THEN S ELSE {}) = queue[r] \ S
      BY <2>3
    <2> QED
      BY <2>2, <2>4 DEF Leave, Discards
  <1>3. CASE ~IsWorker(th)
    <2>1. S = {}
      BY <1>3 DEF Leave
    <2> QED
      BY <2>1 DEF Leave, Discards
  <1> QED
    BY <1>2, <1>3

(* Every step is of one of the kinds.                                      *)
LEMMA ThreadKind ==
  ASSUME BInv, NEW th \in Threads, ThreadStep(th)
  PROVE  Kinds(th) /\ script' = script
  <1> USE DEF codeVars, threadVars, taskVars
  <1>0. Ranges /\ HInv
    BY DEF BInv, HInv
  <1>1. CASE \/ StartRuntime(th) \/ StartWorker(th) \/ StartFails(th)
             \/ StoreRuntime(th) \/ DropRuntime(th) \/ Exit(th)
    <2>1. UNCHANGED <<script, ip, mode, stack, queue, born>>
      BY <1>1 DEF StartRuntime, StartWorker, StartFails, StoreRuntime,
                  DropRuntime, Exit
    <2>2. faultedBar => faultedBar'
      <3>1. unwinding \subseteq unwinding'
        BY <1>1 DEF StartRuntime, StartWorker, StartFails, StoreRuntime,
                    DropRuntime, Exit
      <3>2. \A t \in Threads : runtime[t] \in {"dropping", "gone"} =>
              runtime'[t] = runtime[t]
        BY <1>0, <1>1 DEF StartRuntime, StartWorker, StartFails, StoreRuntime,
           DropRuntime, HasRuntime, Exit, Ranges
      <3> QED
        BY <3>1, <3>2 DEF faultedBar
    <2>3. CASE StartFails(th)
      <3>1. PICK c \in Code : AtOp(th, c, {"spawn", "block_on"})
        BY <2>3 DEF StartFails, BInv, StartsAtCall
      <3>2. stack[th] # <<>> /\ c = Last(stack[th]) /\ mode[c] = "code"
        BY <3>1 DEF AtOp, Running
      <3> QED
        BY <2>1, <2>2, <2>3, <3>2 DEF StartFails, Steady, Kinds
    <2>4. CASE ~StartFails(th)
      <3>1. unwinding' = unwinding
        BY <1>1, <2>4 DEF StartRuntime, StartWorker, StoreRuntime, DropRuntime,
           Exit
      <3> QED
        BY <2>1, <2>2, <3>1 DEF Steady, Kinds
    <2> QED
      BY <2>3, <2>4
  <1>2. ASSUME NEW u \in Tasks, WorkerPoll(th, u)
        PROVE  Kinds(th) /\ script' = script
    <2>1. /\ IsWorker(th) /\ stack[th] = <<>> /\ home[th] \in Threads
          /\ Len(stack[th]) + 1 = 1
      BY <1>0, <1>2 DEF WorkerPoll, Idle, IsWorker, Ranges
    <2>2. Polls(th, home[th], u)
      BY <1>2, <2>1 DEF WorkerPoll, Polls, HomeOf
    <2> QED
      BY <1>2, <2>1, <2>2 DEF WorkerPoll, Kinds
  <1>3. CASE Quit(th)
    <2>1. PICK S \in SUBSET Tasks : Leave(th, S) /\ Lose(S)
      BY <1>3 DEF Quit
    <2>2. UNCHANGED <<ip, born, stack, unwinding, script>>
      BY <1>3 DEF Quit
    <2>3. Discards(S)
      BY <1>0, <2>1, <2>2, LeaveDiscards
    <2>4. faultedBar'
      <3>1. home[th] \in Threads /\ runtime'[home[th]] = "dropping"
        BY <1>0, <1>3 DEF Quit, Idle, IsWorker, Ranges
      <3> QED
        BY <3>1 DEF faultedBar
    <2> QED
      BY <2>1, <2>2, <2>3, <2>4 DEF Kinds
  <1>4. CASE Unwind(th)
    <2>1. /\ th \in unwinding /\ stack[th] # <<>> /\ Pop(th)
          /\ UNCHANGED <<ip, born, unwinding, script>>
      BY <1>4 DEF Unwind
    <2>2. CASE Len(stack[th]) > 1
      <3>1. Lose({} \cup {Last(stack[th])}) /\ UNCHANGED queue
        BY <1>4, <2>2 DEF Unwind, Lose
      <3>2. Discards({})
        BY <1>0, <2>1, <3>1 DEF Discards, Ranges
      <3>3. Unwinds(th, {})
        BY <2>1, <3>1, <3>2 DEF Unwinds
      <3> QED
        BY <2>1, <3>3 DEF Kinds
    <2>3. CASE ~(Len(stack[th]) > 1)
      <3>1. PICK S \in SUBSET Tasks :
              Leave(th, S) /\ Lose(S \cup {Last(stack[th])})
        BY <1>4, <2>3 DEF Unwind
      <3>2. Discards(S)
        BY <1>0, <2>1, <3>1, LeaveDiscards
      <3>3. Unwinds(th, S)
        BY <2>1, <3>1, <3>2 DEF Unwinds
      <3> QED
        BY <2>1, <3>3 DEF Kinds
    <2> QED
      BY <2>2, <2>3
  <1>5. CASE DropDone(th)
    <2>1. /\ queue' = [queue EXCEPT ![th] = {}] /\ Lose(queue[th])
          /\ UNCHANGED <<ip, born, stack, unwinding, script>>
      BY <1>5 DEF DropDone
    <2>2. \A r \in Threads : r # th => queue[r] \cap queue[th] = {}
      BY <1>0 DEF HInv, QueuesAtHome
    <2>3. queue' = [r \in Threads |-> queue[r] \ queue[th]]
      <3>1. queue \in [Threads -> SUBSET Tasks]
        BY <1>0 DEF Ranges
      <3>2. \A r \in Threads : queue'[r] = queue[r] \ queue[th]
        BY <2>1, <2>2, <3>1
      <3> QED
        BY <2>1, <3>1, <3>2
    <2>4. Discards(queue[th])
      BY <1>0, <2>1, <2>3 DEF Discards, Queued, Ranges
    <2>5. faultedBar'
      <3>1. runtime'[th] = "gone"
        BY <1>0, <1>5 DEF DropDone, Ranges
      <3> QED
        BY <3>1 DEF faultedBar
    <2> QED
      BY <2>1, <2>4, <2>5 DEF Kinds
  <1> QED
    BY <1>1, <1>2, <1>3, <1>4, <1>5, CodeKind DEF ThreadStep

(* Every step is of one of these kinds, on one thread.                     *)
LEMMA NextKind ==
  ASSUME BInv, [Next]_vars, ~UNCHANGED vars
  PROVE  \E th \in Threads : Kinds(th) /\ ThreadStep(th) /\ script' = script
  BY ThreadKind DEF Next


-----------------------------------------------------------------------------
(* What the kinds of steps do to stacks and queues.                        *)

(* What a stack holds, and what is special about its top.                  *)
LEMMA TopFacts ==
  ASSUME BInv, NEW th \in Threads, stack[th] # <<>>
  PROVE  LET c == Last(stack[th]) IN
         /\ c \in Code /\ Polled(th, c) /\ ~Queued(c)
         /\ \A t \in Threads : Polled(t, c) => t = th
         /\ c \in Tasks => InFlight(c)
         /\ \A x : Polled(th, x) <=> x = c \/ x \in ToSet(Front(stack[th]))
         /\ c \notin ToSet(Front(stack[th]))
  <1> DEFINE c == Last(stack[th])
  <1>1. stack[th] \in Seq(Code) /\ IsInjective(stack[th])
    BY DEF BInv, HInv, Ranges, Apart
  <1>2. /\ c \in Code /\ ToSet(stack[th]) = {c} \cup ToSet(Front(stack[th]))
        /\ c \notin ToSet(Front(stack[th]))
    BY <1>1, FrontLemma
  <1>3. Polled(th, c)
    BY <1>2 DEF Polled
  <1>4. c \in Tasks \/ c \in Callers
    BY <1>2 DEF Code
  <1>5. ~Queued(c) /\ \A t \in Threads : Polled(t, c) => t = th
    <2>1. CASE c \in Tasks
      BY <1>3, <2>1 DEF BInv, Apart
    <2>2. CASE c \in Callers
      <3>1. ~Queued(c)
        BY <2>2, RuntimesAssumption DEF Queued, BInv, HInv, Ranges
      <3> QED
        BY <1>3, <2>2, <3>1 DEF BInv, Apart
    <2> QED
      BY <1>4, <2>1, <2>2
  <1>6. c \in Tasks => InFlight(c)
    BY <1>3 DEF BInv, NotMislaid
  <1> QED
    BY <1>2, <1>3, <1>5, <1>6 DEF Polled

(* A task in a queue is not running, and not at its end.                   *)
LEMMA QueuedFacts ==
  ASSUME BInv, NEW u \in Tasks, Queued(u)
  PROVE  /\ mode[u] = "code" /\ born[u] # NoThread
         /\ \A th \in Threads : ~Polled(th, u)
  BY DEF BInv, Apart, WaitsInCode, NotMislaid, InFlight

(* A frame comes off.                                                      *)
LEMMA PopEffect ==
  ASSUME BInv, NEW th \in Threads, stack[th] # <<>>, Pop(th)
  PROVE  /\ stack'[th] = Front(stack[th])
         /\ \A t \in Threads : t # th => stack'[t] = stack[t]
         /\ \A t \in Threads : \A x :
              Polled(t, x)' <=> /\ Polled(t, x)
                                /\ t # th \/ x # Last(stack[th])
         /\ stack'[th] # <<>> => /\ Polled(th, Last(stack'[th]))
                                 /\ Last(stack'[th]) # Last(stack[th])
         /\ \A t \in Threads : IsInjective(stack'[t])
         /\ \A t \in Threads : \A i \in 1 .. Len(stack'[t]) :
              i \in 1 .. Len(stack[t]) /\ stack'[t][i] = stack[t][i]
  <1>1. /\ stack \in [Threads -> Seq(Code)] /\ HInv
        /\ \A t \in Threads : IsInjective(stack[t])
    BY DEF BInv, HInv, Ranges, Apart
  <1>2. /\ stack'[th] = Front(stack[th])
        /\ \A t \in Threads : t # th => stack'[t] = stack[t]
    BY <1>1 DEF Pop
  <1>3. /\ Front(stack[th]) \in Seq(Code)
        /\ ToSet(stack[th]) = {Last(stack[th])} \cup ToSet(Front(stack[th]))
        /\ Last(stack[th]) \notin ToSet(Front(stack[th]))
        /\ IsInjective(Front(stack[th]))
    BY <1>1, FrontLemma
  <1>4. \A t \in Threads : \A x :
          Polled(t, x)' <=> Polled(t, x) /\ (t # th \/ x # Last(stack[th]))
    <2>1. \A x : Polled(th, x)' <=> Polled(th, x) /\ x # Last(stack[th])
      BY <1>2, <1>3 DEF Polled
    <2>2. \A t \in Threads : t # th => \A x : Polled(t, x)' <=> Polled(t, x)
      BY <1>2 DEF Polled
    <2> QED
      BY <2>1, <2>2
  <1>5. stack'[th] # <<>> => Last(stack'[th]) \in ToSet(Front(stack[th]))
    <2>1. ASSUME Front(stack[th]) # <<>>
          PROVE  Last(Front(stack[th])) \in ToSet(Front(stack[th]))
      BY <1>3, <2>1, FrontLemma
    <2> QED
      BY <1>2, <2>1
  <1>6. \A t \in Threads : \A i \in 1 .. Len(stack'[t]) :
          i \in 1 .. Len(stack[t]) /\ stack'[t][i] = stack[t][i]
    BY <1>1, PopMove
  <1> QED
    BY <1>1, <1>2, <1>3, <1>4, <1>5, <1>6 DEF Polled

(* A poll begins.                                                          *)
LEMMA PollEffect ==
  ASSUME BInv, NEW th \in Threads, NEW r \in Threads, NEW u \in Tasks,
         Poll(th, r, u)
  PROVE  /\ stack'[th] = Append(stack[th], u) /\ Last(stack'[th]) = u
         /\ stack'[th] # <<>>
         /\ \A t \in Threads : t # th => stack'[t] = stack[t]
         /\ \A t \in Threads : \A x :
              Polled(t, x)' <=> Polled(t, x) \/ (t = th /\ x = u)
         /\ \A x : Queued(x)' <=> Queued(x) /\ x # u
         /\ \A t \in Threads : IsInjective(stack'[t])
         /\ Queued(u)
  <1>1. /\ stack \in [Threads -> Seq(Code)] /\ u \in Code
        /\ queue \in [Threads -> SUBSET Tasks] /\ QueuesAtHome
        /\ \A t \in Threads : IsInjective(stack[t])
    BY DEF BInv, HInv, Ranges, Apart, Code
  <1>2. /\ u \in queue[r] /\ queue' = [queue EXCEPT ![r] = @ \ {u}]
        /\ stack' = [stack EXCEPT ![th] = Append(@, u)]
    BY DEF Poll
  <1>3. Queued(u)
    BY <1>2 DEF Queued
  <1>4. u \notin ToSet(stack[th])
    BY <1>3 DEF BInv, Apart, Polled
  <1>5. /\ stack'[th] = Append(stack[th], u)
        /\ \A t \in Threads : t # th => stack'[t] = stack[t]
    BY <1>1, <1>2
  <1>6. /\ ToSet(Append(stack[th], u)) = ToSet(stack[th]) \cup {u}
        /\ IsInjective(Append(stack[th], u))
    BY <1>1, <1>4, AppendLemma
  <1>7. /\ Append(stack[th], u) # <<>> /\ Append(stack[th], u) \in Seq(Code)
        /\ Append(stack[th], u)[Len(Append(stack[th], u))] = u
    <2> DEFINE s == stack[th]
    <2>1. s \in Seq(Code)
      BY <1>1
    <2> HIDE DEF s
    <2>2. /\ Append(s, u) \in Seq(Code) /\ Len(Append(s, u)) = Len(s) + 1
          /\ Append(s, u)[Len(s) + 1] = u /\ Len(s) \in Nat
      BY <1>1, <2>1
    <2>3. Append(s, u) # <<>>
      BY <2>2
    <2> QED
      BY <2>2, <2>3 DEF s
  <1>8. Last(Append(stack[th], u)) = u
    BY <1>7, FramesLemma
  <1>9. \A x : Queued(x)' <=> Queued(x) /\ x # u
    <2>1. \A t \in Threads : t # r => u \notin queue[t]
      BY <1>1, <1>2 DEF QueuesAtHome
    <2>2. \A t \in Threads : queue'[t] = queue[t] \ {u}
      BY <1>1, <1>2, <2>1
    <2> QED
      BY <2>2 DEF Queued
  <1>10. \A t \in Threads : \A x :
           Polled(t, x)' <=> Polled(t, x) \/ (t = th /\ x = u)
    BY <1>5, <1>6 DEF Polled
  <1> QED
    BY <1>1, <1>3, <1>5, <1>6, <1>7, <1>8, <1>9, <1>10

(* A task is put into a queue.                                             *)
LEMMA PushEffect ==
  ASSUME BInv, NEW r \in Threads, NEW u,
         queue' = [queue EXCEPT ![r] = @ \cup {u}]
  PROVE  \A x : Queued(x)' <=> Queued(x) \/ x = u
  BY DEF BInv, HInv, Ranges, Queued

(* Tasks disappear from the queues.                                        *)
LEMMA DiscardEffect ==
  ASSUME NEW S, Discards(S)
  PROVE  \A x : Queued(x)' <=> Queued(x) /\ x \notin S
  BY DEF Discards, Queued

(* Where a task goes when its poll returns Pending.                        *)
LEMMA SourceIsThread ==
  ASSUME Ranges, NEW th \in Threads
  PROVE  Source(th) \in Threads
  BY DEF Ranges, Source, IsWorker

(* A user's code that is through was alone on its thread's stack.          *)
LEMMA EndEffect ==
  ASSUME BInv, NEW th \in Threads, NEW c \in Code, EndsThread(th, c)
  PROVE  /\ \A t \in Threads : t # th => stack'[t] = stack[t]
         /\ stack'[th] = <<>>
         /\ \A t \in Threads : \A x :
              Polled(t, x)' <=> Polled(t, x) /\ t # th
         /\ \A x : Polled(th, x) => x = c
  <1>1. /\ stack \in [Threads -> Seq(Code)]
        /\ stack[th] # <<>> /\ c = Last(stack[th]) /\ c \notin Tasks
        /\ stack' = [stack EXCEPT ![th] = <<>>]
    BY DEF BInv, HInv, Ranges, EndsThread, Running
  <1>2. /\ Len(stack[th]) \in Nat /\ Len(stack[th]) > 0
        /\ c = stack[th][Len(stack[th])]
    BY <1>1, FramesLemma
  <1>3. Len(stack[th]) = 1
    <2>1. \A i \in 1 .. Len(stack[th]) : i > 1 => stack[th][i] \in Tasks
      BY DEF BInv, Apart
    <2>2. Len(stack[th]) \in 1 .. Len(stack[th])
      BY <1>2
    <2>3. ~(Len(stack[th]) > 1)
      BY <1>1, <1>2, <2>1, <2>2
    <2> DEFINE n == Len(stack[th])
    <2>4. n \in Nat /\ n > 0 /\ ~(n > 1)
      BY <1>2, <2>3
    <2> HIDE DEF n
    <2>5. n = 1
      BY <2>4
    <2> QED
      BY <2>5 DEF n
  <1>4. \A x : Polled(th, x) => x = c
    BY <1>1, <1>2, <1>3, ElementsLemma DEF Polled
  <1>5. /\ stack'[th] = <<>>
        /\ \A t \in Threads : t # th => stack'[t] = stack[t]
    BY <1>1
  <1>6. \A x : ~Polled(th, x)'
    BY <1>5, EmptyLemma DEF Polled
  <1> QED
    BY <1>4, <1>5, <1>6 DEF Polled


-----------------------------------------------------------------------------
(* Every kind of step keeps the tasks apart and in sight.                  *)

(* Stacks that lose frames, or stay, hold tasks above their bottoms.       *)
Shaped ==
  /\ \A t \in Threads : IsInjective(stack[t])
  /\ \A t \in Threads : \A i \in 1 .. Len(stack[t]) : i > 1 => stack[t][i] \in Tasks

(* A step that leaves the stacks alone.                                    *)
LEMMA SameStacks ==
  ASSUME BInv, UNCHANGED stack
  PROVE  Shaped' /\ \A t : \A x : Polled(t, x)' <=> Polled(t, x)
  BY DEF BInv, Apart, Shaped, Polled

(* A step that leaves the queues alone.                                    *)
LEMMA SameQueues ==
  ASSUME UNCHANGED queue
  PROVE  \A x : Queued(x)' <=> Queued(x)
  BY DEF Queued

(* A task that is polled goes on top of one stack.                         *)
LEMMA PollShape ==
  ASSUME BInv, NEW th \in Threads, NEW r \in Threads, NEW u \in Tasks,
         Poll(th, r, u)
  PROVE  Shaped'
  <1>1. /\ stack'[th] = Append(stack[th], u)
        /\ \A t \in Threads : t # th => stack'[t] = stack[t]
        /\ \A t \in Threads : IsInjective(stack'[t])
    BY PollEffect
  <1>2. \A t \in Threads : \A i \in 1 .. Len(stack[t]) : i > 1 => stack[t][i] \in Tasks
    BY DEF BInv, Apart
  <1> DEFINE s == stack[th]
  <1>3. s \in Seq(Code)
    BY DEF BInv, HInv, Ranges
  <1>4. \A i \in 1 .. Len(s) : i > 1 => s[i] \in Tasks
    BY <1>2
  <1>5. stack'[th] = Append(s, u)
    BY <1>1
  <1> HIDE DEF s
  <1>6. /\ Len(Append(s, u)) = Len(s) + 1 /\ Len(s) \in Nat
        /\ Append(s, u)[Len(s) + 1] = u
        /\ \A i \in 1 .. Len(s) : Append(s, u)[i] = s[i]
    BY <1>3
  <1>7. \A i \in 1 .. Len(Append(s, u)) : i > 1 => Append(s, u)[i] \in Tasks
    <2> TAKE i \in 1 .. Len(Append(s, u))
    <2>1. i = Len(s) + 1 \/ i \in 1 .. Len(s)
      BY <1>6
    <2> QED
      BY <1>4, <1>6, <2>1
  <1> QED
    BY <1>1, <1>2, <1>5, <1>7 DEF Shaped

(* Where the tasks of a stack and a queue go.                              *)
LEMMA KeepsApart ==
  ASSUME BInv, NEW th \in Threads, Kinds(th)
  PROVE  Apart'
  <1>0. /\ Apart /\ HInv /\ Ranges
        /\ \A x : Queued(x) => x \in Tasks
    BY DEF BInv, HInv, Ranges, Queued
  <1>1. CASE Steady(th)
    <2>1. UNCHANGED <<stack, queue>>
      BY <1>1 DEF Steady
    <2> QED
      BY <1>0, <2>1 DEF Apart, Polled, Queued
  <1>2. ASSUME NEW c \in Code, NEW u \in Tasks, Spawns(th, c, u)
        PROVE  Apart'
    <2>1. /\ UNCHANGED stack /\ born[u] = NoThread
          /\ queue' = [queue EXCEPT ![th] = @ \cup {u}]
      BY <1>2 DEF Spawns, SpawnTask
    <2>2. \A x : Queued(x)' <=> Queued(x) \/ x = u
      BY <2>1, PushEffect
    <2>3. \A t \in Threads : ~Polled(t, u)
      BY <2>1 DEF BInv, NotMislaid, InFlight
    <2>4. Shaped' /\ \A t : \A x : Polled(t, x)' <=> Polled(t, x)
      BY <2>1, SameStacks
    <2> QED
      BY <1>0, <2>2, <2>3, <2>4 DEF Apart, Shaped
  <1>3. ASSUME NEW c \in Code, Suspends(th, c)
        PROVE  Apart'
    <2>1. /\ stack[th] # <<>> /\ c = Last(stack[th]) /\ Pop(th)
          /\ queue' = [queue EXCEPT ![Source(th)] = @ \cup {c}]
      BY <1>3 DEF Suspends, Suspend, Running
    <2>2. \A x : Queued(x)' <=> Queued(x) \/ x = c
      BY <1>0, <2>1, PushEffect, SourceIsThread
    <2>3. \A t \in Threads : \A x :
            Polled(t, x)' <=> Polled(t, x) /\ (t # th \/ x # c)
      BY <2>1, PopEffect
    <2>4. Shaped'
      BY <1>0, <2>1, PopEffect DEF Apart, Shaped
    <2>5. \A t \in Threads : Polled(t, c) => t = th
      BY <2>1, TopFacts
    <2> QED
      BY <1>0, <2>2, <2>3, <2>4, <2>5 DEF Apart, Shaped
  <1>4. ASSUME NEW c \in Code, Takes(th, c) \/ Sends(th, c)
        PROVE  Apart'
    <2>1. UNCHANGED <<stack, queue>>
      BY <1>4 DEF Takes, Sends
    <2> QED
      BY <1>0, <2>1 DEF Apart, Polled, Queued
  <1>5. ASSUME NEW c \in Code, EndsThread(th, c)
        PROVE  Apart'
    <2>1. /\ \A t \in Threads : t # th => stack'[t] = stack[t]
          /\ stack'[th] = <<>>
          /\ \A t \in Threads : \A x : Polled(t, x)' <=> Polled(t, x) /\ t # th
      BY <1>5, EndEffect
    <2>2. \A x : Queued(x)' <=> Queued(x)
      BY <1>5, SameQueues DEF EndsThread
    <2>3. Shaped'
      <3>1. 1 .. Len(stack'[th]) = {}
        BY <2>1
      <3> QED
        BY <1>0, <2>1, <3>1, EmptyLemma DEF Apart, Shaped
    <2> QED
      BY <1>0, <2>1, <2>2, <2>3 DEF Apart, Shaped
  <1>6. ASSUME NEW c \in Code, Returns(th, c)
        PROVE  Apart'
    <2>1. stack[th] # <<>> /\ Pop(th) /\ UNCHANGED queue
      BY <1>6 DEF Returns, Running
    <2>2. \A x : Queued(x)' <=> Queued(x)
      BY <2>1, SameQueues
    <2>3. /\ \A t \in Threads : \A x : Polled(t, x)' => Polled(t, x)
          /\ Shaped'
      BY <1>0, <2>1, PopEffect DEF Apart, Shaped
    <2> QED
      BY <1>0, <2>2, <2>3 DEF Apart, Shaped
  <1>7. ASSUME NEW r \in Threads, NEW u \in Tasks, Polls(th, r, u)
        PROVE  Apart'
    <2>1. Poll(th, r, u)
      BY <1>7 DEF Polls
    <2>2. /\ \A t \in Threads : \A x :
               Polled(t, x)' <=> Polled(t, x) \/ (t = th /\ x = u)
          /\ \A x : Queued(x)' <=> Queued(x) /\ x # u
          /\ Queued(u)
      BY <2>1, PollEffect
    <2>3. Shaped'
      BY <2>1, PollShape
    <2>4. \A t \in Threads : ~Polled(t, u)
      BY <2>2, QueuedFacts
    <2>5. u \notin Callers
      BY RuntimesAssumption
    <2> QED
      BY <1>0, <2>2, <2>3, <2>4, <2>5 DEF Apart, Shaped
  <1>8. ASSUME NEW S, Discards(S), UNCHANGED stack
        PROVE  Apart'
    <2>1. \A x : Queued(x)' => Queued(x)
      BY <1>8, DiscardEffect
    <2>2. Shaped' /\ \A t : \A x : Polled(t, x)' <=> Polled(t, x)
      BY <1>8, SameStacks
    <2> QED
      BY <1>0, <2>1, <2>2 DEF Apart, Shaped
  <1>9. ASSUME NEW S, Unwinds(th, S)
        PROVE  Apart'
    <2>1. stack[th] # <<>> /\ Pop(th) /\ Discards(S)
      BY <1>9 DEF Unwinds
    <2>2. \A x : Queued(x)' => Queued(x)
      BY <2>1, DiscardEffect
    <2>3. /\ \A t \in Threads : \A x : Polled(t, x)' => Polled(t, x)
          /\ Shaped'
      BY <1>0, <2>1, PopEffect DEF Apart, Shaped
    <2> QED
      BY <1>0, <2>2, <2>3 DEF Apart, Shaped
  <1> QED
    BY <1>1, <1>2, <1>3, <1>4, <1>5, <1>6, <1>7, <1>8, <1>9 DEF Kinds


(* Each kind of step leaves every task in flight in a place, and every     *)
(* other in none.                                                          *)
LEMMA KeepsPlaces ==
  ASSUME BInv, NEW th \in Threads, Kinds(th)
  PROVE  NotMislaid' /\ WaitsInCode'
  <1> DEFINE At(x)  == Queued(x) \/ \E t \in Threads : Polled(t, x)
             AtP(x) == Queued(x)' \/ \E t \in Threads : Polled(t, x)'
  <1>0. /\ Ranges /\ \A u \in Tasks : InFlight(u) <=> At(u)
        /\ \A u \in Tasks : born[u] = NoThread \/ Queued(u) => mode[u] = "code"
        /\ mode \in [Code -> Modes] /\ \A u \in Tasks : u \in Code
    BY DEF BInv, HInv, Ranges, NotMislaid, WaitsInCode, Code
  <1> SUFFICES
        /\ \A u \in Tasks : InFlight(u)' <=> AtP(u)
        /\ \A u \in Tasks : born'[u] = NoThread \/ Queued(u)' => mode'[u] = "code"
    BY DEF NotMislaid, WaitsInCode
  <1> USE DEF InFlight
  <1>1. CASE Steady(th)
    <2>1. UNCHANGED <<stack, queue, mode, born>>
      BY <1>1 DEF Steady
    <2> QED
      BY <1>0, <2>1 DEF Polled, Queued
  <1>2. ASSUME NEW c \in Code, NEW u \in Tasks, Spawns(th, c, u)
        PROVE  /\ \A x \in Tasks : InFlight(x)' <=> AtP(x)
               /\ \A x \in Tasks :
                    born'[x] = NoThread \/ Queued(x)' => mode'[x] = "code"
    <2>1. /\ UNCHANGED stack /\ born[u] = NoThread /\ Running(th, c)
          /\ mode[c] = "code"
          /\ queue' = [queue EXCEPT ![th] = @ \cup {u}]
          /\ mode' = mode \/ mode' = [mode EXCEPT ![c] = "blocked"]
      BY <1>2 DEF Spawns, SpawnTask
    <2>2. \A x : Queued(x)' <=> Queued(x) \/ x = u
      BY <2>1, PushEffect
    <2>3. \A t : \A x : Polled(t, x)' <=> Polled(t, x)
      BY <2>1, SameStacks
    <2>4. /\ born'[u] # NoThread
          /\ \A x \in Tasks : x # u => born'[x] = born[x]
      BY <1>0, <1>2, NoThreadIsNone DEF Spawns, SpawnTask, Ranges
    <2>5. ~Queued(c) /\ (c \in Tasks => born[c] # NoThread)
      BY <2>1, TopFacts DEF Running
    <2>6. /\ mode'[c] \in {"code", "blocked"}
          /\ \A x \in Code : x # c => mode'[x] = mode[x]
      BY <1>0, <2>1
    <2>7. mode[u] = "code" /\ u # c
      BY <1>0, <2>1, <2>5
    <2>8. \A x \in Tasks : InFlight(x)' <=> InFlight(x) \/ x = u
      BY <1>0, <2>1, <2>4, <2>6, <2>7
    <2>9. \A x \in Tasks : AtP(x) <=> At(x) \/ x = u
      BY <2>2, <2>3
    <2>10. ASSUME NEW x \in Tasks, born'[x] = NoThread \/ Queued(x)'
           PROVE  mode'[x] = "code"
      <3>1. x # c
        BY <2>2, <2>4, <2>5, <2>7, <2>10
      <3> QED
        BY <1>0, <2>2, <2>4, <2>6, <2>7, <2>10, <3>1
    <2> HIDE DEF InFlight, At, AtP
    <2> QED
      BY <1>0, <2>8, <2>9, <2>10
  <1>3. ASSUME NEW c \in Code, Suspends(th, c)
        PROVE  /\ \A x \in Tasks : InFlight(x)' <=> AtP(x)
               /\ \A x \in Tasks :
                    born'[x] = NoThread \/ Queued(x)' => mode'[x] = "code"
    <2>1. /\ stack[th] # <<>> /\ c = Last(stack[th]) /\ Pop(th)
          /\ queue' = [queue EXCEPT ![Source(th)] = @ \cup {c}]
          /\ mode[c] = "code" /\ UNCHANGED <<mode, born>>
      BY <1>3 DEF Suspends, Suspend, Running
    <2>2. \A x : Queued(x)' <=> Queued(x) \/ x = c
      BY <1>0, <2>1, PushEffect, SourceIsThread
    <2>3. \A t \in Threads : \A x :
            Polled(t, x)' <=> Polled(t, x) /\ (t # th \/ x # c)
      BY <2>1, PopEffect
    <2>4. Polled(th, c)
      BY <2>1, TopFacts
    <2> QED
      BY <1>0, <2>1, <2>2, <2>3, <2>4
  <1>4. ASSUME NEW c \in Code, Takes(th, c) \/ Sends(th, c)
        PROVE  /\ \A x \in Tasks : InFlight(x)' <=> AtP(x)
               /\ \A x \in Tasks :
                    born'[x] = NoThread \/ Queued(x)' => mode'[x] = "code"
    <2>1. /\ UNCHANGED <<stack, queue, born>> /\ Running(th, c)
          /\ mode[c] \in {"code", "blocked"}
          /\ mode'[c] \in {"code", "sent"}
          /\ \A x \in Code : x # c => mode'[x] = mode[x]
      BY <1>0, <1>4 DEF Takes, Sends
    <2>2. ~Queued(c) /\ (c \in Tasks => born[c] # NoThread)
      BY <2>1, TopFacts DEF Running
    <2>3. \A x \in Tasks : InFlight(x)' <=> InFlight(x)
      BY <1>0, <2>1
    <2>4. \A x \in Tasks : AtP(x) <=> At(x)
      BY <2>1 DEF Queued, Polled
    <2>5. ASSUME NEW x \in Tasks, born'[x] = NoThread \/ Queued(x)'
          PROVE  mode'[x] = "code"
      <3>1. born[x] = NoThread \/ Queued(x)
        BY <2>1, <2>5 DEF Queued
      <3> QED
        BY <1>0, <2>1, <2>2, <3>1
    <2> QED
      BY <1>0, <2>3, <2>4, <2>5
  <1>5. ASSUME NEW c \in Code, EndsThread(th, c)
        PROVE  /\ \A x \in Tasks : InFlight(x)' <=> AtP(x)
               /\ \A x \in Tasks :
                    born'[x] = NoThread \/ Queued(x)' => mode'[x] = "code"
    <2>1. /\ \A t \in Threads : \A x : Polled(t, x)' <=> Polled(t, x) /\ t # th
          /\ \A x : Polled(th, x) => x = c
      BY <1>5, EndEffect
    <2>2. /\ UNCHANGED <<queue, born>> /\ c \notin Tasks
          /\ \A x \in Code : x # c => mode'[x] = mode[x]
      BY <1>0, <1>5 DEF EndsThread
    <2>3. \A x \in Tasks : AtP(x) <=> At(x)
      BY <2>1, <2>2 DEF Queued
    <2> QED
      BY <1>0, <2>2, <2>3 DEF Queued
  <1>6. ASSUME NEW c \in Code, Returns(th, c)
        PROVE  /\ \A x \in Tasks : InFlight(x)' <=> AtP(x)
               /\ \A x \in Tasks :
                    born'[x] = NoThread \/ Queued(x)' => mode'[x] = "code"
    <2>1. /\ stack[th] # <<>> /\ c = Last(stack[th]) /\ Pop(th)
          /\ UNCHANGED <<queue, born>> /\ mode'[c] = "done"
          /\ \A x \in Code : x # c => mode'[x] = mode[x]
      BY <1>0, <1>6 DEF Returns, Running
    <2>2. /\ ~Queued(c) /\ (c \in Tasks => born[c] # NoThread)
          /\ \A t \in Threads : Polled(t, c) => t = th
      BY <2>1, TopFacts
    <2>3. \A t \in Threads : \A x :
            Polled(t, x)' <=> Polled(t, x) /\ (t # th \/ x # c)
      BY <2>1, PopEffect
    <2>4. \A x : Queued(x)' <=> Queued(x)
      BY <2>1, SameQueues
    <2>5. \A x \in Tasks : AtP(x) <=> At(x) /\ x # c
      BY <2>2, <2>3, <2>4
    <2>6. \A x \in Tasks : InFlight(x)' <=> InFlight(x) /\ x # c
      BY <1>0, <2>1
    <2>7. ASSUME NEW x \in Tasks, born'[x] = NoThread \/ Queued(x)'
          PROVE  mode'[x] = "code"
      BY <1>0, <2>1, <2>2, <2>4, <2>7
    <2> QED
      BY <1>0, <2>5, <2>6, <2>7
  <1>7. ASSUME NEW r \in Threads, NEW u \in Tasks, Polls(th, r, u)
        PROVE  /\ \A x \in Tasks : InFlight(x)' <=> AtP(x)
               /\ \A x \in Tasks :
                    born'[x] = NoThread \/ Queued(x)' => mode'[x] = "code"
    <2>1. Poll(th, r, u) /\ UNCHANGED <<mode, born>>
      BY <1>7 DEF Polls
    <2>2. /\ \A t \in Threads : \A x :
               Polled(t, x)' <=> Polled(t, x) \/ (t = th /\ x = u)
          /\ \A x : Queued(x)' <=> Queued(x) /\ x # u
          /\ Queued(u)
      BY <2>1, PollEffect
    <2>3. \A x \in Tasks : AtP(x) <=> At(x)
      BY <2>2
    <2> QED
      BY <1>0, <2>1, <2>2, <2>3
  <1>8. ASSUME NEW S, Discards(S), Lose(S), UNCHANGED stack
        PROVE  /\ \A x \in Tasks : InFlight(x)' <=> AtP(x)
               /\ \A x \in Tasks :
                    born'[x] = NoThread \/ Queued(x)' => mode'[x] = "code"
    <2>1. \A x : Queued(x)' <=> Queued(x) /\ x \notin S
      BY <1>8, DiscardEffect
    <2>2. /\ \A x \in S : x \in Tasks /\ Queued(x)
          /\ UNCHANGED born
          /\ \A x \in Code : mode'[x] = IF x \in S THEN "lost" ELSE mode[x]
      BY <1>8 DEF Discards, Lose
    <2>3. \A t : \A x : Polled(t, x)' <=> Polled(t, x)
      BY <1>8, SameStacks
    <2>4. \A x \in S : x \in Tasks /\ born[x] # NoThread
                       /\ \A t \in Threads : ~Polled(t, x)
      BY <2>2, QueuedFacts
    <2>5. \A x \in Tasks : AtP(x) <=> At(x) /\ x \notin S
      BY <2>1, <2>3, <2>4
    <2>6. \A x \in Tasks : InFlight(x)' <=> InFlight(x) /\ x \notin S
      BY <1>0, <2>2
    <2>7. ASSUME NEW x \in Tasks, born'[x] = NoThread \/ Queued(x)'
          PROVE  mode'[x] = "code"
      BY <1>0, <2>1, <2>2, <2>4, <2>7
    <2> QED
      BY <1>0, <2>5, <2>6, <2>7
  <1>9. ASSUME NEW S, Unwinds(th, S)
        PROVE  /\ \A x \in Tasks : InFlight(x)' <=> AtP(x)
               /\ \A x \in Tasks :
                    born'[x] = NoThread \/ Queued(x)' => mode'[x] = "code"
    <2> DEFINE c == Last(stack[th])
               L == S \cup {c}
    <2>1. /\ stack[th] # <<>> /\ Pop(th) /\ Discards(S) /\ Lose(L)
      BY <1>9 DEF Unwinds
    <2>2. \A x : Queued(x)' <=> Queued(x) /\ x \notin S
      BY <2>1, DiscardEffect
    <2>3. /\ \A x \in S : x \in Tasks /\ Queued(x)
          /\ UNCHANGED born
          /\ \A x \in Code : mode'[x] = IF x \in L THEN "lost" ELSE mode[x]
      BY <2>1 DEF Discards, Lose
    <2>4. /\ ~Queued(c) /\ (c \in Tasks => born[c] # NoThread)
          /\ \A t \in Threads : Polled(t, c) => t = th
      BY <2>1, TopFacts
    <2>5. \A t \in Threads : \A x :
            Polled(t, x)' <=> Polled(t, x) /\ (t # th \/ x # c)
      BY <2>1, PopEffect
    <2>6. \A x \in S : x \in Tasks /\ born[x] # NoThread
                       /\ \A t \in Threads : ~Polled(t, x)
      BY <2>3, QueuedFacts
    <2> HIDE DEF c
    <2>7. \A x \in Tasks : AtP(x) <=> At(x) /\ x \notin L
      BY <2>2, <2>4, <2>5, <2>6
    <2>8. \A x \in Tasks : InFlight(x)' <=> InFlight(x) /\ x \notin L
      BY <1>0, <2>3
    <2>9. ASSUME NEW x \in Tasks, born'[x] = NoThread \/ Queued(x)'
          PROVE  mode'[x] = "code"
      BY <1>0, <2>2, <2>3, <2>4, <2>6, <2>9
    <2> QED
      BY <1>0, <2>7, <2>8, <2>9
  <1> QED
    BY <1>1, <1>2, <1>3, <1>4, <1>5, <1>6, <1>7, <1>8, <1>9 DEF Kinds


-----------------------------------------------------------------------------
(* What a step leaves alone.                                               *)

(* Only the code on top of the thread's stack, and tasks in queues, change. *)
LEMMA OthersStand ==
  ASSUME BInv, NEW th \in Threads, Kinds(th)
  PROVE  /\ \A x \in Code : ~Queued(x) /\ ~Polled(th, x) => mode'[x] = mode[x]
         /\ stack[th] # <<>> =>
              \A x \in Code : ~Queued(x) /\ x # Last(stack[th]) =>
                mode'[x] = mode[x]
         /\ \A x \in Code : ~Polled(th, x) => ip'[x] = ip[x]
         /\ \A t \in Threads : t # th => stack'[t] = stack[t]
         /\ \A t \in Threads : t # th => (t \in unwinding' <=> t \in unwinding)
  <1>0. /\ mode \in [Code -> Modes] /\ ip \in [Code -> Nat \ {0}]
        /\ stack \in [Threads -> Seq(Code)] /\ Ranges
    BY DEF BInv, HInv, Ranges
  <1>1. CASE Steady(th)
    BY <1>1 DEF Steady
  <1>2. ASSUME NEW c \in Code, Running(th, c)
        PROVE  stack[th] # <<>> /\ c = Last(stack[th]) /\ Polled(th, c)
    BY <1>2, TopFacts DEF Running
  <1>3. ASSUME NEW c \in Code, NEW u \in Tasks, Spawns(th, c, u)
        PROVE  /\ \A x \in Code : x # c => mode'[x] = mode[x] /\ ip'[x] = ip[x]
               /\ UNCHANGED <<stack, unwinding>> /\ Running(th, c)
    BY <1>0, <1>3 DEF Spawns, Skips, Step
  <1>4. ASSUME NEW c \in Code,
               \/ Suspends(th, c) \/ Takes(th, c) \/ EndsThread(th, c)
               \/ Sends(th, c) \/ Returns(th, c)
        PROVE  /\ \A x \in Code : x # c => mode'[x] = mode[x] /\ ip'[x] = ip[x]
               /\ \A t \in Threads : t # th => stack'[t] = stack[t]
               /\ UNCHANGED unwinding /\ Running(th, c)
    BY <1>0, <1>4 DEF Suspends, Suspend, Takes, EndsThread, Sends, Returns, Pop,
       Skips, Step
  <1>5. ASSUME NEW r \in Threads, NEW u \in Tasks, Polls(th, r, u)
        PROVE  /\ UNCHANGED <<mode, ip, unwinding>>
               /\ \A t \in Threads : t # th => stack'[t] = stack[t]
    BY <1>0, <1>5 DEF Polls, Poll
  <1>6. ASSUME NEW S, Discards(S), Lose(S), UNCHANGED <<stack, unwinding>>
        PROVE  /\ \A x \in Code : ~Queued(x) => mode'[x] = mode[x]
               /\ UNCHANGED <<stack, ip, unwinding>>
    BY <1>6 DEF Discards, Lose
  <1>7. ASSUME NEW S, Unwinds(th, S)
        PROVE  /\ stack[th] # <<>> /\ Polled(th, Last(stack[th]))
               /\ \A x \in Code : ~Queued(x) /\ x # Last(stack[th]) =>
                    mode'[x] = mode[x]
               /\ \A t \in Threads : t # th => stack'[t] = stack[t]
               /\ UNCHANGED <<ip, unwinding>>
    <2>1. stack[th] # <<>> /\ Pop(th) /\ Lose(S \cup {Last(stack[th])})
          /\ Discards(S) /\ UNCHANGED unwinding
      BY <1>7 DEF Unwinds
    <2> QED
      BY <1>0, <2>1, TopFacts DEF Lose, Pop, Discards
  <1> QED
    <2>1. CASE \E c \in Code, u \in Tasks : Spawns(th, c, u)
      BY <1>2, <1>3, <2>1
    <2>2. CASE \E c \in Code : \/ Suspends(th, c) \/ Takes(th, c)
                               \/ EndsThread(th, c) \/ Sends(th, c)
                               \/ Returns(th, c)
      BY <1>2, <1>4, <2>2
    <2> QED
      BY <1>1, <1>5, <1>6, <1>7, <2>1, <2>2 DEF Kinds

(* What is under another poll stays in its block_on.                       *)
LEMMA KeepsBelow ==
  ASSUME BInv, NEW th \in Threads, Kinds(th)
  PROVE  BlockedBelow'
  <1>0. /\ \A t \in Threads, x \in Code :
             Polled(t, x) /\ x # Last(stack[t]) => mode[x] = "blocked"
        /\ \A t \in Threads, x \in Code : Polled(t, x) => ~Queued(x) /\ stack[t] # <<>>
        /\ \A t, s \in Threads, x \in Code : Polled(t, x) /\ Polled(s, x) => t = s
    <2>1. ASSUME NEW t \in Threads, NEW x \in Code, Polled(t, x)
          PROVE  /\ ~Queued(x) /\ stack[t] # <<>>
                 /\ \A s \in Threads : Polled(s, x) => s = t
      <3>1. x \in Tasks \/ x \in Callers
        BY DEF Code
      <3>2. x \in Callers => ~Queued(x)
        BY RuntimesAssumption DEF Queued, BInv, HInv, Ranges
      <3>3. stack[t] # <<>>
        BY <2>1, EmptyLemma DEF Polled
      <3> QED
        BY <2>1, <3>1, <3>2, <3>3 DEF BInv, Apart
    <2> QED
      BY <2>1 DEF BInv, BlockedBelow
  <1>1. \A t \in Threads, x \in Code :
          Polled(t, x) /\ x # Last(stack[t]) => mode'[x] = "blocked"
    <2>1. ASSUME NEW t \in Threads, NEW x \in Code, Polled(t, x), x # Last(stack[t])
          PROVE  mode'[x] = "blocked"
      <3>1. CASE t = th
        BY <1>0, <2>1, <3>1, OthersStand
      <3>2. CASE t # th
        BY <1>0, <2>1, <3>2, OthersStand
      <3> QED
        BY <3>1, <3>2
    <2> QED
      BY <2>1
  <1> SUFFICES ASSUME NEW t \in Threads, NEW x \in Code,
                      Polled(t, x)', x # Last(stack'[t])
               PROVE  mode'[x] = "blocked"
    BY DEF BlockedBelow
  <1>2. CASE stack'[t] = stack[t]
    BY <1>1, <1>2 DEF Polled
  <1>3. CASE t = th /\ stack[th] # <<>> /\ Pop(th)
    BY <1>1, <1>3, PopEffect
  <1>4. ASSUME NEW r \in Threads, NEW u \in Tasks, Polls(th, r, u), t = th
        PROVE  mode'[x] = "blocked"
    <2>1. Polled(th, x)
      BY <1>4, PollEffect DEF Polls
    <2>2. CASE x = Last(stack[th])
      <3>1. stack[th] # <<>>
        BY <1>0, <2>1
      <3> QED
        BY <1>4, <2>2, <3>1 DEF Polls
    <2>3. CASE x # Last(stack[th])
      BY <1>1, <1>4, <2>1, <2>3
    <2> QED
      BY <2>2, <2>3
  <1>5. ASSUME NEW c \in Code, EndsThread(th, c), t = th
        PROVE  mode'[x] = "blocked"
    BY <1>5, EndEffect, EmptyLemma DEF Polled
  <1>6. CASE t # th
    BY <1>2, <1>6, OthersStand
  <1>7. ASSUME NEW c \in Code, Suspends(th, c) \/ Returns(th, c)
        PROVE  stack[th] # <<>> /\ Pop(th)
    BY <1>7 DEF Suspends, Suspend, Returns, Running
  <1>8. ASSUME NEW c \in Code, NEW u, Spawns(th, c, u)
        PROVE  UNCHANGED stack
    BY <1>8 DEF Spawns
  <1>9. ASSUME NEW c \in Code, Takes(th, c) \/ Sends(th, c)
        PROVE  UNCHANGED stack
    BY <1>9 DEF Takes, Sends
  <1>10. ASSUME NEW S, Unwinds(th, S)
         PROVE  stack[th] # <<>> /\ Pop(th)
    BY <1>10 DEF Unwinds
  <1>11. CASE Steady(th)
    BY <1>2, <1>11 DEF Steady
  <1> QED
    BY <1>2, <1>3, <1>4, <1>5, <1>6, <1>7, <1>8, <1>9, <1>10, <1>11 DEF Kinds

(* Code stays at the block_on it is in.                                    *)
LEMMA KeepsAtBlockOn ==
  ASSUME BInv, NEW th \in Threads, Kinds(th), script' = script
  PROVE  BlockedAt'
  <1>0. /\ mode \in [Code -> Modes] /\ ip \in [Code -> Nat \ {0}]
        /\ \A c \in Code : mode[c] = "blocked" => AtBlockOn(c)
    BY DEF BInv, HInv, Ranges, BlockedAt
  <1> SUFFICES ASSUME NEW x \in Code, mode'[x] = "blocked"
               PROVE  AtBlockOn(x)'
    BY DEF BlockedAt
  <1>1. ASSUME AtBlockOn(x), ip'[x] = ip[x] PROVE AtBlockOn(x)'
    BY <1>1 DEF AtBlockOn
  <1>2. ASSUME UNCHANGED ip, mode'[x] = mode[x] PROVE AtBlockOn(x)'
    BY <1>0, <1>1, <1>2
  <1>3. CASE Steady(th)
    BY <1>2, <1>3 DEF Steady
  <1>4. ASSUME NEW c \in Code, NEW u \in Tasks, Spawns(th, c, u)
        PROVE  AtBlockOn(x)'
    <2>1. CASE x = c
      BY <1>0, <1>1, <1>4, <2>1 DEF Spawns
    <2>2. CASE x # c
      BY <1>0, <1>1, <1>4, <2>2 DEF Spawns, Skips, Step
    <2> QED
      BY <2>1, <2>2
  <1>5. ASSUME NEW c \in Code, Suspends(th, c)
        PROVE  AtBlockOn(x)'
    <2>1. x # c
      BY <1>0, <1>5 DEF Suspends
    <2> QED
      BY <1>0, <1>1, <1>5, <2>1 DEF Suspends, Skips, Step
  <1>6. ASSUME NEW c \in Code, Takes(th, c)
        PROVE  AtBlockOn(x)'
    <2>1. x # c
      BY <1>0, <1>6 DEF Takes
    <2> QED
      BY <1>0, <1>1, <1>6, <2>1 DEF Takes, Step
  <1>7. ASSUME NEW c \in Code,
               EndsThread(th, c) \/ Sends(th, c) \/ Returns(th, c)
        PROVE  AtBlockOn(x)'
    <2>1. x # c /\ mode'[x] = mode[x]
      BY <1>0, <1>7 DEF EndsThread, Sends, Returns
    <2> QED
      BY <1>2, <1>7, <2>1 DEF EndsThread, Sends, Returns
  <1>8. ASSUME NEW r \in Threads, NEW u \in Tasks, Polls(th, r, u)
        PROVE  AtBlockOn(x)'
    BY <1>2, <1>8 DEF Polls
  <1>9. ASSUME NEW S, NEW L, Discards(S), Lose(L)
        PROVE  AtBlockOn(x)'
    BY <1>2, <1>9 DEF Discards, Lose
  <1> QED
    BY <1>3, <1>4, <1>5, <1>6, <1>7, <1>8, <1>9 DEF Kinds, Unwinds

(* A thread that unwinds lost no result, whatever the others do.           *)
LEMMA KeepsUnsent ==
  ASSUME BInv, NEW th \in Threads, Kinds(th)
  PROVE  UnwindsUnsent'
  <1>0. /\ \A t \in unwinding : stack[t] # <<>> => mode[Last(stack[t])] \in {"code", "blocked"}
        /\ unwinding \subseteq Threads /\ Ranges
    BY DEF BInv, UnwindsUnsent, HInv, Ranges
  <1> SUFFICES ASSUME NEW t \in unwinding', stack'[t] # <<>>
               PROVE  mode'[Last(stack'[t])] \in {"code", "blocked"}
    BY DEF UnwindsUnsent
  <1>1. CASE t # th /\ t \in Threads
    <2>1. t \in unwinding /\ stack'[t] = stack[t]
      BY <1>1, OthersStand
    <2>2. /\ Last(stack[t]) \in Code /\ ~Queued(Last(stack[t]))
          /\ ~Polled(th, Last(stack[t]))
      BY <1>1, <2>1, TopFacts
    <2>3. mode'[Last(stack[t])] = mode[Last(stack[t])]
      BY <2>2, OthersStand
    <2> QED
      BY <1>0, <2>1, <2>3
  <1>2. CASE Steady(th)
    BY <1>0, <1>2 DEF Steady
  <1>3. ASSUME NEW c \in Code, Running(th, c), UNCHANGED unwinding
        PROVE  t # th
    BY <1>3 DEF Running
  <1>4. ASSUME NEW c \in Code, NEW u \in Tasks, Spawns(th, c, u)
        PROVE  t # th /\ t \in Threads
    BY <1>0, <1>3, <1>4 DEF Spawns
  <1>5. ASSUME NEW c \in Code,
               \/ Suspends(th, c) \/ Takes(th, c) \/ EndsThread(th, c)
               \/ Sends(th, c) \/ Returns(th, c)
        PROVE  t # th /\ t \in Threads
    BY <1>0, <1>3, <1>5 DEF Suspends, Takes, EndsThread, Sends, Returns
  <1>6. ASSUME NEW r \in Threads, NEW u \in Tasks, Polls(th, r, u), t = th
        PROVE  mode'[Last(stack'[t])] \in {"code", "blocked"}
    <2>1. Queued(u) /\ Last(stack'[th]) = u
      BY <1>6, PollEffect DEF Polls
    <2>2. mode[u] = "code"
      BY <2>1, QueuedFacts
    <2> QED
      BY <1>6, <2>1, <2>2 DEF Polls
  <1>7. ASSUME NEW S, Discards(S), Lose(S), UNCHANGED <<stack, unwinding>>, t = th
        PROVE  mode'[Last(stack'[t])] \in {"code", "blocked"}
    <2>1. Last(stack[t]) \in Code /\ ~Queued(Last(stack[t]))
      BY <1>7, TopFacts
    <2>2. mode'[Last(stack[t])] = mode[Last(stack[t])]
      BY <1>7, <2>1 DEF Discards, Lose
    <2> QED
      BY <1>0, <1>7, <2>2
  <1>8. ASSUME NEW S, Unwinds(th, S), t = th
        PROVE  mode'[Last(stack'[t])] \in {"code", "blocked"}
    <2>1. stack[th] # <<>> /\ Pop(th)
      BY <1>8 DEF Unwinds
    <2> DEFINE x == Last(stack'[th])
    <2>2. Polled(th, x) /\ x # Last(stack[th])
      BY <1>8, <2>1, PopEffect
    <2>3. x \in Code /\ ~Queued(x)
      <3>1. x \in Code
        BY <2>2, MembersLemma DEF Polled, BInv, HInv, Ranges
      <3>2. x \in Callers => ~Queued(x)
        BY RuntimesAssumption DEF Queued, BInv, HInv, Ranges
      <3> QED
        BY <2>2, <3>1, <3>2 DEF Code, BInv, Apart
    <2>4. mode[x] = "blocked"
      BY <2>2, <2>3 DEF BInv, BlockedBelow
    <2>5. mode'[x] = mode[x]
      BY <2>1, <2>2, <2>3, OthersStand
    <2> QED
      BY <1>8, <2>4, <2>5
  <1>9. t = th => t \in Threads
    OBVIOUS
  <1>10. Kinds(th) => unwinding' \subseteq Threads
    <2>1. CASE Steady(th)
      BY <1>0, <2>1 DEF Steady
    <2>2. CASE unwinding' = unwinding
      BY <1>0, <2>2
    <2> QED
      BY <2>1, <2>2 DEF Kinds, Spawns, Suspends, Takes, EndsThread, Sends,
         Returns, Polls, Unwinds
  <1> QED
    BY <1>1, <1>2, <1>4, <1>5, <1>6, <1>7, <1>8, <1>10 DEF Kinds


-----------------------------------------------------------------------------
(* Results.                                                                *)

(* What a step of the code adds to the results that are taken.             *)
TakesAt(c, u) ==
  /\ ip[c] \in 1 .. Len(script[c])
  /\ script[c][ip[c]] \in {AwaitOp(u), BlockOnOp(u)}

(* Code that passes an operation takes what that operation waits for, and  *)
(* nothing else.                                                           *)
LEMMA TakenMoves ==
  ASSUME Ranges, NEW c \in Code, Step(c), script' = script, NEW u \in Tasks
  PROVE  Taken(u)' <=> Taken(u) \/ TakesAt(c, u)
  <1>1. /\ \A x \in Code : ip'[x] = IF x = c THEN ip[x] + 1 ELSE ip[x]
        /\ \A x \in Code : ip[x] \in Nat
        /\ \A x \in Code : DOMAIN script[x] = 1 .. Len(script[x])
    BY DEF Ranges, Step
  <1>2. ASSUME NEW x \in Code, NEW i \in DOMAIN script[x]
        PROVE  i < ip'[x] <=> i < ip[x] \/ (x = c /\ i = ip[x])
    BY <1>1
  <1>3. Taken(u)' <=> \E x \in Code : \E i \in DOMAIN script[x] :
                        /\ i < ip'[x]
                        /\ script[x][i] \in {AwaitOp(u), BlockOnOp(u)}
    BY DEF Taken
  <1>4. TakesAt(c, u) <=> \E i \in DOMAIN script[c] :
                            /\ i = ip[c]
                            /\ script[c][i] \in {AwaitOp(u), BlockOnOp(u)}
    BY <1>1 DEF TakesAt
  <1> QED
    BY <1>2, <1>3, <1>4 DEF Taken

(* Code that passes something else takes nothing.                          *)
LEMMA SkipsTakeNothing ==
  ASSUME Ranges, NEW c \in Code, Skips(c), script' = script, NEW u \in Tasks
  PROVE  Taken(u)' <=> Taken(u)
  <1>1. Step(c) /\ script[c][ip[c]].do \notin {"await", "block_on"}
    BY DEF Skips
  <1>2. ~TakesAt(c, u)
    <2>1. AwaitOp(u).do = "await" /\ BlockOnOp(u).do = "block_on"
      BY DEF AwaitOp, BlockOnOp
    <2> QED
      BY <1>1, <2>1 DEF TakesAt
  <1> QED
    BY <1>1, <1>2, TakenMoves

(* Where no code passes an operation nothing is taken.                     *)
LEMMA SameTaken ==
  ASSUME UNCHANGED <<ip, script>>, NEW u
  PROVE  Taken(u)' <=> Taken(u)
  BY DEF Taken

(* Whoever passes an await or a block_on takes the result of its operand.  *)
LEMMA TakesOperand ==
  ASSUME Ranges, NEW th \in Threads, NEW c \in Code, Takes(th, c)
  PROVE  /\ Operand(c) \in Tasks
         /\ \A u \in Tasks : TakesAt(c, u) <=> u = Operand(c)
  <1>1. /\ ip[c] \in 1 .. Len(script[c])
        /\ script[c][ip[c]].do \in {"await", "block_on"}
        /\ script[c] \in Seq(Op)
    BY DEF Takes, Ranges
  <1>2. ip[c] <= Len(script[c])
    BY <1>1
  <1>3. Operand(c) \in Tasks
    BY <1>1, <1>2, OperandIsTask
  <1>4. script[c][ip[c]] \in Op
    BY <1>1
  <1>5. script[c][ip[c]] \in [do : {"spawn", "await", "block_on"}, task : Tasks]
    BY <1>1, <1>4 DEF Op
  <1>6. \A u \in Tasks :
          script[c][ip[c]] \in {AwaitOp(u), BlockOnOp(u)} <=> u = Operand(c)
    BY <1>1, <1>5 DEF AwaitOp, BlockOnOp, Operand
  <1> QED
    BY <1>1, <1>3, <1>6 DEF TakesAt

(* A result that was sent stays sent.                                      *)
LEMMA ResultsStay ==
  ASSUME BInv, NEW th \in Threads, Kinds(th), NEW u \in Tasks, HasResult(u)
  PROVE  HasResult(u)'
  <1>0. /\ mode \in [Code -> Modes] /\ u \in Code
        /\ mode[u] \in {"sent", "done"} /\ ~Queued(u)
    BY QueuedFacts DEF BInv, HInv, Ranges, Code, HasResult
  <1> SUFFICES mode'[u] \in {"sent", "done"}
    BY DEF HasResult
  <1>1. CASE ~Polled(th, u)
    BY <1>0, <1>1, OthersStand
  <1>2. CASE Polled(th, u)
    <2>1. stack[th] # <<>>
      BY <1>2, EmptyLemma DEF Polled
    <2>2. u = Last(stack[th])
      BY <1>0, <1>2 DEF BInv, BlockedBelow
    <2>3. CASE UNCHANGED mode
      BY <1>0, <2>3
    <2>4. ASSUME NEW c \in Code,
                 \/ (\E v \in Tasks : Spawns(th, c, v)) \/ Takes(th, c)
                 \/ EndsThread(th, c) \/ Sends(th, c)
          PROVE  FALSE
      BY <1>0, <2>2, <2>4 DEF Spawns, Takes, EndsThread, Sends, Running
    <2>5. ASSUME NEW c \in Code, Returns(th, c)
          PROVE  mode'[u] \in {"sent", "done"}
      BY <1>0, <2>5 DEF Returns
    <2>6. ASSUME NEW S, Discards(S), Lose(S)
          PROVE  mode'[u] \in {"sent", "done"}
      BY <1>0, <2>6 DEF Discards, Lose
    <2>7. ASSUME NEW S, Unwinds(th, S)
          PROVE  FALSE
      BY <1>0, <2>1, <2>2, <2>7 DEF Unwinds, BInv, UnwindsUnsent
    <2> QED
      BY <2>3, <2>4, <2>5, <2>6, <2>7
         DEF Kinds, Steady, Suspends, Polls
  <1> QED
    BY <1>1, <1>2

(* An operation that waits is passed when the result is there, and results *)
(* stay.                                                                   *)
LEMMA KeepsTaken ==
  ASSUME BInv, NEW th \in Threads, Kinds(th), script' = script
  PROVE  TakenWasSent'
  <1>0. Ranges /\ \A u \in Tasks : Taken(u) => HasResult(u)
    BY DEF BInv, HInv, TakenWasSent
  <1> SUFFICES ASSUME NEW u \in Tasks, Taken(u)' PROVE HasResult(u)'
    BY DEF TakenWasSent
  <1>1. CASE Taken(u)
    BY <1>0, <1>1, ResultsStay
  <1>2. ASSUME NEW c \in Code, Takes(th, c) PROVE Taken(u) \/ HasResult(u)
    BY <1>0, <1>2, TakenMoves, TakesOperand DEF Takes
  <1>3. ASSUME NEW c \in Code, NEW v \in Tasks, Spawns(th, c, v)
        PROVE  Taken(u)
    BY <1>0, <1>3, SkipsTakeNothing, SameTaken DEF Spawns
  <1>4. ASSUME NEW c \in Code, Suspends(th, c)
        PROVE  Taken(u)
    BY <1>0, <1>4, SkipsTakeNothing, SameTaken DEF Suspends
  <1>5. ASSUME UNCHANGED ip PROVE Taken(u)
    BY <1>5, SameTaken
  <1>6. ASSUME NEW c \in Code, EndsThread(th, c) \/ Sends(th, c) \/ Returns(th, c)
        PROVE  UNCHANGED ip
    BY <1>6 DEF EndsThread, Sends, Returns
  <1>7. Taken(u) \/ HasResult(u)
    BY <1>2, <1>3, <1>4, <1>5, <1>6
       DEF Kinds, Steady, Polls, Discards, Unwinds
  <1> QED
    BY <1>1, <1>7, ResultsStay

-----------------------------------------------------------------------------
(* A runtime is made inside of a call.                                     *)

(* A step of a thread changes the runtime of that thread only.             *)
LEMMA OwnRuntime ==
  ASSUME Ranges, NEW th \in Threads, ThreadStep(th), NEW t \in Threads, t # th
  PROVE  runtime'[t] = runtime[t]
  <1> USE DEF threadVars
  <1>1. ASSUME NEW c \in Code, CodeStep(th, c) PROVE runtime' = runtime
    BY <1>1 DEF CodeStep, GlobalSpawn, GlobalBlockOn, Await, Yield, Panic,
       Finish, Return, Recv, RecvDisconnected, Help
  <1>2. ASSUME NEW u \in Tasks, WorkerPoll(th, u) PROVE runtime' = runtime
    BY <1>2 DEF WorkerPoll
  <1> QED
    BY <1>1, <1>2 DEF Ranges, ThreadStep, StartRuntime, StartWorker, StartFails,
       StoreRuntime, Quit, Unwind, DropRuntime, Exit, DropDone

(* While a thread makes its runtime, it does nothing else.                 *)
LEMMA Starting ==
  ASSUME BInv, NEW th \in Threads, ThreadStep(th), runtime'[th] = "starting"
  PROVE  UNCHANGED codeVars /\ \E c \in Code : AtOp(th, c, {"spawn", "block_on"})
  <1>0. runtime \in [Threads -> RuntimeStates]
    BY DEF BInv, HInv, Ranges
  <1>1. CASE StartRuntime(th)
    BY <1>1 DEF StartRuntime
  <1>2. CASE runtime[th] # "starting" /\ ~StartRuntime(th)
    <2> USE DEF threadVars
    <2>1. ASSUME NEW c \in Code, CodeStep(th, c) PROVE runtime' = runtime
      BY <2>1 DEF CodeStep, GlobalSpawn, GlobalBlockOn, Await, Yield, Panic,
         Finish, Return, Recv, RecvDisconnected, Help
    <2>2. ASSUME NEW u \in Tasks, WorkerPoll(th, u) PROVE runtime' = runtime
      BY <2>2 DEF WorkerPoll
    <2> QED
      BY <1>0, <1>2, <2>1, <2>2 DEF ThreadStep, StartWorker, StartFails,
         StoreRuntime, Quit, Unwind, DropRuntime, Exit, DropDone
  <1>3. CASE runtime[th] = "starting"
    <2>1. PICK c \in Code : AtOp(th, c, {"spawn", "block_on"})
      BY <1>3 DEF BInv, StartsAtCall
    <2>2. /\ Running(th, c) /\ mode[c] = "code" /\ ip[c] \in 1 .. Len(script[c])
          /\ script[c][ip[c]].do \in {"spawn", "block_on"}
      BY <2>1, AtOpFacts DEF BInv, HInv
    <2>3. /\ th \notin unwinding /\ stack[th] # <<>> /\ c = Last(stack[th])
          /\ ~(ip[c] > Len(script[c]))
      <3>1. script[c] \in Seq(Op) /\ ip[c] \in Nat
        BY DEF BInv, HInv, Ranges
      <3> QED
        BY <2>2, <3>1 DEF Running
    <2>4. ASSUME NEW x \in Code, CodeStep(th, x) PROVE FALSE
      <3>1. Running(th, x) /\ x = c
        BY <2>3, <2>4 DEF CodeStep, GlobalSpawn, GlobalBlockOn, Await, Yield,
           Panic, Finish, Return, Recv, RecvDisconnected, Help, Blocked, AtOp,
           Running
      <3>2. ASSUME NEW ops, AtOp(th, c, ops)
            PROVE  script[c][ip[c]].do \in ops
        BY <3>2 DEF AtOp
      <3>3. ~GlobalSpawn(th, c) /\ ~GlobalBlockOn(th, c)
        BY <1>3 DEF GlobalSpawn, GlobalBlockOn
      <3>4. ~Await(th, c) /\ ~Yield(th, c) /\ ~Panic(th, c)
        BY <2>2, <3>2 DEF Await, Yield, Panic
      <3>5. ~Finish(th, c) /\ ~Return(th, c)
        BY <2>2, <2>3 DEF Finish, Return
      <3>6. /\ ~Recv(th, c) /\ ~RecvDisconnected(th, c)
            /\ \A u \in Tasks : ~Help(th, c, u)
        BY <2>2 DEF Recv, RecvDisconnected, Help, Blocked
      <3> QED
        BY <2>4, <3>1, <3>3, <3>4, <3>5, <3>6 DEF CodeStep
    <2>5. /\ \A u \in Tasks : ~WorkerPoll(th, u)
          /\ ~Quit(th) /\ ~Unwind(th)
      BY <2>3 DEF WorkerPoll, Quit, Unwind, Idle
    <2>6. ~StartFails(th) /\ ~StoreRuntime(th) /\ ~DropRuntime(th) /\ ~DropDone(th)
      BY <1>0, <1>3 DEF StartFails, StoreRuntime, DropRuntime, HasRuntime,
         DropDone
    <2> QED
      BY <2>1, <2>4, <2>5, <2>6 DEF ThreadStep, StartRuntime, StartWorker, Exit
  <1> QED
    BY <1>1, <1>2, <1>3

(* While a runtime starts, the code that called for it does not move.      *)
LEMMA KeepsStarts ==
  ASSUME BInv, NEW th \in Threads, Kinds(th), ThreadStep(th), script' = script
  PROVE  StartsAtCall'
  <1> SUFFICES ASSUME NEW t \in Threads, runtime'[t] = "starting"
               PROVE  \E c \in Code : AtOp(t, c, {"spawn", "block_on"})'
    BY DEF StartsAtCall
  <1>1. CASE t = th
    <2>1. UNCHANGED codeVars /\ \E c \in Code : AtOp(th, c, {"spawn", "block_on"})
      BY <1>1, Starting
    <2> QED
      BY <1>1, <2>1 DEF AtOp, Running, codeVars
  <1>2. CASE t # th
    <2>1. runtime[t] = "starting"
      BY <1>2, OwnRuntime DEF BInv, HInv
    <2>2. PICK c \in Code : AtOp(t, c, {"spawn", "block_on"})
      BY <2>1 DEF BInv, StartsAtCall
    <2>3. stack[t] # <<>> /\ c = Last(stack[t]) /\ t \notin unwinding
      BY <2>2 DEF AtOp, Running
    <2>4. ~Queued(c) /\ ~Polled(th, c)
      BY <1>2, <2>3, TopFacts
    <2>5. /\ mode'[c] = mode[c] /\ ip'[c] = ip[c] /\ stack'[t] = stack[t]
          /\ t \notin unwinding'
      BY <1>2, <2>3, <2>4, OthersStand
    <2>6. AtOp(t, c, {"spawn", "block_on"})'
      BY <2>2, <2>5 DEF AtOp, Running
    <2> QED
      BY <2>6
  <1> QED
    BY <1>1, <1>2

-----------------------------------------------------------------------------
(* The invariant, of all steps.                                            *)

LEMMA InitBooks == Init => BInv
  <1> SUFFICES ASSUME Init PROVE BInv
    OBVIOUS
  <1>1. HInv
    BY InitHomes
  <1>2. \A th \in Threads : /\ th \in Callers => stack[th] = <<th>>
                            /\ th \notin Callers => stack[th] = <<>>
    BY DEF Init
  <1>3. \A th \in Threads : \A x : Polled(th, x) => x = th /\ th \in Callers
    BY <1>2, SingletonLemma, EmptyLemma DEF Polled
  <1>4. \A x : ~Queued(x)
    BY DEF Init, Queued
  <1>5. \A u \in Tasks : \A th \in Threads : ~Polled(th, u)
    BY <1>3, RuntimesAssumption
  <1>6. Apart
    <2>1. \A th \in Threads : IsInjective(stack[th])
      BY <1>2, SingletonLemma, EmptyLemma
    <2>2. ASSUME NEW th \in Threads, NEW i \in 1 .. Len(stack[th]), i > 1
          PROVE  FALSE
      <3>1. CASE th \in Callers
        <4>1. stack[th] = <<th>>
          BY <1>2, <3>1
        <4>2. Len(<<th>>) = 1
          OBVIOUS
        <4> QED
          BY <2>2, <4>1, <4>2
      <3>2. CASE th \notin Callers
        BY <1>2, <2>2, <3>2
      <3> QED
        BY <3>1, <3>2
    <2> QED
      BY <1>3, <1>5, <2>1, <2>2 DEF Apart
  <1>7. NotMislaid /\ WaitsInCode
    BY <1>4, <1>5 DEF Init, NotMislaid, InFlight, WaitsInCode, Code
  <1>8. BlockedBelow
    <2>1. ASSUME NEW th \in Threads, NEW x \in Code, Polled(th, x)
          PROVE  x = Last(stack[th])
      <3>1. stack[th] = <<th>> /\ x = th
        BY <1>2, <1>3, <2>1
      <3>2. <<th>> \in Seq(Threads) /\ <<th>> # <<>> /\ Len(<<th>>) = 1
        OBVIOUS
      <3>3. Last(<<th>>) = <<th>>[1]
        BY <3>2, FramesLemma
      <3> QED
        BY <3>1, <3>3
    <2> QED
      BY <2>1 DEF BlockedBelow
  <1>9. BlockedAt /\ UnwindsUnsent /\ StartsAtCall
    BY DEF Init, BlockedAt, UnwindsUnsent, StartsAtCall
  <1>10. TakenWasSent
    <2>1. \A c \in Code : \A i \in DOMAIN script[c] : ~(i < ip[c])
      <3>1. ASSUME NEW c \in Code, NEW i \in DOMAIN script[c]
            PROVE  ~(i < ip[c])
        <4>1. script[c] \in Seq(Op) /\ ip[c] = 1
          BY <1>1 DEF Init, HInv, Ranges
        <4>2. i \in 1 .. Len(script[c])
          BY <4>1
        <4> QED
          BY <4>1, <4>2
      <3> QED
        BY <3>1
    <2> QED
      BY <2>1 DEF TakenWasSent, Taken
  <1> QED
    BY <1>1, <1>6, <1>7, <1>8, <1>9, <1>10 DEF BInv

(* BInv is inductive: each part follows from the kinds of steps.           *)
LEMMA NextBooks ==
  ASSUME BInv, [Next]_vars
  PROVE  BInv'
  <1>1. CASE UNCHANGED vars
    BY <1>1 DEF BInv, HInv, Ranges, Births, FramesAtHome, QueuesAtHome, HomeOf,
       IsWorker, Apart, Polled, Queued, NotMislaid, InFlight, WaitsInCode,
       BlockedBelow, BlockedAt, AtBlockOn, UnwindsUnsent, TakenWasSent, Taken,
       HasResult, StartsAtCall, AtOp, Running, vars, codeVars, threadVars,
       taskVars
  <1>2. CASE ~UNCHANGED vars
    <2>1. PICK th \in Threads : Kinds(th) /\ ThreadStep(th) /\ script' = script
      BY <1>2, NextKind
    <2>2. HInv'
      BY NextHomes DEF BInv
    <2>3. Apart' /\ NotMislaid' /\ WaitsInCode'
      BY <2>1, KeepsApart, KeepsPlaces
    <2>4. BlockedBelow' /\ BlockedAt' /\ UnwindsUnsent'
      BY <2>1, KeepsBelow, KeepsAtBlockOn, KeepsUnsent
    <2>5. TakenWasSent' /\ StartsAtCall'
      BY <2>1, KeepsTaken, KeepsStarts
    <2> QED
      BY <2>2, <2>3, <2>4, <2>5 DEF BInv
  <1> QED
    BY <1>1, <1>2


-----------------------------------------------------------------------------
(* The lives of threads and of their runtimes.                             *)

(* Code runs on living threads.                                            *)
StacksAlive == \A th \in Threads : life[th] # "alive" => stack[th] = <<>>

(* A runtime is dropped after its thread's closure, and before the thread  *)
(* is dead.                                                                *)
EndsInOrder ==
  \A th \in Threads :
    /\ life[th] = "unborn" => runtime[th] = "none" /\ ~IsWorker(th)
    /\ runtime[th] = "dropping" => life[th] = "ending"
    /\ runtime[th] = "gone" => life[th] = "dead"
    /\ life[th] = "dead" => runtime[th] \in {"none", "failed", "gone"}

(* Workers belong to a runtime, or to one that failed to start.            *)
WorkersHaveRuntime ==
  \A th \in Threads : \A w \in WorkersOf(th) : runtime[th] # "none"

(* A runtime that is gone has no task left, and no live worker.            *)
GoneIsEmpty ==
  \A th \in Threads : runtime[th] = "gone" =>
    queue[th] = {} /\ \A w \in WorkersOf(th) : life[w] = "dead"

LInv == /\ StacksAlive /\ EndsInOrder /\ WorkersHaveRuntime
        /\ GoneIsEmpty /\ OnlyFailedStartsLeak

(* The closure of a thread is over.                                        *)
Leaves(th) ==
  /\ stack[th] # <<>> \/ life[th] = "alive"
  /\ stack'[th] = <<>>
  /\ life' = [life EXCEPT ![th] = "ending"]
  /\ UNCHANGED <<home, runtime>>

(* The steps by what they do to threads and runtimes.                      *)
LEMMA LifeStep ==
  ASSUME BInv, NEW th \in Threads, ThreadStep(th)
  PROVE  \/ UNCHANGED threadVars \/ Leaves(th)
         \/ StartRuntime(th) \/ StartWorker(th) \/ StartFails(th)
         \/ StoreRuntime(th) \/ DropRuntime(th) \/ Exit(th) \/ DropDone(th)
  <1> USE DEF threadVars
  <1>0. stack \in [Threads -> Seq(Code)]
    BY DEF BInv, HInv, Ranges
  <1>1. ASSUME NEW c \in Code, CodeStep(th, c)
        PROVE  UNCHANGED threadVars \/ Leaves(th)
    <2>1. CASE Finish(th, c) /\ c \notin Tasks
      <3>1. /\ stack[th] # <<>> /\ life' = [life EXCEPT ![th] = "ending"]
            /\ stack' = [stack EXCEPT ![th] = <<>>] /\ UNCHANGED <<home, runtime>>
        BY <2>1 DEF Finish, Running
      <3> QED
        BY <1>0, <3>1 DEF Leaves
    <2>2. CASE Finish(th, c) /\ c \in Tasks
      BY <2>2 DEF Finish
    <2> QED
      BY <1>1, <2>1, <2>2 DEF CodeStep, GlobalSpawn, GlobalBlockOn, Await,
         Yield, Panic, Return, Recv, RecvDisconnected, Help
  <1>2. ASSUME NEW u \in Tasks, WorkerPoll(th, u) PROVE UNCHANGED threadVars
    BY <1>2 DEF WorkerPoll
  <1>3. ASSUME Quit(th) PROVE Leaves(th)
    BY <1>3 DEF Quit, Idle, Leave, Leaves
  <1>4. ASSUME Unwind(th) PROVE UNCHANGED threadVars \/ Leaves(th)
    <2>1. /\ stack[th] # <<>> /\ stack' = [stack EXCEPT ![th] = Front(@)]
          /\ UNCHANGED <<home, runtime>>
      BY <1>4 DEF Unwind, Pop
    <2>2. CASE Len(stack[th]) > 1
      BY <1>4, <2>2 DEF Unwind
    <2>3. CASE ~(Len(stack[th]) > 1)
      <3>1. life' = [life EXCEPT ![th] = "ending"]
        BY <1>4, <2>3 DEF Unwind, Leave
      <3>2. /\ Len(stack[th]) \in Nat /\ Len(stack[th]) > 0
            /\ Front(stack[th]) \in Seq(Code)
            /\ Len(Front(stack[th])) = Len(stack[th]) - 1
        BY <1>0, <2>1, FramesLemma
      <3>3. Len(Front(stack[th])) = 0
        <4> DEFINE n == Len(stack[th])
        <4>1. n \in Nat /\ n > 0 /\ ~(n > 1) /\ Len(Front(stack[th])) = n - 1
          BY <2>3, <3>2
        <4> HIDE DEF n
        <4> QED
          BY <4>1
      <3>4. stack'[th] = <<>>
        BY <1>0, <2>1, <3>2, <3>3
      <3> QED
        BY <2>1, <3>1, <3>4 DEF Leaves
    <2> QED
      BY <2>2, <2>3
  <1> QED
    BY <1>1, <1>2, <1>3, <1>4 DEF ThreadStep

(* An empty stack is only begun by a worker's poll.                        *)
LEMMA StackGrows ==
  ASSUME BInv, NEW th \in Threads, ThreadStep(th),
         NEW t \in Threads, stack[t] = <<>>, stack'[t] # <<>>
  PROVE  life[t] = "alive" /\ UNCHANGED life
  <1> USE DEF codeVars, threadVars, taskVars
  <1>0. stack \in [Threads -> Seq(Code)] /\ HInv
    BY DEF BInv, HInv, Ranges
  <1>1. ASSUME stack[th] # <<>>, Pop(th) PROVE FALSE
    BY <1>0, <1>1, PopMove
  <1>2. ASSUME NEW c \in Code, CodeStep(th, c) PROVE FALSE
    <2>1. stack[th] # <<>> /\ t # th
      BY <1>2 DEF CodeStep, GlobalSpawn, GlobalBlockOn, Await, Yield, Panic,
         Finish, Return, Recv, RecvDisconnected, Help, Blocked, AtOp, Running
    <2>2. Pop(th) \/ stack' = stack \/ stack'[t] = stack[t]
      BY <1>0, <1>2, <2>1
         DEF CodeStep, GlobalSpawn, GlobalBlockOn, Await, Yield, Panic, Finish,
             Return, Recv, RecvDisconnected, Help, Suspend, Poll
    <2> QED
      BY <1>1, <2>1, <2>2
  <1>3. ASSUME NEW u \in Tasks, WorkerPoll(th, u)
        PROVE  life[t] = "alive" /\ UNCHANGED life
    <2>1. t = th
      BY <1>0, <1>3 DEF WorkerPoll, Poll
    <2> QED
      BY <1>3, <2>1 DEF WorkerPoll, Idle
  <1> QED
    BY <1>1, <1>2, <1>3 DEF ThreadStep, StartRuntime, StartWorker, StartFails,
       StoreRuntime, Quit, Unwind, DropRuntime, Exit, DropDone

(* What a queue gains, it gains from a spawn or from a poll that ends.     *)
LEMMA QueueGrows ==
  ASSUME BInv, NEW th \in Threads, ThreadStep(th), NEW t \in Threads
  PROVE  \/ queue'[t] \subseteq queue[t]
         \/ t = th /\ runtime[th] = "up"
         \/ stack[th] # <<>> /\ t = Source(th)
  <1> USE DEF codeVars, threadVars, taskVars
  <1>0. queue \in [Threads -> SUBSET Tasks]
    BY DEF BInv, HInv, Ranges
  <1>1. ASSUME NEW c \in Code, CodeStep(th, c)
        PROVE  \/ queue'[t] \subseteq queue[t]
               \/ t = th /\ runtime[th] = "up"
               \/ stack[th] # <<>> /\ t = Source(th)
    <2>1. CASE GlobalSpawn(th, c) \/ GlobalBlockOn(th, c)
      BY <1>0, <2>1 DEF GlobalSpawn, GlobalBlockOn, SpawnTask
    <2>2. CASE Await(th, c) \/ Yield(th, c)
      BY <1>0, <2>2 DEF Await, Yield, Suspend, AtOp, Running
    <2>3. ASSUME NEW u \in Tasks, Help(th, c, u)
          PROVE  queue'[t] \subseteq queue[t]
      BY <1>0, <2>3 DEF Help, Poll
    <2> QED
      BY <1>1, <2>1, <2>2, <2>3 DEF CodeStep, Panic, Finish, Return, Recv,
         RecvDisconnected
  <1>2. ASSUME NEW u \in Tasks, WorkerPoll(th, u)
        PROVE  queue'[t] \subseteq queue[t]
    BY <1>0, <1>2 DEF WorkerPoll, Poll
  <1>3. ASSUME NEW S, Leave(th, S) PROVE queue'[t] \subseteq queue[t]
    BY <1>3 DEF Leave
  <1>4. ASSUME DropDone(th) PROVE queue'[t] \subseteq queue[t]
    BY <1>0, <1>4 DEF DropDone
  <1> QED
    BY <1>1, <1>2, <1>3, <1>4 DEF ThreadStep, StartRuntime, StartWorker,
       StartFails, StoreRuntime, Quit, Unwind, DropRuntime, Exit

(* A thread that makes its runtime is alive.                               *)
LEMMA StartingAlive ==
  ASSUME BInv, StacksAlive, NEW th \in Threads, runtime[th] = "starting"
  PROVE  life[th] = "alive"
  BY DEF BInv, StartsAtCall, StacksAlive, AtOp, Running


(* How a life and a runtime go on.                                         *)
LEMMA LivesGoOn ==
  ASSUME BInv, LInv, NEW th \in Threads, ThreadStep(th), NEW t \in Threads
  PROVE  /\ life[t] = "dead" => life'[t] = "dead"
         /\ life[t] # "alive" => life'[t] # "alive" \/ life[t] = "unborn"
         /\ life[t] = "alive" /\ life'[t] # "alive" =>
              t = th /\ life'[t] = "ending" /\ Leaves(th)
         /\ life[t] # "dead" /\ life'[t] = "dead" =>
              t = th /\ (Exit(th) \/ DropDone(th))
         /\ home'[t] # home[t] => StartWorker(th) /\ home'[t] = th
         /\ runtime[t] = "failed" => runtime'[t] = "failed"
         /\ runtime[t] # "none" => runtime'[t] # "none"
         /\ runtime[t] = "gone" => runtime'[t] = "gone"
         /\ runtime[t] # "gone" /\ runtime'[t] = "gone" =>
              t = th /\ DropDone(th)
  <1>0. /\ life \in [Threads -> Lives] /\ runtime \in [Threads -> RuntimeStates]
        /\ home \in [Threads -> Threads \cup {NoThread}]
        /\ StacksAlive /\ EndsInOrder
    BY DEF BInv, HInv, Ranges, LInv
  <1>1. CASE UNCHANGED threadVars
    BY <1>1 DEF threadVars
  <1>2. CASE Leaves(th)
    <2>1. life[th] = "alive"
      BY <1>0, <1>2 DEF Leaves, StacksAlive
    <2> QED
      BY <1>0, <1>2, <2>1 DEF Leaves
  <1>3. CASE StartRuntime(th) \/ StartFails(th) \/ StoreRuntime(th)
    BY <1>0, <1>3 DEF StartRuntime, StartFails, StoreRuntime
  <1>4. CASE StartWorker(th)
    BY <1>0, <1>4 DEF StartWorker
  <1>5. CASE DropRuntime(th)
    BY <1>0, <1>5 DEF DropRuntime, HasRuntime
  <1>6. CASE Exit(th)
    BY <1>0, <1>6 DEF Exit
  <1>7. CASE DropDone(th)
    <2>1. life[th] = "ending"
      BY <1>0, <1>7 DEF DropDone, EndsInOrder
    <2> QED
      BY <1>0, <1>7, <2>1 DEF DropDone
  <1> QED
    BY <1>1, <1>2, <1>3, <1>4, <1>5, <1>6, <1>7, LifeStep

(* A thread's closure ends with an empty stack, and a dead thread polls    *)
(* nothing.                                                                *)
LEMMA KeepsAlive ==
  ASSUME BInv, LInv, NEW th \in Threads, ThreadStep(th)
  PROVE  StacksAlive'
  <1>0. \A t \in Threads : life[t] # "alive" => stack[t] = <<>>
    BY DEF LInv, StacksAlive
  <1> SUFFICES ASSUME NEW t \in Threads, life'[t] # "alive"
               PROVE  stack'[t] = <<>>
    BY DEF StacksAlive
  <1>1. CASE life[t] = "alive"
    BY <1>1, LivesGoOn DEF Leaves
  <1>2. CASE life[t] # "alive"
    <2>1. stack[t] = <<>>
      BY <1>0, <1>2
    <2> QED
      BY <1>2, <2>1, StackGrows
  <1> QED
    BY <1>1, <1>2

(* A thread dies after its runtime is gone, and none starts another.       *)
LEMMA KeepsOrder ==
  ASSUME BInv, LInv, NEW th \in Threads, ThreadStep(th)
  PROVE  EndsInOrder'
  <1>0. /\ life \in [Threads -> Lives] /\ runtime \in [Threads -> RuntimeStates]
        /\ home \in [Threads -> Threads \cup {NoThread}]
        /\ StacksAlive
        /\ \A t \in Threads :
             /\ life[t] = "unborn" => runtime[t] = "none" /\ home[t] = NoThread
             /\ runtime[t] = "dropping" => life[t] = "ending"
             /\ runtime[t] = "gone" => life[t] = "dead"
             /\ life[t] = "dead" => runtime[t] \in {"none", "failed", "gone"}
    BY DEF BInv, HInv, Ranges, LInv, EndsInOrder, IsWorker
  <1>1. runtime[th] = "starting" => life[th] = "alive"
    BY StartingAlive DEF LInv
  <1> SUFFICES
        \A t \in Threads :
             /\ life'[t] = "unborn" => runtime'[t] = "none" /\ home'[t] = NoThread
             /\ runtime'[t] = "dropping" => life'[t] = "ending"
             /\ runtime'[t] = "gone" => life'[t] = "dead"
             /\ life'[t] = "dead" => runtime'[t] \in {"none", "failed", "gone"}
    BY DEF EndsInOrder, IsWorker
  <1>2. CASE UNCHANGED threadVars
    BY <1>0, <1>2 DEF threadVars
  <1>3. CASE Leaves(th)
    <2>1. life[th] = "alive"
      BY <1>0, <1>3 DEF Leaves, StacksAlive
    <2> QED
      BY <1>0, <1>3, <2>1 DEF Leaves
  <1>4. CASE StartRuntime(th)
    <2>1. life[th] = "alive"
      BY <1>0, <1>4 DEF StartRuntime, AtOp, Running, StacksAlive
    <2> QED
      BY <1>0, <1>4, <2>1 DEF StartRuntime
  <1>5. CASE StartFails(th) \/ StoreRuntime(th)
    BY <1>0, <1>1, <1>5 DEF StartFails, StoreRuntime
  <1>6. CASE StartWorker(th)
    <2>1. PICK w \in Threads : /\ life[w] = "unborn"
                               /\ life' = [life EXCEPT ![w] = "alive"]
                               /\ home' = [home EXCEPT ![w] = th]
      BY <1>6 DEF StartWorker
    <2>2. runtime' = runtime
      BY <1>6 DEF StartWorker
    <2> QED
      BY <1>0, <2>1, <2>2
  <1>7. CASE DropRuntime(th)
    BY <1>0, <1>7 DEF DropRuntime, HasRuntime
  <1>8. CASE Exit(th)
    BY <1>0, <1>1, <1>8 DEF Exit, HasRuntime, RuntimeStates
  <1>9. CASE DropDone(th)
    BY <1>0, <1>9 DEF DropDone
  <1> QED
    BY <1>2, <1>3, <1>4, <1>5, <1>6, <1>7, <1>8, <1>9, LifeStep

(* A runtime starts before its workers, and never becomes unknown again.   *)
LEMMA KeepsWorkers ==
  ASSUME BInv, LInv, NEW th \in Threads, ThreadStep(th)
  PROVE  WorkersHaveRuntime'
  <1> SUFFICES ASSUME NEW t \in Threads, NEW w \in Threads, home'[w] = t
               PROVE  runtime'[t] # "none"
    BY DEF WorkersHaveRuntime, WorkersOf
  <1>1. CASE home'[w] = home[w]
    <2>1. runtime[t] # "none"
      BY <1>1 DEF LInv, WorkersHaveRuntime, WorkersOf
    <2> QED
      BY <2>1, LivesGoOn
  <1>2. CASE home'[w] # home[w]
    <2>1. StartWorker(th) /\ t = th
      BY <1>2, LivesGoOn
    <2> QED
      BY <2>1 DEF StartWorker
  <1> QED
    BY <1>1, <1>2

(* A runtime is gone when its last worker is dead, and nobody spawns on it *)
(* afterwards.                                                             *)
LEMMA KeepsEmpty ==
  ASSUME BInv, LInv, NEW th \in Threads, ThreadStep(th)
  PROVE  GoneIsEmpty'
  <1>0. /\ queue \in [Threads -> SUBSET Tasks]
        /\ StacksAlive /\ EndsInOrder
    BY DEF BInv, HInv, Ranges, LInv
  <1> SUFFICES ASSUME NEW t \in Threads, runtime'[t] = "gone"
               PROVE  /\ queue'[t] = {}
                      /\ \A w \in Threads : home'[w] = t => life'[w] = "dead"
    BY DEF GoneIsEmpty, WorkersOf
  <1>1. CASE runtime[t] = "gone"
    <2>1. /\ queue[t] = {} /\ life[t] = "dead"
          /\ \A w \in Threads : home[w] = t => life[w] = "dead"
      BY <1>0, <1>1 DEF LInv, GoneIsEmpty, WorkersOf, EndsInOrder
    <2>2. ~(t = th /\ runtime[th] = "up")
      BY <1>1
    <2>3. ~(stack[th] # <<>> /\ t = Source(th))
      BY <1>0, <2>1 DEF StacksAlive, Source, IsWorker
    <2>4. queue'[t] = {}
      BY <2>1, <2>2, <2>3, QueueGrows
    <2>5. ASSUME NEW w \in Threads, home'[w] = t PROVE life'[w] = "dead"
      <3>1. CASE home'[w] = home[w]
        BY <2>1, <2>5, <3>1, LivesGoOn
      <3>2. CASE home'[w] # home[w]
        <4>1. StartWorker(th) /\ t = th
          BY <2>5, <3>2, LivesGoOn
        <4> QED
          BY <1>1, <4>1 DEF StartWorker
      <3> QED
        BY <3>1, <3>2
    <2> QED
      BY <2>4, <2>5
  <1>2. CASE runtime[t] # "gone"
    <2>1. t = th /\ DropDone(th)
      BY <1>2, LivesGoOn
    <2>2. queue'[t] = {}
      BY <1>0, <2>1 DEF DropDone
    <2>3. home' = home /\ \A w \in Threads : home[w] = t => life[w] = "dead"
      BY <2>1 DEF DropDone, Joined, WorkersOf
    <2> QED
      BY <2>2, <2>3, LivesGoOn
  <1> QED
    BY <1>1, <1>2

(* A runtime that started waits for its workers.                           *)
LEMMA KeepsLeaks ==
  ASSUME BInv, LInv, NEW th \in Threads, ThreadStep(th)
  PROVE  OnlyFailedStartsLeak'
  <1>0. /\ home \in [Threads -> Threads \cup {NoThread}] /\ HInv'
        /\ StacksAlive /\ EndsInOrder
    BY NextHomes DEF BInv, HInv, Ranges, LInv, Next
  <1> SUFFICES ASSUME NEW w \in Threads, home'[w] # NoThread, life'[w] # "dead"
               PROVE  life'[home'[w]] # "dead" \/ runtime'[home'[w]] = "failed"
    BY DEF OnlyFailedStartsLeak, IsWorker
  <1> DEFINE h == home'[w]
  <1>1. h \in Threads
    BY <1>0 DEF HInv, Ranges
  <1>2. CASE home[w] # h
    <2>1. StartWorker(th) /\ h = th
      BY <1>2, LivesGoOn
    <2>2. life[th] = "alive"
      BY <2>1, StartingAlive DEF StartWorker, LInv
    <2>3. life'[th] # "dead"
      BY <2>2, LivesGoOn
    <2> QED
      BY <2>1, <2>3
  <1>3. CASE home[w] = h
    <2>1. life[w] # "dead"
      BY LivesGoOn
    <2>2. life[h] # "dead" \/ runtime[h] = "failed"
      BY <1>3, <2>1 DEF LInv, OnlyFailedStartsLeak, IsWorker
    <2> HIDE DEF h
    <2>3. CASE runtime[h] = "failed"
      BY <1>1, <2>3, LivesGoOn DEF h
    <2>4. ASSUME life[h] # "dead", life'[h] = "dead"
          PROVE  runtime'[h] = "failed"
      <3>1. h = th /\ (Exit(th) \/ DropDone(th))
        BY <1>1, <2>4, LivesGoOn
      <3>2. w \in WorkersOf(th)
        BY <1>3, <3>1 DEF WorkersOf
      <3>3. ~DropDone(th)
        BY <2>1, <3>2 DEF DropDone, Joined
      <3>4. Exit(th) /\ runtime' = runtime /\ life[th] = "ending"
        BY <3>1, <3>3 DEF Exit
      <3>5. runtime[th] # "none"
        BY <3>2 DEF LInv, WorkersHaveRuntime
      <3>6. runtime[th] # "starting"
        BY <3>4, StartingAlive DEF LInv
      <3>7. runtime[th] # "gone"
        BY <2>1, <3>2 DEF LInv, GoneIsEmpty
      <3>8. runtime[th] \in RuntimeStates
        BY DEF BInv, HInv, Ranges
      <3> QED
        BY <3>1, <3>4, <3>5, <3>6, <3>7, <3>8
           DEF Exit, HasRuntime, RuntimeStates
    <2> QED
      BY <2>2, <2>3, <2>4 DEF h
  <1> QED
    BY <1>2, <1>3

(* At the start only the user threads are alive, and no thread has a       *)
(* runtime.                                                                *)
LEMMA InitLives == Init => LInv
  <1> SUFFICES ASSUME Init PROVE LInv
    OBVIOUS
  <1>1. StacksAlive /\ GoneIsEmpty
    BY DEF Init, StacksAlive, GoneIsEmpty
  <1>2. EndsInOrder
    BY DEF Init, EndsInOrder, IsWorker
  <1>3. \A th \in Threads : home[th] = NoThread /\ th # NoThread
    BY NoThreadIsNone DEF Init
  <1> QED
    BY <1>1, <1>2, <1>3
       DEF LInv, WorkersHaveRuntime, WorkersOf, OnlyFailedStartsLeak, IsWorker

(* LInv is inductive, given BInv.                                          *)
LEMMA NextLives ==
  ASSUME BInv, LInv, [Next]_vars
  PROVE  LInv'
  <1>1. CASE UNCHANGED vars
    BY <1>1 DEF LInv, StacksAlive, EndsInOrder, WorkersHaveRuntime, WorkersOf,
       GoneIsEmpty, OnlyFailedStartsLeak, IsWorker, vars, codeVars, threadVars,
       taskVars
  <1>2. ASSUME NEW th \in Threads, ThreadStep(th) PROVE LInv'
    BY <1>2, KeepsAlive, KeepsOrder, KeepsWorkers, KeepsEmpty, KeepsLeaks
       DEF LInv
  <1> QED
    BY <1>1, <1>2 DEF Next

(* Workers outlive the thread that started them only when their runtime    *)
(* failed to start.                                                        *)
THEOREM LeaksAreFailedStarts == Spec => []OnlyFailedStartsLeak
  <1>1. Init => BInv /\ LInv
    BY InitBooks, InitLives
  <1>2. BInv /\ LInv /\ [Next]_vars => BInv' /\ LInv'
    BY NextBooks, NextLives
  <1>3. BInv /\ LInv => OnlyFailedStartsLeak
    BY DEF LInv
  <1> QED
    BY <1>1, <1>2, <1>3, PTL DEF Spec

(* A runtime that is gone has no live worker, no runtime below it and no   *)
(* task that could be polled.                                              *)
THEOREM GoneForGood == Spec => []GoneIsFinal
  <1>1. Init => BInv /\ LInv
    BY InitBooks, InitLives
  <1>2. BInv /\ LInv /\ [Next]_vars => BInv' /\ LInv'
    BY NextBooks, NextLives
  <1>3. BInv /\ LInv => GoneIsFinal
    <2> SUFFICES ASSUME BInv, LInv, NEW th \in Threads, runtime[th] = "gone"
                 PROVE  /\ queue[th] = {}
                        /\ \A w \in WorkersOf(th) :
                             /\ life[w] = "dead"
                             /\ runtime[w] \in {"none", "failed", "gone"}
                        /\ \A u \in Tasks :
                             born[u] = th => mode[u] \in {"done", "lost"}
      BY DEF GoneIsFinal
    <2>1. /\ queue[th] = {} /\ life[th] = "dead"
          /\ \A w \in WorkersOf(th) : life[w] = "dead" /\ w \in Threads
      BY DEF LInv, GoneIsEmpty, EndsInOrder, WorkersOf
    <2>2. \A w \in WorkersOf(th) : runtime[w] \in {"none", "failed", "gone"}
      BY <2>1 DEF LInv, EndsInOrder
    <2>3. ASSUME NEW u \in Tasks, born[u] = th, mode[u] \notin {"done", "lost"}
          PROVE  FALSE
      <3>1. InFlight(u)
        BY <2>3, NoThreadIsNone DEF InFlight
      <3>2. ~Queued(u)
        BY <2>1, <2>3 DEF Queued, BInv, HInv, QueuesAtHome
      <3>3. PICK t \in Threads : Polled(t, u)
        BY <3>1, <3>2 DEF BInv, NotMislaid
      <3>4. stack[t] \in Seq(Code) /\ stack[t] # <<>>
        BY <3>3, EmptyLemma DEF BInv, HInv, Ranges, Polled
      <3>5. PICK i \in 1 .. Len(stack[t]) : stack[t][i] = u
        BY <3>3, <3>4, ElementsLemma DEF Polled
      <3>6. HomeOf(t, i) = th
        BY <2>3, <3>5 DEF BInv, HInv, FramesAtHome
      <3>7. t = th \/ t \in WorkersOf(th)
        BY <3>6 DEF HomeOf, WorkersOf
      <3>8. life[t] = "dead"
        BY <2>1, <3>7
      <3> QED
        BY <3>4, <3>8 DEF LInv, StacksAlive
    <2> QED
      BY <2>1, <2>2, <2>3
  <1> QED
    BY <1>1, <1>2, <1>3, PTL DEF Spec


-----------------------------------------------------------------------------
(* The contract: every kind of step is one of its steps, or none.          *)

IsPolled(u) == \E th \in Threads : Polled(th, u)

(* Where a task stands: the arms of statusBar exclude each other, and no   *)
(* task is mislaid.                                                        *)
LEMMA Standing ==
  ASSUME BInv
  PROVE  \A u \in Tasks :
           /\ born[u] = NoThread => statusBar[u] = "unborn" /\ mode[u] = "code"
           /\ mode[u] = "done" => statusBar[u] = "done"
           /\ mode[u] = "lost" => statusBar[u] = "lost"
           /\ IsPolled(u) => statusBar[u] = "running" /\ InFlight(u)
           /\ InFlight(u) /\ ~IsPolled(u) => statusBar[u] = "queued"
  <1> SUFFICES ASSUME NEW u \in Tasks
               PROVE  /\ born[u] = NoThread => statusBar[u] = "unborn" /\ mode[u] = "code"
                      /\ mode[u] = "done" => statusBar[u] = "done"
                      /\ mode[u] = "lost" => statusBar[u] = "lost"
                      /\ IsPolled(u) => statusBar[u] = "running" /\ InFlight(u)
                      /\ InFlight(u) /\ ~IsPolled(u) => statusBar[u] = "queued"
    OBVIOUS
  <1>1. /\ InFlight(u) <=> Queued(u) \/ IsPolled(u)
        /\ born[u] = NoThread => mode[u] = "code"
        /\ IsPolled(u) => ~Queued(u)
    BY DEF BInv, NotMislaid, WaitsInCode, Apart, IsPolled
  <1>2. statusBar[u] = CASE born[u] = NoThread -> "unborn"
                         [] mode[u] \in {"done", "lost"} -> mode[u]
                         [] IsPolled(u) -> "running"
                         [] Queued(u) -> "queued"
                         [] OTHER -> "mislaid"
    BY DEF statusBar, Queued, IsPolled
  <1>3. InFlight(u) <=> born[u] # NoThread /\ mode[u] \notin {"done", "lost"}
    BY DEF InFlight
  <1>4. ASSUME born[u] = NoThread
        PROVE  statusBar[u] = "unborn" /\ mode[u] = "code" /\ ~IsPolled(u)
    BY <1>1, <1>2, <1>3, <1>4
  <1>5. ASSUME mode[u] \in {"done", "lost"}
        PROVE  statusBar[u] = mode[u] /\ born[u] # NoThread /\ ~IsPolled(u)
    BY <1>1, <1>2, <1>3, <1>5
  <1>6. ASSUME IsPolled(u)
        PROVE  statusBar[u] = "running" /\ InFlight(u)
    BY <1>1, <1>2, <1>3, <1>6
  <1>7. ASSUME InFlight(u), ~IsPolled(u)
        PROVE  statusBar[u] = "queued"
    BY <1>1, <1>2, <1>3, <1>7
  <1> QED
    BY <1>4, <1>5, <1>6, <1>7

(* And after a step.                                                       *)
LEMMA StandingNext ==
  ASSUME BInv'
  PROVE  \A u \in Tasks :
           /\ born'[u] = NoThread => statusBar'[u] = "unborn" /\ mode'[u] = "code"
           /\ mode'[u] = "done" => statusBar'[u] = "done"
           /\ mode'[u] = "lost" => statusBar'[u] = "lost"
           /\ IsPolled(u)' => statusBar'[u] = "running" /\ InFlight(u)'
           /\ InFlight(u)' /\ ~IsPolled(u)' => statusBar'[u] = "queued"
  <1> SUFFICES ASSUME NEW u \in Tasks
               PROVE  /\ born'[u] = NoThread => statusBar'[u] = "unborn" /\ mode'[u] = "code"
                      /\ mode'[u] = "done" => statusBar'[u] = "done"
                      /\ mode'[u] = "lost" => statusBar'[u] = "lost"
                      /\ IsPolled(u)' => statusBar'[u] = "running" /\ InFlight(u)'
                      /\ InFlight(u)' /\ ~IsPolled(u)' => statusBar'[u] = "queued"
    OBVIOUS
  <1>1. /\ InFlight(u)' <=> Queued(u)' \/ IsPolled(u)'
        /\ born'[u] = NoThread => mode'[u] = "code"
        /\ IsPolled(u)' => ~Queued(u)'
    BY DEF BInv, NotMislaid, WaitsInCode, Apart, IsPolled
  <1>2. statusBar'[u] = CASE born'[u] = NoThread -> "unborn"
                         [] mode'[u] \in {"done", "lost"} -> mode'[u]
                         [] IsPolled(u)' -> "running"
                         [] Queued(u)' -> "queued"
                         [] OTHER -> "mislaid"
    BY DEF statusBar, Queued, IsPolled
  <1>3. InFlight(u)' <=> born'[u] # NoThread /\ mode'[u] \notin {"done", "lost"}
    BY DEF InFlight
  <1>4. ASSUME born'[u] = NoThread
        PROVE  statusBar'[u] = "unborn" /\ mode'[u] = "code" /\ ~IsPolled(u)'
    BY <1>1, <1>2, <1>3, <1>4
  <1>5. ASSUME mode'[u] \in {"done", "lost"}
        PROVE  statusBar'[u] = mode'[u] /\ born'[u] # NoThread /\ ~IsPolled(u)'
    BY <1>1, <1>2, <1>3, <1>5
  <1>6. ASSUME IsPolled(u)'
        PROVE  statusBar'[u] = "running" /\ InFlight(u)'
    BY <1>1, <1>2, <1>3, <1>6
  <1>7. ASSUME InFlight(u)', ~IsPolled(u)'
        PROVE  statusBar'[u] = "queued"
    BY <1>1, <1>2, <1>3, <1>7
  <1> QED
    BY <1>4, <1>5, <1>6, <1>7

(* A task stays where it stands if it was and is spawned or not, comes to  *)
(* no end, and is polled as before.                                        *)
LEMMA SameStanding ==
  ASSUME BInv, BInv', NEW u \in Tasks,
         born'[u] = born[u],
         mode'[u] = mode[u] \/ {mode[u], mode'[u]} \subseteq {"code", "blocked", "sent"},
         IsPolled(u)' <=> IsPolled(u)
  PROVE  statusBar'[u] = statusBar[u]
  <1>1. InFlight(u)' <=> InFlight(u)
    BY DEF InFlight
  <1>2. CASE born[u] = NoThread
    BY <1>2, Standing, StandingNext
  <1>3. CASE mode[u] = "done" /\ mode'[u] = "done"
    BY <1>3, Standing, StandingNext
  <1>4. CASE mode[u] = "lost" /\ mode'[u] = "lost"
    BY <1>4, Standing, StandingNext
  <1>5. CASE InFlight(u)
    BY <1>1, <1>5, Standing, StandingNext
  <1> QED
    BY <1>2, <1>3, <1>4, <1>5 DEF InFlight

(* Two mappings that agree on every task are equal.                        *)
LEMMA SameStatus ==
  ASSUME \A u \in Tasks : statusBar'[u] = statusBar[u]
  PROVE  statusBar' = statusBar
  <1>1. statusBar = [u \in Tasks |-> statusBar[u]]
    BY DEF statusBar
  <1>2. statusBar' = [u \in Tasks |-> statusBar'[u]]
    BY DEF statusBar
  <1> QED
    BY <1>1, <1>2

(* One task changes its status in the contract.                            *)
LEMMA StatusMoves ==
  ASSUME NEW c \in Tasks, \A u \in Tasks \ {c} : statusBar'[u] = statusBar[u]
  PROVE  statusBar' = [statusBar EXCEPT ![c] = statusBar'[c]]
  <1>1. statusBar = [u \in Tasks |-> statusBar[u]]
    BY DEF statusBar
  <1>2. statusBar' = [u \in Tasks |-> statusBar'[u]]
    BY DEF statusBar
  <1> QED
    BY <1>1, <1>2

(* A result stays where it is while nobody sends or takes it.              *)
LEMMA SameResult ==
  ASSUME \A u \in Tasks : /\ HasResult(u)' <=> HasResult(u)
                          /\ HasResult(u) => (Taken(u)' <=> Taken(u))
  PROVE  resultBar' = resultBar
  BY DEF resultBar

(* No task moves, and no result: a step that the contract does not see,    *)
(* unless it is a fault.                                                   *)
LEMMA Unseen ==
  ASSUME faultedBar => faultedBar', statusBar' = statusBar, resultBar' = resultBar
  PROVE  [Contract!Next]_Contract!vars
  <1>1. faultedBar \in BOOLEAN /\ faultedBar' \in BOOLEAN
    BY DEF faultedBar
  <1>2. CASE faultedBar' = faultedBar
    BY <1>2 DEF Contract!vars
  <1>3. CASE faultedBar' = TRUE
    <2>1. statusBar' = [u \in Tasks |-> IF u \in {} THEN "lost" ELSE statusBar[u]]
      BY DEF statusBar
    <2>2. Contract!Lose({})
      BY <1>3, <2>1 DEF Contract!Lose
    <2> QED
      BY <2>2 DEF Contract!Next
  <1> QED
    BY <1>1, <1>2, <1>3

(* The tasks S are lost, and every other task stands where it stood.       *)
LEMMA Loses ==
  ASSUME BInv', NEW S, S \subseteq Tasks,
         \A u \in S : /\ statusBar[u] \in {"queued", "running"}
                      /\ ~HasResult(u) /\ mode'[u] = "lost",
         \A u \in Tasks \ S :
           statusBar'[u] = statusBar[u] /\ mode'[u] = mode[u],
         \A u \in Tasks : Taken(u)' <=> Taken(u),
         faultedBar'
  PROVE  Contract!Next
  <1>1. \A u \in S : statusBar'[u] = "lost"
    BY StandingNext
  <1>2. statusBar' = [u \in Tasks |-> IF u \in S THEN "lost" ELSE statusBar[u]]
    <2>1. statusBar' = [u \in Tasks |-> statusBar'[u]]
      BY DEF statusBar
    <2> QED
      BY <1>1, <2>1
  <1>3. resultBar' = resultBar
    <2>1. ASSUME NEW u \in Tasks PROVE HasResult(u)' <=> HasResult(u)
      <3>1. CASE u \in S
        BY <3>1 DEF HasResult
      <3>2. CASE u \notin S
        BY <3>2 DEF HasResult
      <3> QED
        BY <3>1, <3>2
    <2> QED
      BY <2>1, SameResult
  <1>4. \A u \in S : resultBar[u] = "none"
    BY DEF resultBar
  <1>5. faultedBar' = TRUE
    BY DEF faultedBar
  <1>6. Contract!Lose(S)
    BY <1>2, <1>3, <1>4, <1>5 DEF Contract!Lose
  <1> QED
    BY <1>6 DEF Contract!Next

(* A step without a panic or the end of a thread is no fault.              *)
LEMMA SameFault ==
  ASSUME UNCHANGED <<unwinding, runtime>>
  PROVE  faultedBar' = faultedBar
  BY DEF faultedBar

(* What runs is on its stack only, and goes off it when it is popped.      *)
LEMMA PopStanding ==
  ASSUME BInv, NEW th \in Threads, stack[th] # <<>>, Pop(th),
         NEW c, c = Last(stack[th])
  PROVE  /\ ~IsPolled(c)'
         /\ \A u \in Tasks : u # c => (IsPolled(u)' <=> IsPolled(u))
  <1>1. \A t \in Threads : Polled(t, c) => t = th
    BY TopFacts
  <1>2. \A t \in Threads : \A x :
          Polled(t, x)' <=> Polled(t, x) /\ (t # th \/ x # c)
    BY PopEffect
  <1> QED
    BY <1>1, <1>2 DEF IsPolled


(* Every kind of step is a step of the contract, or none.                  *)
LEMMA KindsKeepContract ==
  ASSUME BInv, BInv', NEW th \in Threads, Kinds(th), script' = script
  PROVE  [Contract!Next]_Contract!vars
  <1> USE DEF Code
  <1>0. Ranges /\ mode \in [Code -> Modes] /\ born \in [Tasks -> Threads \cup {NoThread}]
    BY DEF BInv, HInv, Ranges
  <1>1. ASSUME Steady(th)
        PROVE  [Contract!Next]_Contract!vars
    <2>1. /\ UNCHANGED <<ip, mode, stack, born>>
          /\ faultedBar => faultedBar'
      BY <1>1 DEF Steady
    <2>2. \A u \in Tasks : statusBar'[u] = statusBar[u]
      BY <2>1, SameStanding DEF IsPolled, Polled
    <2>3. \A u \in Tasks : /\ HasResult(u)' <=> HasResult(u)
                           /\ Taken(u)' <=> Taken(u)
      BY <2>1, SameTaken DEF HasResult
    <2> QED
      BY <2>1, <2>2, <2>3, SameStatus, SameResult, Unseen
  <1>2. ASSUME NEW c \in Code, NEW u \in Tasks, Spawns(th, c, u)
        PROVE  [Contract!Next]_Contract!vars
    <2>1. /\ born[u] = NoThread /\ born' = [born EXCEPT ![u] = th]
          /\ mode[c] = "code" /\ UNCHANGED <<stack, unwinding, runtime>>
          /\ Running(th, c)
          /\ mode' = mode \/ mode' = [mode EXCEPT ![c] = "blocked"]
      BY <1>2 DEF Spawns, SpawnTask
    <2>2. /\ \A v \in Tasks : v # u => born'[v] = born[v]
          /\ born'[u] # NoThread
          /\ \A v \in Tasks : \/ mode'[v] = mode[v]
                              \/ mode[v] = "code" /\ mode'[v] = "blocked"
      BY <1>0, <2>1, NoThreadIsNone
    <2>3. \A v : IsPolled(v)' <=> IsPolled(v)
      BY <2>1 DEF IsPolled, Polled
    <2>4. \A v \in Tasks \ {u} : statusBar'[v] = statusBar[v]
      <3> TAKE v \in Tasks \ {u}
      <3>1. mode'[v] = mode[v] \/ {mode[v], mode'[v]} \subseteq {"code", "blocked", "sent"}
        BY <2>2
      <3> QED
        BY <2>2, <2>3, <3>1, SameStanding
    <2>5. statusBar[u] = "unborn" /\ mode[u] = "code" /\ ~IsPolled(u)
      BY <2>1, Standing DEF InFlight
    <2>6. statusBar'[u] = "queued"
      <3>1. InFlight(u)'
        BY <2>2, <2>5 DEF InFlight
      <3> QED
        BY <2>3, <2>5, <3>1, StandingNext
    <2>7. statusBar' = [statusBar EXCEPT ![u] = "queued"]
      BY <2>4, <2>6, StatusMoves
    <2>8. \A v \in Tasks : /\ HasResult(v)' <=> HasResult(v)
                           /\ Taken(v)' <=> Taken(v)
      <3> TAKE v \in Tasks
      <3>1. HasResult(v)' <=> HasResult(v)
        BY <2>2 DEF HasResult
      <3>2. Taken(v)' <=> Taken(v)
        BY <1>0, <1>2, SkipsTakeNothing, SameTaken DEF Spawns
      <3> QED
        BY <3>1, <3>2
    <2>9. Contract!Spawn(u)
      BY <2>1, <2>5, <2>7, <2>8, SameResult, SameFault
         DEF Contract!Spawn, Contract!Moves
    <2> QED
      BY <2>9 DEF Contract!Next
  <1>3. ASSUME NEW c \in Code, Suspends(th, c)
        PROVE  [Contract!Next]_Contract!vars
    <2>1. /\ stack[th] # <<>> /\ c = Last(stack[th]) /\ Pop(th) /\ c \in Tasks
          /\ mode[c] = "code" /\ UNCHANGED <<mode, born, unwinding, runtime>>
      BY <1>3 DEF Suspends, Suspend, Running
    <2>2. ~IsPolled(c)' /\ \A v \in Tasks : v # c => (IsPolled(v)' <=> IsPolled(v))
      BY <2>1, PopStanding
    <2>3. IsPolled(c)
      BY <2>1, TopFacts DEF IsPolled
    <2>4. statusBar[c] = "running" /\ InFlight(c)
      BY <2>1, <2>3, Standing
    <2>5. statusBar'[c] = "queued"
      <3>1. InFlight(c)'
        BY <2>1, <2>4 DEF InFlight
      <3> QED
        BY <2>1, <2>2, <3>1, StandingNext
    <2>6. \A v \in Tasks \ {c} : statusBar'[v] = statusBar[v]
      BY <2>1, <2>2, SameStanding
    <2>7. statusBar' = [statusBar EXCEPT ![c] = "queued"]
      BY <2>1, <2>5, <2>6, StatusMoves
    <2>8. \A v \in Tasks : /\ HasResult(v)' <=> HasResult(v)
                           /\ Taken(v)' <=> Taken(v)
      <3> TAKE v \in Tasks
      <3>1. HasResult(v)' <=> HasResult(v)
        BY <2>1 DEF HasResult
      <3>2. Taken(v)' <=> Taken(v)
        BY <1>0, <1>3, SkipsTakeNothing, SameTaken DEF Suspends
      <3> QED
        BY <3>1, <3>2
    <2>9. resultBar[c] = "none"
      BY <2>1 DEF resultBar, HasResult
    <2>10. Contract!Suspend(c)
      BY <2>1, <2>4, <2>7, <2>8, <2>9, SameResult, SameFault
         DEF Contract!Suspend, Contract!Moves
    <2> QED
      BY <2>1, <2>10 DEF Contract!Next
  <1>4. ASSUME NEW c \in Code, Takes(th, c)
        PROVE  [Contract!Next]_Contract!vars
    <2> DEFINE w == Operand(c)
    <2>1. /\ Running(th, c) /\ Step(c) /\ HasResult(w)
          /\ mode[c] \in {"code", "blocked"} /\ mode' = [mode EXCEPT ![c] = "code"]
          /\ UNCHANGED <<stack, born, unwinding, runtime>>
      BY <1>4 DEF Takes
    <2>2. w \in Tasks /\ \A u \in Tasks : TakesAt(c, u) <=> u = w
      BY <1>0, <1>4, TakesOperand
    <2>3. \A u \in Tasks : Taken(u)' <=> Taken(u) \/ u = w
      BY <1>0, <2>1, <2>2, TakenMoves
    <2> HIDE DEF w
    <2>4. \A v \in Tasks : \/ mode'[v] = mode[v]
                           \/ {mode[v], mode'[v]} \subseteq {"code", "blocked"}
      <3> TAKE v \in Tasks
      <3>1. CASE v = c
        BY <1>0, <2>1, <3>1
      <3>2. CASE v # c
        BY <1>0, <2>1, <3>2
      <3> QED
        BY <3>1, <3>2
    <2>5. statusBar' = statusBar
      <3>1. \A v \in Tasks : statusBar'[v] = statusBar[v]
        BY <2>1, <2>4, SameStanding DEF IsPolled, Polled
      <3> QED
        BY <3>1, SameStatus
    <2>6. \A v \in Tasks : HasResult(v)' <=> HasResult(v)
      BY <2>4 DEF HasResult
    <2>7. CASE Taken(w)
      <3>1. resultBar' = resultBar
        BY <2>3, <2>6, <2>7, SameResult
      <3> QED
        BY <2>1, <2>5, <3>1, SameFault, Unseen
    <2>8. CASE ~Taken(w)
      <3>1. resultBar' = [resultBar EXCEPT ![w] = "taken"]
        <4>1. \A v \in Tasks : resultBar'[v] = IF v = w THEN "taken" ELSE resultBar[v]
          BY <2>1, <2>2, <2>3, <2>6 DEF resultBar
        <4>2. /\ resultBar' = [v \in Tasks |-> resultBar'[v]]
              /\ resultBar = [v \in Tasks |-> resultBar[v]]
          BY DEF resultBar
        <4> QED
          BY <4>1, <4>2
      <3>2. resultBar[w] = "ready"
        BY <2>1, <2>2, <2>8 DEF resultBar
      <3>3. Contract!Take(w)
        BY <2>1, <2>5, <3>1, <3>2, SameFault DEF Contract!Take
      <3> QED
        BY <2>2, <3>3 DEF Contract!Next
    <2> QED
      BY <2>7, <2>8
  <1>5. ASSUME NEW c \in Code, EndsThread(th, c)
        PROVE  [Contract!Next]_Contract!vars
    <2>1. /\ \A t \in Threads : \A x : Polled(t, x)' <=> Polled(t, x) /\ t # th
          /\ \A x : Polled(th, x) => x = c
      BY <1>5, EndEffect
    <2>2. /\ c \notin Tasks /\ mode' = [mode EXCEPT ![c] = "done"]
          /\ UNCHANGED <<ip, born, unwinding, runtime>>
      BY <1>5 DEF EndsThread
    <2>3. \A v \in Tasks : mode'[v] = mode[v] /\ (IsPolled(v)' <=> IsPolled(v))
      BY <1>0, <2>1, <2>2 DEF IsPolled
    <2>4. \A v \in Tasks : statusBar'[v] = statusBar[v]
      BY <2>2, <2>3, SameStanding
    <2>5. \A v \in Tasks : /\ HasResult(v)' <=> HasResult(v)
                           /\ Taken(v)' <=> Taken(v)
      BY <2>2, <2>3, SameTaken DEF HasResult
    <2> QED
      BY <2>2, <2>4, <2>5, SameStatus, SameResult, SameFault, Unseen
  <1>6. ASSUME NEW c \in Code, Sends(th, c)
        PROVE  [Contract!Next]_Contract!vars
    <2>1. /\ Running(th, c) /\ mode[c] = "code" /\ c \in Tasks
          /\ mode' = [mode EXCEPT ![c] = "sent"]
          /\ UNCHANGED <<ip, stack, born, unwinding, runtime>>
      BY <1>6 DEF Sends
    <2>2. /\ mode'[c] = "sent" /\ \A v \in Tasks : v # c => mode'[v] = mode[v]
      BY <1>0, <2>1
    <2>3. statusBar' = statusBar
      <3>1. \A v \in Tasks : IsPolled(v)' <=> IsPolled(v)
        BY <2>1 DEF IsPolled, Polled
      <3>2. \A v \in Tasks : statusBar'[v] = statusBar[v]
        BY <2>1, <2>2, <3>1, SameStanding
      <3> QED
        BY <3>2, SameStatus
    <2>4. statusBar[c] = "running"
      <3>1. IsPolled(c)
        BY <2>1, TopFacts DEF IsPolled, Running
      <3> QED
        BY <2>1, <3>1, Standing
    <2>5. ~HasResult(c) /\ ~Taken(c)
      BY <2>1 DEF HasResult, BInv, TakenWasSent
    <2>6. \A v \in Tasks : /\ HasResult(v)' <=> HasResult(v) \/ v = c
                           /\ Taken(v)' <=> Taken(v)
      BY <2>1, <2>2, SameTaken DEF HasResult
    <2>7. resultBar' = [resultBar EXCEPT ![c] = "ready"]
      <3>1. \A v \in Tasks : resultBar'[v] = IF v = c THEN "ready" ELSE resultBar[v]
        BY <2>1, <2>5, <2>6 DEF resultBar
      <3>2. /\ resultBar' = [v \in Tasks |-> resultBar'[v]]
            /\ resultBar = [v \in Tasks |-> resultBar[v]]
        BY DEF resultBar
      <3> QED
        BY <3>1, <3>2
    <2>8. Contract!Complete(c)
      BY <2>1, <2>3, <2>4, <2>5, <2>7, SameFault
         DEF Contract!Complete, resultBar
    <2> QED
      BY <2>1, <2>8 DEF Contract!Next
  <1>7. ASSUME NEW c \in Code, Returns(th, c)
        PROVE  [Contract!Next]_Contract!vars
    <2>1. /\ stack[th] # <<>> /\ c = Last(stack[th]) /\ Pop(th)
          /\ mode[c] = "sent" /\ mode' = [mode EXCEPT ![c] = "done"]
          /\ UNCHANGED <<ip, born, unwinding, runtime>>
      BY <1>7 DEF Returns, Running
    <2>2. ~IsPolled(c)' /\ \A v \in Tasks : v # c => (IsPolled(v)' <=> IsPolled(v))
      BY <2>1, PopStanding
    <2>3. mode'[c] = "done" /\ \A v \in Tasks : v # c => mode'[v] = mode[v]
      BY <1>0, <2>1
    <2>4. \A v \in Tasks \ {c} : statusBar'[v] = statusBar[v]
      BY <2>1, <2>2, <2>3, SameStanding
    <2>5. resultBar' = resultBar
      <3>1. \A v \in Tasks : /\ HasResult(v)' <=> HasResult(v)
                             /\ Taken(v)' <=> Taken(v)
        BY <2>1, <2>3, SameTaken DEF HasResult
      <3> QED
        BY <3>1, SameResult
    <2>6. CASE c \in Tasks
      <3>1. IsPolled(c)
        BY <2>1, TopFacts DEF IsPolled
      <3>2. statusBar[c] = "running" /\ statusBar'[c] = "done"
        BY <2>3, <2>6, <3>1, Standing, StandingNext
      <3>3. statusBar' = [statusBar EXCEPT ![c] = "done"]
        BY <2>4, <2>6, <3>2, StatusMoves
      <3>4. resultBar[c] # "none"
        BY <2>1, <2>6 DEF resultBar, HasResult
      <3>5. Contract!Retire(c)
        BY <2>1, <2>5, <3>2, <3>3, <3>4, SameFault
           DEF Contract!Retire, Contract!Moves
      <3> QED
        BY <2>6, <3>5 DEF Contract!Next
    <2>7. CASE c \notin Tasks
      <3>1. statusBar' = statusBar
        BY <2>4, <2>7, SameStatus
      <3> QED
        BY <2>1, <2>5, <3>1, SameFault, Unseen
    <2> QED
      BY <2>6, <2>7
  <1>8. ASSUME NEW r \in Threads, NEW u \in Tasks, Polls(th, r, u)
        PROVE  [Contract!Next]_Contract!vars
    <2>1. Poll(th, r, u) /\ UNCHANGED <<ip, mode, born, unwinding, runtime>>
      BY <1>8 DEF Polls
    <2>2. /\ Queued(u)
          /\ \A v : IsPolled(v)' <=> IsPolled(v) \/ v = u
      BY <2>1, PollEffect DEF IsPolled
    <2>3. ~IsPolled(u) /\ InFlight(u)
      BY <2>2, QueuedFacts DEF IsPolled, BInv, NotMislaid
    <2>4. statusBar[u] = "queued" /\ statusBar'[u] = "running"
      BY <2>2, <2>3, Standing, StandingNext
    <2>5. \A v \in Tasks \ {u} : statusBar'[v] = statusBar[v]
      BY <2>1, <2>2, SameStanding
    <2>6. statusBar' = [statusBar EXCEPT ![u] = "running"]
      BY <2>4, <2>5, StatusMoves
    <2>7. resultBar' = resultBar
      BY <2>1, SameTaken, SameResult DEF HasResult
    <2>8. Contract!Start(u)
      BY <2>1, <2>4, <2>6, <2>7, SameFault DEF Contract!Start, Contract!Moves
    <2> QED
      BY <2>8 DEF Contract!Next
  <1>9. ASSUME NEW S, Discards(S), Lose(S), faultedBar', UNCHANGED stack
        PROVE  [Contract!Next]_Contract!vars
    <2>1. /\ S \subseteq Tasks /\ UNCHANGED <<ip, born>>
          /\ \A v \in S : v \in Tasks /\ Queued(v)
          /\ \A v \in Code : mode'[v] = IF v \in S THEN "lost" ELSE mode[v]
      BY <1>9 DEF Discards, Lose
    <2>2. \A v \in S : /\ mode[v] = "code" /\ ~IsPolled(v) /\ InFlight(v)
      BY <2>1, QueuedFacts DEF IsPolled, InFlight
    <2>3. \A v \in S : statusBar[v] = "queued" /\ ~HasResult(v) /\ mode'[v] = "lost"
      BY <2>1, <2>2, Standing DEF HasResult
    <2>4. \A v \in Tasks \ S : statusBar'[v] = statusBar[v] /\ mode'[v] = mode[v]
      BY <1>9, <2>1, SameStanding DEF IsPolled, Polled
    <2>5. \A v \in Tasks : Taken(v)' <=> Taken(v)
      BY <2>1, SameTaken
    <2> QED
      BY <1>9, <2>1, <2>3, <2>4, <2>5, Loses
  <1>10. ASSUME NEW S, NEW c, c = Last(stack[th]), Unwinds(th, S)
         PROVE  [Contract!Next]_Contract!vars
    <2> DEFINE L == (S \cup {c}) \cap Tasks
    <2>1. /\ stack[th] # <<>> /\ Pop(th) /\ Discards(S) /\ Lose(S \cup {c})
          /\ th \in unwinding /\ UNCHANGED unwinding
      BY <1>10 DEF Unwinds
    <2>2. /\ UNCHANGED <<ip, born>> /\ \A v \in S : v \in Tasks /\ Queued(v)
          /\ \A v \in Tasks : mode'[v] = IF v \in L THEN "lost" ELSE mode[v]
      BY <2>1 DEF Discards, Lose
    <2>3. mode[c] \in {"code", "blocked"}
      BY <1>10, <2>1 DEF BInv, UnwindsUnsent
    <2>4. IsPolled(c)
      BY <1>10, <2>1, TopFacts DEF IsPolled
    <2>5. ~IsPolled(c)' /\ \A v \in Tasks : v # c => (IsPolled(v)' <=> IsPolled(v))
      BY <1>10, <2>1, PopStanding
    <2>6. faultedBar'
      BY <2>1 DEF faultedBar
    <2>7. \A v \in L : /\ statusBar[v] \in {"queued", "running"}
                       /\ ~HasResult(v) /\ mode'[v] = "lost"
      <3> TAKE v \in L
      <3>1. CASE v = c
        BY <2>2, <2>3, <2>4, <3>1, Standing DEF HasResult
      <3>2. CASE v \in S
        <4>1. v \in Tasks /\ mode[v] = "code" /\ ~IsPolled(v) /\ InFlight(v)
          BY <2>2, <3>2, QueuedFacts DEF IsPolled, InFlight
        <4> QED
          BY <2>2, <4>1, Standing DEF HasResult
      <3> QED
        BY <3>1, <3>2
    <2>8. \A v \in Tasks \ L : statusBar'[v] = statusBar[v] /\ mode'[v] = mode[v]
      BY <2>2, <2>5, SameStanding
    <2>9. \A v \in Tasks : Taken(v)' <=> Taken(v)
      BY <2>2, SameTaken
    <2> HIDE DEF L
    <2>10. L \subseteq Tasks
      BY DEF L
    <2> QED
      BY <2>6, <2>7, <2>8, <2>9, <2>10, Loses
  <1> QED
    BY <1>1, <1>2, <1>3, <1>4, <1>5, <1>6, <1>7, <1>8, <1>9, <1>10 DEF Kinds

(* At the start no task is spawned, and nothing has gone wrong.            *)
LEMMA InitMaps ==
  ASSUME Init
  PROVE  Contract!Init
  <1>1. \A u \in Tasks : statusBar[u] = "unborn"
    BY InitBooks, Standing DEF Init
  <1>2. statusBar = [u \in Tasks |-> "unborn"]
    BY <1>1 DEF statusBar
  <1>3. resultBar = [u \in Tasks |-> "none"]
    BY DEF Init, resultBar, HasResult, Code
  <1>4. faultedBar = FALSE
    BY DEF Init, faultedBar
  <1> QED
    BY <1>2, <1>3, <1>4 DEF Contract!Init

(***************************************************************************)
(* Together the runtimes of all threads implement TaskContract, however    *)
(* many there are and however block_on nests them: a task is polled by one *)
(* thread at a time, polled again after Pending, completed once, never     *)
(* mislaid, and lost only after a panic or with the end of a thread.       *)
(***************************************************************************)
THEOREM ImplementsContract == Spec => KeepsContract
  <1>1. Init => BInv /\ Contract!Init
    BY InitBooks, InitMaps
  <1>2. BInv /\ [Next]_vars => BInv'
    BY NextBooks
  <1>3. BInv /\ [Next]_vars => [Contract!Next]_Contract!vars
    <2> SUFFICES ASSUME BInv, [Next]_vars
                 PROVE  [Contract!Next]_Contract!vars
      OBVIOUS
    <2>1. BInv'
      BY NextBooks
    <2>2. CASE UNCHANGED vars
      BY <2>2
         DEF vars, codeVars, threadVars, taskVars, Contract!vars, statusBar,
             resultBar, faultedBar, Polled, HasResult, Taken
    <2>3. CASE ~UNCHANGED vars
      BY <2>1, <2>3, NextKind, KindsKeepContract
    <2> QED
      BY <2>2, <2>3
  <1> QED
    BY <1>1, <1>2, <1>3, PTL DEF Spec, KeepsContract, Contract!Spec
=============================================================================
