---------------------------- MODULE SimpleProofs ----------------------------
(***************************************************************************)
(* What is proved of the no_std executor, for every program and every      *)
(* size: where its tasks are, when the queue has room, what it can leak,   *)
(* and that it implements TaskContract.                                    *)
(***************************************************************************)
EXTENDS SimpleProps, QueueLemmas, TLAPS

-----------------------------------------------------------------------------
(* Types.                                                                  *)

(* Only a task's poll returns Pending or sends a result.                   *)
OnlyTasksPend == \A c \in Code : mode[c] \in {"pending", "finished"} => c \in Tasks

TInv == TypeOK /\ OnlyTasksPend

(* spawn, await and block_on name a task.                                  *)
LEMMA OperandIsTask ==
  ASSUME TypeOK, NEW c \in Code, ip[c] <= Len(script[c]),
         script[c][ip[c]].do \in {"spawn", "await", "block_on"}
  PROVE  Operand(c) \in Tasks
  <1>1. script[c] \in Seq(SimpleOp) /\ ip[c] \in 1 .. Len(script[c])
    BY DEF TypeOK
  <1>2. script[c][ip[c]] \in SimpleOp
    BY <1>1
  <1> QED
    BY <1>2 DEF SimpleOp, Op, Operand

(* push_back stays within the bound, whatever it does with the task.       *)
LEMMA PushBackType ==
  ASSUME TypeOK, NEW u \in Tasks, PushBack(u)
  PROVE  queue' \in Seq(Tasks) /\ Len(queue') <= Capacity
  <1>1. queue \in Seq(Tasks) /\ Len(queue) <= Capacity /\ Len(queue) \in Nat
    BY DEF TypeOK
  <1>2. CASE IsFull
    BY <1>1, <1>2 DEF PushBack
  <1>3. CASE ~IsFull
    <2>1. queue' = Append(queue, u) /\ Len(queue) < Capacity
      BY <1>1, <1>3, SimpleAssumption DEF PushBack, IsFull
    <2> QED
      BY <1>1, <2>1, SimpleAssumption
  <1> QED
    BY <1>2, <1>3

(* spawn changes the queue, the channels and the owners.                   *)
LEMMA SpawnTaskType ==
  ASSUME TypeOK, NEW u \in Tasks, SpawnTask(u)
  PROVE  /\ queue' \in Seq(Tasks) /\ Len(queue') <= Capacity
         /\ chan' \in [Tasks -> ChannelStates]
         /\ owners' \subseteq Code
  <1>1. queue' \in Seq(Tasks) /\ Len(queue') <= Capacity
    BY PushBackType DEF SpawnTask
  <1>2. chan' \in [Tasks -> ChannelStates]
    BY DEF SpawnTask, TypeOK, ChannelStates
  <1>3. owners' \subseteq Code
    BY DEF SpawnTask, TypeOK, Code
  <1> QED
    BY <1>1, <1>2, <1>3

(* A poll begins: the stack still holds code.                              *)
LEMMA PollType ==
  ASSUME TypeOK, NEW th \in Callers, NEW u \in Tasks, Poll(th, u)
  PROVE  stack' \in [Callers -> Seq(Code)]
  <1>1. Append(stack[th], u) \in Seq(Code)
    BY DEF TypeOK, Code
  <1> QED
    BY <1>1 DEF Poll, TypeOK

(* A poll ends: the stack still holds code.                                *)
LEMMA ReturnType ==
  ASSUME TypeOK, NEW th \in Callers, stack[th] # <<>>, Return(th)
  PROVE  stack' \in [Callers -> Seq(Code)]
  <1>1. Front(stack[th]) \in Seq(Code)
    BY FrontLemma DEF TypeOK
  <1> QED
    BY <1>1 DEF Return, TypeOK

(* The start.                                                              *)
LEMMA InitType ==
  ASSUME Init
  PROVE  TInv
  <1>1. script \in [Code -> Seq(SimpleOp)] /\ 0 \in 0 .. BatchLimit
    BY SimpleAssumption DEF Init
  <1>2. ip \in [Code -> Nat \ {0}] /\ mode \in [Code -> Modes] /\ OnlyTasksPend
    BY DEF Init, Modes, OnlyTasksPend
  <1>3. stack \in [Callers -> Seq(Code)]
    <2>1. \A th \in Callers : <<th>> \in Seq(Code)
      BY DEF Code
    <2> QED
      BY <2>1 DEF Init
  <1>4. chan \in [Tasks -> ChannelStates]
    BY DEF Init, ChannelStates
  <1>5. tries \in [Code -> 0 .. BatchLimit]
    BY <1>1 DEF Init
  <1>6. owners \subseteq Code /\ processed \in Nat
    BY DEF Init, Code
  <1>7. queue \in Seq(Tasks) /\ Len(queue) <= Capacity
    BY SimpleAssumption DEF Init
  <1> QED
    BY <1>1, <1>2, <1>3, <1>4, <1>5, <1>6, <1>7 DEF TInv, TypeOK

(* A step of a thread.                                                     *)
LEMMA ThreadStepType ==
  ASSUME TInv, NEW th \in Callers, ThreadStep(th)
  PROVE  TInv'
  <1> USE DEF TInv, OnlyTasksPend
  <1>1. ASSUME NEW c \in Code, DoSpawn(th, c) PROVE TInv'
    <2>1. Operand(c) \in Tasks
      BY <1>1, OperandIsTask DEF DoSpawn, AtOp
    <2>2. SpawnTask(Operand(c))
      BY <1>1 DEF DoSpawn
    <2>3. ip' \in [Code -> Nat \ {0}]
      BY <1>1 DEF DoSpawn, TypeOK
    <2>4. mode' \in [Code -> Modes] /\ OnlyTasksPend'
      BY <1>1 DEF DoSpawn, TypeOK, Modes
    <2> QED
      BY <1>1, <2>1, <2>2, <2>3, <2>4, SpawnTaskType DEF DoSpawn, TypeOK
  <1>2. ASSUME NEW c \in Code, DoBlockOn(th, c) PROVE TInv'
    <2>1. Operand(c) \in Tasks
      BY <1>2, OperandIsTask DEF DoBlockOn, AtOp
    <2>2. SpawnTask(Operand(c))
      BY <1>2 DEF DoBlockOn
    <2>3. mode' \in [Code -> Modes]
      BY <1>2 DEF DoBlockOn, TypeOK, Modes
    <2>4. OnlyTasksPend'
      BY <1>2 DEF DoBlockOn
    <2> QED
      BY <1>2, <2>1, <2>2, <2>3, <2>4, SpawnTaskType DEF DoBlockOn, TypeOK
  <1>3. ASSUME NEW c \in Code, DoAwait(th, c) PROVE TInv'
    <2>1. mode' \in [Code -> Modes] /\ OnlyTasksPend'
      BY <1>3 DEF DoAwait, Answers, TypeOK, Modes
    <2>2. chan' \in [Tasks -> ChannelStates]
      BY <1>3 DEF DoAwait, Answers, TypeOK, ChannelStates
    <2>3. ip' \in [Code -> Nat \ {0}]
      BY <1>3 DEF DoAwait, Answers, TypeOK
    <2> QED
      BY <1>3, <2>1, <2>2, <2>3 DEF DoAwait, Answers, TypeOK
  <1>4. ASSUME NEW c \in Code, DoYield(th, c) PROVE TInv'
    <2>1. ip' \in [Code -> Nat \ {0}]
      BY <1>4 DEF DoYield, Wake, TypeOK
    <2>2. mode' \in [Code -> Modes] /\ OnlyTasksPend'
      BY <1>4 DEF DoYield, Wake, TypeOK, Modes
    <2> QED
      BY <1>4, <2>1, <2>2 DEF DoYield, Wake, TypeOK
  <1>5. ASSUME NEW c \in Code, Finish(th, c) PROVE TInv'
    <2>1. mode' \in [Code -> Modes]
      BY <1>5 DEF Finish, LastOwner, TypeOK, Modes
    <2>2. OnlyTasksPend'
      BY <1>5 DEF Finish, LastOwner
    <2>3. chan' \in [Tasks -> ChannelStates]
      BY <1>5 DEF Finish, LastOwner, Destroyed, TypeOK, ChannelStates
    <2>4. queue' \in Seq(Tasks) /\ Len(queue') <= Capacity
      BY <1>5, SimpleAssumption DEF Finish, LastOwner, TypeOK
    <2>5. owners' \subseteq Code
      BY <1>5 DEF Finish, LastOwner, TypeOK
    <2> QED
      BY <1>5, <2>1, <2>2, <2>3, <2>4, <2>5 DEF Finish, LastOwner, TypeOK
  <1>6. ASSUME NEW c \in Code, Send(th, c) PROVE TInv'
    <2>1. chan' \in [Tasks -> ChannelStates]
      BY <1>6 DEF Send, TypeOK, ChannelStates
    <2>2. mode' \in [Code -> Modes] /\ OnlyTasksPend'
      BY <1>6 DEF Send, TypeOK, Modes
    <2> QED
      BY <1>6, <2>1, <2>2 DEF Send, TypeOK
  <1>7. ASSUME NEW c \in Code, ReturnReady(th, c) PROVE TInv'
    <2>1. stack' \in [Callers -> Seq(Code)]
      BY <1>7, ReturnType DEF ReturnReady, Running
    <2>2. mode' \in [Code -> Modes] /\ OnlyTasksPend'
      BY <1>7 DEF ReturnReady, TypeOK, Modes
    <2> QED
      BY <1>7, <2>1, <2>2 DEF ReturnReady, TypeOK
  <1>8. ASSUME NEW c \in Code, ReturnPending(th, c) PROVE TInv'
    <2>1. stack' \in [Callers -> Seq(Code)]
      BY <1>8, ReturnType DEF ReturnPending, Running
    <2>2. mode' \in [Code -> Modes] /\ OnlyTasksPend'
      BY <1>8 DEF ReturnPending, TypeOK, Modes
    <2>3. queue' \in Seq(Tasks) /\ Len(queue') <= Capacity
      BY <1>8, PushBackType DEF ReturnPending
    <2>4. chan' \in [Tasks -> ChannelStates]
      BY <1>8 DEF ReturnPending, Destroyed, TypeOK, ChannelStates
    <2>5. owners' \subseteq Code
      BY <1>8 DEF ReturnPending, TypeOK
    <2> QED
      BY <1>8, <2>1, <2>2, <2>3, <2>4, <2>5 DEF ReturnPending, TypeOK
  <1>9. ASSUME NEW c \in Code, PopTask(th, c) PROVE TInv'
    <2>1. queue \in Seq(Tasks) /\ queue # <<>> /\ Len(queue) <= Capacity
      BY <1>9 DEF PopTask, TypeOK
    <2>2. Head(queue) \in Tasks /\ Tail(queue) \in Seq(Tasks)
      BY <2>1, TailLemma
    <2>3. Len(Tail(queue)) <= Capacity
      BY <2>1, SimpleAssumption
    <2>4. stack' \in [Callers -> Seq(Code)]
      BY <1>9, <2>2, PollType DEF PopTask
    <2>5. tries' \in [Code -> 0 .. BatchLimit]
      BY <1>9, SimpleAssumption DEF PopTask, TypeOK
    <2> QED
      BY <1>9, <2>2, <2>3, <2>4, <2>5 DEF PopTask, TypeOK
  <1>10. ASSUME NEW c \in Code, NoMoreTasks(th, c) PROVE TInv'
    <2>1. tries' \in [Code -> 0 .. BatchLimit]
      BY <1>10, SimpleAssumption DEF NoMoreTasks, Break, TypeOK
    <2> QED
      BY <1>10, <2>1 DEF NoMoreTasks, Break, TypeOK
  <1>11. ASSUME NEW c \in Code, Look(th, c) PROVE TInv'
    <2>1. mode' \in [Code -> Modes] /\ OnlyTasksPend'
      BY <1>11 DEF Look, Answers, TypeOK, Modes
    <2>2. chan' \in [Tasks -> ChannelStates]
      BY <1>11 DEF Look, Answers, TypeOK, ChannelStates
    <2>3. ip' \in [Code -> Nat \ {0}]
      BY <1>11 DEF Look, Answers, TypeOK
    <2>4. tries' \in [Code -> 0 .. BatchLimit]
      BY <1>11, SimpleAssumption DEF Look, Answers, TypeOK
    <2> QED
      BY <1>11, <2>1, <2>2, <2>3, <2>4 DEF Look, Answers, TypeOK
  <1> QED
    BY <1>1, <1>2, <1>3, <1>4, <1>5, <1>6, <1>7, <1>8, <1>9, <1>10, <1>11
       DEF ThreadStep

(* The invariant is inductive.                                             *)
LEMMA NextType ==
  ASSUME TInv, [Next]_vars
  PROVE  TInv'
  <1>1. CASE UNCHANGED vars
    BY <1>1 DEF TInv, TypeOK, OnlyTasksPend, vars, userVars
  <1> QED
    BY <1>1, ThreadStepType DEF Next

(***************************************************************************)
(* Every variable stays in its range.  In particular the queue never holds *)
(* more tasks than its capacity.                                           *)
(***************************************************************************)
THEOREM TypeCorrect == Spec => []TypeOK
  <1>1. Init => TInv
    BY InitType
  <1>2. TInv /\ [Next]_vars => TInv'
    BY NextType
  <1>3. TInv => TypeOK
    BY DEF TInv
  <1> QED
    BY <1>1, <1>2, <1>3, PTL DEF Spec

-----------------------------------------------------------------------------
(* Where the tasks are.                                                    *)

(* A task that was not spawned has done nothing.                           *)
Fresh == \A u \in Tasks : chan[u] = "none" => mode[u] = "code"

Books == NoTaskTwice /\ NothingMislaid

BInv == TInv /\ Fresh /\ Books

(* The code that acts is on its thread's stack, so it is in flight.        *)
LEMMA RunningIsPolled ==
  ASSUME BInv, NEW th \in Callers, NEW c \in Code, Running(th, c)
  PROVE  Polled(th, c) /\ (c \in Tasks => InFlight(c))
  <1>1. stack[th] \in Seq(Code) /\ stack[th] # <<>> /\ c = Last(stack[th])
    BY DEF BInv, TInv, TypeOK, Running
  <1>2. Polled(th, c)
    BY <1>1, FrontLemma DEF Polled
  <1> QED
    BY <1>2 DEF BInv, Books, NothingMislaid

(* The moves of a task.  First, none moves.                                *)
LEMMA NothingMoves ==
  ASSUME Books, UNCHANGED <<queue, stack>>,
         \A v \in Tasks : InFlight(v)' <=> InFlight(v)
  PROVE  Books'
  BY DEF Books, NoTaskTwice, NothingMislaid, Queued, Polled

(* A new task enters the queue.                                            *)
LEMMA EntersQueue ==
  ASSUME BInv, NEW u \in Tasks, ~InFlight(u), InFlight(u)',
         \A v \in Tasks \ {u} : InFlight(v)' <=> InFlight(v),
         queue' = Append(queue, u), UNCHANGED stack
  PROVE  Books'
  <1>1. ~Queued(u) /\ \A th \in Callers : ~Polled(th, u)
    BY DEF BInv, Books, NothingMislaid
  <1>2. queue \in Seq(Tasks) /\ IsInjective(queue)
    BY DEF BInv, TInv, TypeOK, Books, NoTaskTwice
  <1>3. ToSet(queue') = ToSet(queue) \cup {u} /\ IsInjective(queue')
    BY <1>1, <1>2, AppendLemma DEF Queued
  <1> QED
    BY <1>1, <1>3 DEF BInv, Books, NoTaskTwice, NothingMislaid, Queued, Polled

(* A task goes from the head of the queue to the top of a stack.           *)
LEMMA LeavesQueue ==
  ASSUME BInv, NEW th \in Callers, queue # <<>>,
         Poll(th, Head(queue)), queue' = Tail(queue),
         \A v \in Tasks : InFlight(v)' <=> InFlight(v)
  PROVE  Books'
  <1> DEFINE u == Head(queue)
  <1>1. queue \in Seq(Tasks) /\ IsInjective(queue)
    BY DEF BInv, TInv, TypeOK, Books, NoTaskTwice
  <1>2. /\ u \in Tasks /\ ToSet(queue) = {u} \cup ToSet(queue')
        /\ u \notin ToSet(queue') /\ IsInjective(queue')
    BY <1>1, TailLemma
  <1>3. u \in ToSet(queue) /\ \A t \in Callers : u \notin ToSet(stack[t])
    BY <1>2 DEF BInv, Books, NoTaskTwice, Queued, Polled
  <1>4. stack[th] \in Seq(Code) /\ IsInjective(stack[th]) /\ u \in Code
    BY <1>2 DEF BInv, TInv, TypeOK, Books, NoTaskTwice, Code
  <1>5. /\ stack'[th] = Append(stack[th], u)
        /\ \A t \in Callers \ {th} : stack'[t] = stack[t]
    BY DEF Poll, BInv, TInv, TypeOK
  <1> HIDE DEF u
  <1>6. ToSet(stack'[th]) = ToSet(stack[th]) \cup {u} /\ IsInjective(stack'[th])
    BY <1>3, <1>4, <1>5, AppendLemma
  <1>7. NoTaskTwice'
    BY <1>2, <1>3, <1>5, <1>6 DEF BInv, Books, NoTaskTwice, Queued, Polled
  <1>8. NothingMislaid'
    BY <1>2, <1>5, <1>6 DEF BInv, Books, NothingMislaid, Queued, Polled
  <1> QED
    BY <1>7, <1>8 DEF Books

(* A poll ends: c leaves the top of its stack and goes nowhere.            *)
LEMMA LeavesStack ==
  ASSUME BInv, NEW th \in Callers, NEW c \in Code, Running(th, c), Return(th),
         c \in Tasks => ~InFlight(c)',
         \A v \in Tasks \ {c} : InFlight(v)' <=> InFlight(v),
         UNCHANGED queue
  PROVE  Books'
  <1>1. /\ stack[th] \in Seq(Code) /\ IsInjective(stack[th])
        /\ stack[th] # <<>> /\ c = Last(stack[th])
    BY DEF Running, BInv, TInv, TypeOK, Books, NoTaskTwice
  <1>2. /\ stack'[th] = Front(stack[th])
        /\ \A t \in Callers \ {th} : stack'[t] = stack[t]
    BY DEF Return, BInv, TInv, TypeOK
  <1>3. /\ ToSet(stack[th]) = {c} \cup ToSet(stack'[th])
        /\ c \notin ToSet(stack'[th]) /\ IsInjective(stack'[th])
    BY <1>1, <1>2, FrontLemma
  <1>4. NoTaskTwice'
    BY <1>2, <1>3 DEF BInv, Books, NoTaskTwice, Queued, Polled
  <1>5. c \in Tasks => /\ c \notin ToSet(queue)
                       /\ \A t \in Callers \ {th} : c \notin ToSet(stack[t])
    BY <1>3 DEF BInv, Books, NoTaskTwice, Queued, Polled
  <1>6. NothingMislaid'
    BY <1>2, <1>3, <1>5 DEF BInv, Books, NothingMislaid, Queued, Polled
  <1> QED
    BY <1>4, <1>6 DEF Books

(* A poll ends and the task goes back into the queue.                      *)
LEMMA ReentersQueue ==
  ASSUME BInv, NEW th \in Callers, NEW c \in Tasks, Running(th, c), Return(th),
         queue' = Append(queue, c),
         \A v \in Tasks : InFlight(v)' <=> InFlight(v)
  PROVE  Books'
  <1>1. /\ stack[th] \in Seq(Code) /\ IsInjective(stack[th])
        /\ stack[th] # <<>> /\ c = Last(stack[th])
        /\ queue \in Seq(Tasks) /\ IsInjective(queue)
    BY DEF Running, BInv, TInv, TypeOK, Books, NoTaskTwice
  <1>2. /\ stack'[th] = Front(stack[th])
        /\ \A t \in Callers \ {th} : stack'[t] = stack[t]
    BY DEF Return, BInv, TInv, TypeOK
  <1>3. /\ ToSet(stack[th]) = {c} \cup ToSet(stack'[th])
        /\ c \notin ToSet(stack'[th]) /\ IsInjective(stack'[th])
    BY <1>1, <1>2, FrontLemma
  <1>4. /\ c \notin ToSet(queue)
        /\ \A t \in Callers \ {th} : c \notin ToSet(stack[t])
    BY <1>3 DEF BInv, Books, NoTaskTwice, Queued, Polled
  <1>5. ToSet(queue') = ToSet(queue) \cup {c} /\ IsInjective(queue')
    BY <1>1, <1>4, AppendLemma
  <1>6. NoTaskTwice'
    BY <1>2, <1>3, <1>4, <1>5 DEF BInv, Books, NoTaskTwice, Queued, Polled
  <1>7. NothingMislaid'
    BY <1>2, <1>3, <1>5 DEF BInv, Books, NothingMislaid, Queued, Polled
  <1> QED
    BY <1>6, <1>7 DEF Books

(* The queue is destroyed with the executor.                               *)
LEMMA QueueIsCleared ==
  ASSUME BInv, queue' = <<>>, UNCHANGED stack,
         \A v \in Tasks : InFlight(v)' <=> InFlight(v) /\ ~Queued(v)
  PROVE  Books'
  <1>1. ToSet(queue') = {} /\ IsInjective(queue')
    BY EmptyLemma
  <1> QED
    BY <1>1 DEF BInv, Books, NoTaskTwice, NothingMislaid, Queued, Polled

(* spawn: into the queue, or straight out of existence.                    *)
LEMMA SpawnKeepsBooks ==
  ASSUME BInv, NEW u \in Tasks, SpawnTask(u), UNCHANGED stack,
         IF IsFull THEN mode'[u] = "dropped" ELSE mode'[u] = mode[u],
         \A v \in Tasks \ {u} : InFlight(v)' <=> InFlight(v)
  PROVE  Books'
  <1>1. ~InFlight(u) /\ mode[u] = "code"
    BY DEF BInv, Fresh, SpawnTask, InFlight
  <1>2. CASE IsFull
    <2>1. ~InFlight(u)' /\ queue' = queue
      BY <1>2 DEF SpawnTask, PushBack, InFlight
    <2> QED
      BY <1>1, <2>1, NothingMoves DEF BInv
  <1>3. CASE ~IsFull
    <2>1. chan'[u] = "open" /\ mode'[u] = "code" /\ queue' = Append(queue, u)
      BY <1>1, <1>3 DEF SpawnTask, PushBack, BInv, TInv, TypeOK
    <2>2. InFlight(u)'
      BY <2>1 DEF InFlight
    <2> QED
      BY <1>1, <2>1, <2>2, EntersQueue
  <1> QED
    BY <1>2, <1>3

(* No step mislays or copies a task.                                       *)
LEMMA ThreadStepBooks ==
  ASSUME BInv, NEW th \in Callers, ThreadStep(th)
  PROVE  Fresh' /\ Books'
  <1>1. ASSUME NEW c \in Code, DoSpawn(th, c) PROVE Fresh' /\ Books'
    <2>1. Operand(c) \in Tasks
      BY <1>1, OperandIsTask DEF DoSpawn, AtOp, BInv, TInv
    <2> DEFINE u == Operand(c)
    <2>2. /\ SpawnTask(u) /\ UNCHANGED stack
          /\ mode' = IF IsFull THEN [mode EXCEPT ![u] = "dropped"] ELSE mode
      BY <1>1 DEF DoSpawn
    <2>3. \A v \in Tasks \ {u} : chan'[v] = chan[v] /\ mode'[v] = mode[v]
      BY <2>1, <2>2 DEF SpawnTask, BInv, TInv, TypeOK, Code
    <2>4. IF IsFull THEN mode'[u] = "dropped" ELSE mode'[u] = mode[u]
      BY <2>1, <2>2 DEF BInv, TInv, TypeOK, Code
    <2>5. chan'[u] # "none"
      BY <2>1, <2>2 DEF SpawnTask, BInv, TInv, TypeOK
    <2> HIDE DEF u
    <2>6. Fresh'
      BY <2>3, <2>5 DEF BInv, Fresh
    <2> QED
      BY <2>1, <2>2, <2>3, <2>4, <2>6, SpawnKeepsBooks DEF u, InFlight
  <1>2. ASSUME NEW c \in Code, DoBlockOn(th, c) PROVE Fresh' /\ Books'
    <2>1. Operand(c) \in Tasks
      BY <1>2, OperandIsTask DEF DoBlockOn, AtOp, BInv, TInv
    <2> DEFINE u == Operand(c)
    <2>2. /\ SpawnTask(u) /\ UNCHANGED stack
          /\ mode' = [x \in Code |-> CASE x = c -> "blocked"
                                       [] x = u /\ IsFull -> "dropped"
                                       [] OTHER -> mode[x]]
      BY <1>2 DEF DoBlockOn
    <2>3. c \in Tasks => InFlight(c)
      BY <1>2, RunningIsPolled DEF DoBlockOn, AtOp
    <2>4. u # c
      BY <2>1, <2>2, <2>3 DEF SpawnTask, InFlight
    <2>5. mode[c] = "code"
      BY <1>2 DEF DoBlockOn, AtOp
    <2>6. /\ \A v \in Tasks \ {u} : chan'[v] = chan[v]
          /\ \A v \in Tasks \ {u, c} : mode'[v] = mode[v]
          /\ mode'[c] = "blocked"
      <3>1. \A v \in Tasks \ {u} : chan'[v] = chan[v]
        BY <2>1, <2>2 DEF SpawnTask, BInv, TInv, TypeOK
      <3>2. mode'[c] = "blocked"
        BY <2>2, <2>4
      <3>3. ASSUME NEW v \in Code, v # u, v # c
            PROVE  mode'[v] = mode[v]
        BY <2>2, <3>3
      <3> QED
        BY <3>1, <3>2, <3>3 DEF Code
    <2>7. IF IsFull THEN mode'[u] = "dropped" ELSE mode'[u] = mode[u]
      BY <2>1, <2>2, <2>4 DEF Code
    <2>8. chan'[u] # "none"
      BY <2>1, <2>2 DEF SpawnTask, BInv, TInv, TypeOK
    <2> HIDE DEF u
    <2>9. \A v \in Tasks \ {u} : InFlight(v)' <=> InFlight(v)
      BY <2>5, <2>6 DEF InFlight
    <2>10. Fresh'
      BY <2>3, <2>6, <2>8 DEF BInv, Fresh, InFlight
    <2> QED
      BY <2>1, <2>2, <2>7, <2>9, <2>10, SpawnKeepsBooks DEF u
  <1>3. ASSUME NEW c \in Code, DoAwait(th, c) PROVE Fresh' /\ Books'
    <2>1. c \in Tasks => InFlight(c)
      BY <1>3, RunningIsPolled DEF DoAwait, Answers, AtOp
    <2>2. \A v \in Tasks : /\ chan'[v] = "none" <=> chan[v] = "none"
                           /\ v # c => mode'[v] = mode[v]
      BY <1>3 DEF DoAwait, Answers, BInv, TInv, TypeOK, Code
    <2>3. mode'[c] \in {"code", "pending"} /\ mode[c] = "code"
      BY <1>3 DEF DoAwait, Answers, AtOp, BInv, TInv, TypeOK
    <2>4. Fresh'
      BY <2>1, <2>2 DEF BInv, Fresh, InFlight
    <2>5. \A v \in Tasks : InFlight(v)' <=> InFlight(v)
      BY <2>2, <2>3 DEF InFlight
    <2> QED
      BY <1>3, <2>4, <2>5, NothingMoves DEF DoAwait, Answers, BInv
  <1>4. ASSUME NEW c \in Code, DoYield(th, c) PROVE Fresh' /\ Books'
    <2>1. InFlight(c)
      BY <1>4, RunningIsPolled DEF DoYield, Wake, AtOp
    <2>2. mode' = [mode EXCEPT ![c] = "pending"] /\ mode[c] = "code"
          /\ UNCHANGED <<chan, queue, stack>>
      BY <1>4 DEF DoYield, Wake, AtOp
    <2>3. \A v \in Tasks : InFlight(v)' <=> InFlight(v)
      BY <2>2 DEF InFlight, BInv, TInv, TypeOK, Code
    <2>4. Fresh'
      BY <2>1, <2>2 DEF BInv, TInv, TypeOK, Fresh, InFlight
    <2> QED
      BY <2>2, <2>3, <2>4, NothingMoves DEF BInv
  <1>5. ASSUME NEW c \in Code, Finish(th, c) PROVE Fresh' /\ Books'
    <2> DEFINE lost == IF owners = {c} THEN ToSet(queue) ELSE {}
    <2>1. /\ queue' = IF owners = {c} THEN <<>> ELSE queue
          /\ chan' = Destroyed(lost)
          /\ mode' = [x \in Code |->
                        CASE x \in lost -> "dropped"
                          [] x = c      -> IF c \in Tasks THEN "finished" ELSE "ready"
                          [] OTHER      -> mode[x]]
          /\ Running(th, c) /\ mode[c] = "code" /\ UNCHANGED stack
      BY <1>5 DEF Finish, LastOwner
    <2>2. Polled(th, c) /\ (c \in Tasks => InFlight(c))
      BY <2>1, RunningIsPolled
    <2>3. lost \subseteq Tasks /\ c \notin lost
      <3>1. lost \subseteq Tasks
        BY ElementsLemma DEF BInv, TInv, TypeOK
      <3>2. c \in Tasks => ~Queued(c)
        BY <2>2 DEF BInv, Books, NoTaskTwice
      <3> QED
        BY <3>1, <3>2 DEF Queued
    <2> HIDE DEF lost
    <2>4. \A v \in Tasks : /\ v \in lost => chan'[v] = "closed" /\ mode'[v] = "dropped"
                           /\ v \notin lost => chan'[v] = chan[v]
                           /\ v \notin lost \cup {c} => mode'[v] = mode[v]
      <3>1. \A v \in Tasks : chan'[v] = IF v \in lost THEN "closed" ELSE chan[v]
        BY <2>1 DEF Destroyed
      <3>2. ASSUME NEW v \in Code, v \in lost
            PROVE  mode'[v] = "dropped"
        BY <2>1, <2>3, <3>2
      <3>3. ASSUME NEW v \in Code, v \notin lost, v # c
            PROVE  mode'[v] = mode[v]
        BY <2>1, <3>3
      <3> QED
        BY <3>1, <3>2, <3>3 DEF Code
    <2>5. mode'[c] \in {"finished", "ready"}
      BY <2>1, <2>3
    <2>6. Fresh'
      BY <2>2, <2>4 DEF BInv, Fresh, InFlight
    <2>7. \A v \in Tasks : InFlight(v)' <=> InFlight(v) /\ v \notin lost
      BY <2>1, <2>3, <2>4, <2>5 DEF InFlight
    <2>8. CASE owners = {c}
      BY <2>1, <2>6, <2>7, <2>8, QueueIsCleared DEF lost, Queued
    <2>9. CASE owners # {c}
      BY <2>1, <2>6, <2>7, <2>9, NothingMoves DEF lost, BInv
    <2> QED
      BY <2>8, <2>9
  <1>6. ASSUME NEW c \in Code, Send(th, c) PROVE Fresh' /\ Books'
    <2>1. c \in Tasks /\ InFlight(c)
      BY <1>6, RunningIsPolled DEF Send, BInv, TInv, OnlyTasksPend
    <2>2. /\ chan' = [chan EXCEPT ![c] = "value"]
          /\ mode' = [mode EXCEPT ![c] = "ready"] /\ mode[c] = "finished"
          /\ UNCHANGED <<queue, stack>>
      BY <1>6 DEF Send
    <2>3. \A v \in Tasks : InFlight(v)' <=> InFlight(v)
      BY <2>1, <2>2 DEF InFlight, BInv, TInv, TypeOK, Code
    <2>4. Fresh'
      BY <2>1, <2>2 DEF BInv, TInv, TypeOK, Fresh, InFlight
    <2> QED
      BY <2>2, <2>3, <2>4, NothingMoves DEF BInv
  <1>7. ASSUME NEW c \in Code, ReturnReady(th, c) PROVE Fresh' /\ Books'
    <2>1. c \in Tasks => InFlight(c)
      BY <1>7, RunningIsPolled DEF ReturnReady
    <2>2. /\ mode' = [mode EXCEPT ![c] = "done"] /\ Running(th, c) /\ Return(th)
          /\ UNCHANGED <<queue, chan>>
      BY <1>7 DEF ReturnReady
    <2>3. /\ \A v \in Tasks \ {c} : InFlight(v)' <=> InFlight(v)
          /\ c \in Tasks => ~InFlight(c)'
      BY <2>2 DEF InFlight, BInv, TInv, TypeOK, Code
    <2>4. Fresh'
      BY <2>1, <2>2 DEF BInv, TInv, TypeOK, Fresh, InFlight
    <2> QED
      BY <2>2, <2>3, <2>4, LeavesStack
  <1>8. ASSUME NEW c \in Code, ReturnPending(th, c) PROVE Fresh' /\ Books'
    <2>1. c \in Tasks /\ InFlight(c)
      BY <1>8, RunningIsPolled DEF ReturnPending, BInv, TInv, OnlyTasksPend
    <2>2. /\ Running(th, c) /\ Return(th) /\ PushBack(c) /\ mode[c] = "pending"
          /\ mode' = [mode EXCEPT ![c] = IF IsFull THEN "dropped" ELSE "code"]
          /\ chan' = IF IsFull THEN Destroyed({c}) ELSE chan
      BY <1>8 DEF ReturnPending
    <2>3. \A v \in Tasks \ {c} : chan'[v] = chan[v] /\ mode'[v] = mode[v]
      BY <2>2 DEF Destroyed, BInv, TInv, TypeOK, Code
    <2>4. chan'[c] # "none" /\ mode'[c] = IF IsFull THEN "dropped" ELSE "code"
      BY <2>1, <2>2 DEF Destroyed, BInv, TInv, TypeOK, Code, InFlight
    <2>5. Fresh'
      BY <2>3, <2>4 DEF BInv, Fresh
    <2>6. CASE IsFull
      <3>1. ~InFlight(c)' /\ \A v \in Tasks \ {c} : InFlight(v)' <=> InFlight(v)
        BY <2>3, <2>4, <2>6 DEF InFlight
      <3>2. queue' = queue
        BY <2>2, <2>6 DEF PushBack
      <3> QED
        BY <2>2, <2>5, <3>1, <3>2, LeavesStack
    <2>7. CASE ~IsFull
      <3>1. \A v \in Tasks : InFlight(v)' <=> InFlight(v)
        BY <2>1, <2>3, <2>4, <2>7 DEF InFlight
      <3>2. queue' = Append(queue, c)
        BY <2>2, <2>7 DEF PushBack
      <3> QED
        BY <2>1, <2>2, <2>5, <3>1, <3>2, ReentersQueue
    <2> QED
      BY <2>6, <2>7
  <1>9. ASSUME NEW c \in Code, PopTask(th, c) PROVE Fresh' /\ Books'
    <2>1. /\ queue # <<>> /\ Poll(th, Head(queue)) /\ queue' = Tail(queue)
          /\ UNCHANGED <<chan, mode>>
      BY <1>9 DEF PopTask
    <2>2. Fresh' /\ \A v \in Tasks : InFlight(v)' <=> InFlight(v)
      BY <2>1 DEF BInv, Fresh, InFlight
    <2> QED
      BY <2>1, <2>2, LeavesQueue
  <1>10. ASSUME NEW c \in Code, NoMoreTasks(th, c) PROVE Fresh' /\ Books'
    <2>1. UNCHANGED <<chan, mode, queue, stack>>
      BY <1>10 DEF NoMoreTasks, Break
    <2>2. Fresh' /\ \A v \in Tasks : InFlight(v)' <=> InFlight(v)
      BY <2>1 DEF BInv, Fresh, InFlight
    <2> QED
      BY <2>1, <2>2, NothingMoves DEF BInv
  <1>11. ASSUME NEW c \in Code, Look(th, c) PROVE Fresh' /\ Books'
    <2>1. c \in Tasks => InFlight(c)
      BY <1>11, RunningIsPolled DEF Look, Answers
    <2>2. \A v \in Tasks : /\ chan'[v] = "none" <=> chan[v] = "none"
                           /\ v # c => mode'[v] = mode[v]
      BY <1>11 DEF Look, Answers, BInv, TInv, TypeOK, Code
    <2>3. mode'[c] \in {"code", "blocked"} /\ mode[c] = "blocked"
      BY <1>11 DEF Look, Answers, BInv, TInv, TypeOK
    <2>4. Fresh'
      BY <2>1, <2>2 DEF BInv, Fresh, InFlight
    <2>5. \A v \in Tasks : InFlight(v)' <=> InFlight(v)
      BY <2>2, <2>3 DEF InFlight
    <2> QED
      BY <1>11, <2>4, <2>5, NothingMoves DEF Look, Answers, BInv
  <1> QED
    BY <1>1, <1>2, <1>3, <1>4, <1>5, <1>6, <1>7, <1>8, <1>9, <1>10, <1>11
       DEF ThreadStep

(* At the start no task is anywhere, and only callers are on stacks.       *)
LEMMA InitBooks ==
  ASSUME Init
  PROVE  BInv
  <1>1. TInv
    BY InitType
  <1>0. Fresh
    BY DEF Init, Fresh, Code
  <1>2. \A th \in Callers : stack[th] = <<th>> /\ queue = <<>>
    BY DEF Init
  <1>3. \A th \in Callers : ToSet(stack[th]) = {th} /\ IsInjective(stack[th])
    BY <1>2, SingletonLemma
  <1>4. ToSet(queue) = {} /\ IsInjective(queue)
    BY EmptyLemma DEF Init
  <1>5. NoTaskTwice
    BY <1>3, <1>4, SimpleAssumption DEF NoTaskTwice, Polled, Queued
  <1>6. NothingMislaid
    <2>1. \A u \in Tasks : ~InFlight(u)
      BY DEF Init, InFlight
    <2> QED
      BY <1>3, <1>4, <2>1, SimpleAssumption DEF NothingMislaid, Polled, Queued
  <1> QED
    BY <1>0, <1>1, <1>5, <1>6 DEF BInv, Books

(* The invariant is inductive.                                             *)
LEMMA NextBooks ==
  ASSUME BInv, [Next]_vars
  PROVE  BInv'
  <1>1. TInv'
    BY NextType DEF BInv
  <1>2. CASE UNCHANGED vars
    <2>1. UNCHANGED <<chan, mode, queue, stack>>
      BY <1>2 DEF vars, userVars
    <2>2. Fresh' /\ \A v \in Tasks : InFlight(v)' <=> InFlight(v)
      BY <2>1 DEF BInv, Fresh, InFlight
    <2> QED
      BY <1>1, <2>1, <2>2, NothingMoves DEF BInv
  <1> QED
    BY <1>1, <1>2, ThreadStepBooks DEF Next, BInv

(***************************************************************************)
(* No future is ever in two places: two threads in block_on never poll one *)
(* task, and none is polled again from within its own poll.                *)
(***************************************************************************)
THEOREM NoTaskIsCopied == Spec => []NoTaskTwice
  <1>1. Init => BInv
    BY InitBooks
  <1>2. BInv /\ [Next]_vars => BInv'
    BY NextBooks
  <1>3. BInv => NoTaskTwice
    BY DEF BInv, Books
  <1> QED
    BY <1>1, <1>2, <1>3, PTL DEF Spec

(***************************************************************************)
(* A task that was accepted is in the queue or being polled until it       *)
(* completes or is destroyed, and not after, whatever the capacity.        *)
(***************************************************************************)
THEOREM NoTaskIsMislaid == Spec => []NothingMislaid
  <1>1. Init => BInv
    BY InitBooks
  <1>2. BInv /\ [Next]_vars => BInv'
    BY NextBooks
  <1>3. BInv => NothingMislaid
    BY DEF BInv, Books
  <1> QED
    BY <1>1, <1>2, <1>3, PTL DEF Spec

-----------------------------------------------------------------------------
(* Room for all.                                                           *)

(* Code that has still to run and that calls the runtime holds a clone.    *)
CallersOwn ==
  \A c \in Code :
    /\ mode[c] \in {"code", "blocked", "pending"}
    /\ c \in Tasks => chan[c] # "none"
    /\ Captures(script[c])
    => c \in owners

(* Only what some code spawns comes into the world.                        *)
BornOfCode == \A u \in Tasks : chan[u] # "none" => u \in SpawnedByCode

RInv == BInv /\ CallersOwn /\ BornOfCode /\ RoomForAll

(* Code that calls the runtime keeps its clone until its body ends.        *)
LEMMA CallersOwnStep ==
  ASSUME BInv, CallersOwn, NEW th \in Callers, ThreadStep(th)
  PROVE  CallersOwn'
  <1> USE DEF BInv, TInv
  <1>0. script' = script
    BY DEF ThreadStep, DoSpawn, DoBlockOn, DoAwait, Answers, DoYield, Wake,
           Finish, LastOwner, Send, ReturnReady, ReturnPending, PopTask,
           NoMoreTasks, Break, Look
  <1>1. ASSUME NEW c \in Code, DoSpawn(th, c) PROVE CallersOwn'
    <2>1. Operand(c) \in Tasks
      BY <1>1, OperandIsTask DEF DoSpawn, AtOp
    <2> DEFINE u == Operand(c)
    <2>2. /\ mode' = IF IsFull THEN [mode EXCEPT ![u] = "dropped"] ELSE mode
          /\ chan' = [chan EXCEPT ![u] = IF IsFull THEN "closed" ELSE "open"]
          /\ owners' = IF Captures(script[u]) /\ ~IsFull THEN owners \cup {u} ELSE owners
      BY <1>1 DEF DoSpawn, SpawnTask
    <2> HIDE DEF u
    <2>3. \A x \in Code \ {u} : mode'[x] = mode[x] /\ (x \in Tasks => chan'[x] = chan[x])
      BY <2>2 DEF TypeOK
    <2>4. IsFull => mode'[u] = "dropped"
      BY <2>1, <2>2 DEF TypeOK, Code, u
    <2> QED
      BY <1>0, <2>2, <2>3, <2>4 DEF CallersOwn
  <1>2. ASSUME NEW c \in Code, DoBlockOn(th, c) PROVE CallersOwn'
    <2>1. Operand(c) \in Tasks
      BY <1>2, OperandIsTask DEF DoBlockOn, AtOp
    <2> DEFINE u == Operand(c)
    <2>2. /\ mode' = [x \in Code |-> CASE x = c -> "blocked"
                                       [] x = u /\ IsFull -> "dropped"
                                       [] OTHER -> mode[x]]
          /\ chan' = [chan EXCEPT ![u] = IF IsFull THEN "closed" ELSE "open"]
          /\ owners' = IF Captures(script[u]) /\ ~IsFull THEN owners \cup {u} ELSE owners
          /\ Running(th, c) /\ mode[c] = "code" /\ chan[u] = "none"
      BY <1>2 DEF DoBlockOn, SpawnTask, AtOp
    <2>3. c # u
      BY <2>1, <2>2, RunningIsPolled DEF InFlight
    <2> HIDE DEF u
    <2>4. /\ \A x \in Code \ {u, c} : mode'[x] = mode[x]
          /\ \A x \in Tasks \ {u} : chan'[x] = chan[x]
      BY <2>2 DEF TypeOK
    <2>5. IsFull => mode'[u] = "dropped"
      BY <2>1, <2>2, <2>3 DEF Code, u
    <2> QED
      BY <1>0, <2>2, <2>4, <2>5 DEF CallersOwn
  <1>3. ASSUME NEW c \in Code, DoAwait(th, c) PROVE CallersOwn'
    <2>1. /\ \A v \in Tasks : chan'[v] = "none" <=> chan[v] = "none"
          /\ \A x \in Code \ {c} : mode'[x] = mode[x]
          /\ mode[c] = "code" /\ owners' = owners
      BY <1>3 DEF DoAwait, Answers, AtOp, TypeOK
    <2> QED
      BY <1>0, <2>1 DEF CallersOwn
  <1>4. ASSUME NEW c \in Code, DoYield(th, c) PROVE CallersOwn'
    <2>1. /\ \A x \in Code \ {c} : mode'[x] = mode[x]
          /\ mode[c] = "code" /\ UNCHANGED <<chan, owners>>
      BY <1>4 DEF DoYield, Wake, AtOp, TypeOK
    <2> QED
      BY <1>0, <2>1 DEF CallersOwn
  <1>5. ASSUME NEW c \in Code, Finish(th, c) PROVE CallersOwn'
    <2> DEFINE lost == IF owners = {c} THEN ToSet(queue) ELSE {}
    <2>1. /\ chan' = Destroyed(lost) /\ owners' = owners \ {c}
          /\ mode' = [x \in Code |->
                        CASE x \in lost -> "dropped"
                          [] x = c      -> IF c \in Tasks THEN "finished" ELSE "ready"
                          [] OTHER      -> mode[x]]
      BY <1>5 DEF Finish, LastOwner
    <2>2. Polled(th, c)
      BY <1>5, RunningIsPolled DEF Finish, LastOwner
    <2>3. c \notin lost
      <3>1. lost \subseteq Tasks
        BY ElementsLemma DEF TypeOK
      <3> QED
        BY <2>2, <3>1 DEF Books, NoTaskTwice, Queued
    <2> HIDE DEF lost
    <2>4. mode'[c] \in {"finished", "ready"}
      BY <2>1, <2>3
    <2>5. \A x \in lost : x \in Code => mode'[x] = "dropped"
      BY <2>1, <2>3
    <2>6. \A x \in Code : x \notin lost /\ x # c => mode'[x] = mode[x]
      BY <2>1
    <2>7. \A x \in Tasks : x \notin lost => chan'[x] = chan[x]
      BY <2>1 DEF Destroyed
    <2> QED
      BY <1>0, <2>1, <2>4, <2>5, <2>6, <2>7 DEF CallersOwn
  <1>6. ASSUME NEW c \in Code, Send(th, c) PROVE CallersOwn'
    <2>1. /\ \A x \in Code \ {c} : mode'[x] = mode[x] /\ (x \in Tasks => chan'[x] = chan[x])
          /\ mode'[c] = "ready" /\ owners' = owners
      BY <1>6 DEF Send, TypeOK
    <2> QED
      BY <1>0, <2>1 DEF CallersOwn
  <1>7. ASSUME NEW c \in Code, ReturnReady(th, c) PROVE CallersOwn'
    <2>1. /\ \A x \in Code \ {c} : mode'[x] = mode[x]
          /\ mode'[c] = "done" /\ UNCHANGED <<chan, owners>>
      BY <1>7 DEF ReturnReady, TypeOK
    <2> QED
      BY <1>0, <2>1 DEF CallersOwn
  <1>8. ASSUME NEW c \in Code, ReturnPending(th, c) PROVE CallersOwn'
    <2>1. /\ mode[c] = "pending"
          /\ mode' = [mode EXCEPT ![c] = IF IsFull THEN "dropped" ELSE "code"]
          /\ chan' = IF IsFull THEN Destroyed({c}) ELSE chan
          /\ owners' = IF IsFull THEN owners \ {c} ELSE owners
      BY <1>8 DEF ReturnPending
    <2>2. \A x \in Code \ {c} : mode'[x] = mode[x] /\ (x \in Tasks => chan'[x] = chan[x])
      BY <2>1 DEF Destroyed, TypeOK
    <2>3. mode'[c] = IF IsFull THEN "dropped" ELSE "code"
      BY <2>1 DEF TypeOK
    <2> QED
      BY <1>0, <2>1, <2>2, <2>3 DEF CallersOwn
  <1>9. ASSUME NEW c \in Code, PopTask(th, c) \/ NoMoreTasks(th, c) PROVE CallersOwn'
    BY <1>0, <1>9 DEF PopTask, NoMoreTasks, Break, CallersOwn
  <1>10. ASSUME NEW c \in Code, Look(th, c) PROVE CallersOwn'
    <2>1. /\ \A v \in Tasks : chan'[v] = "none" <=> chan[v] = "none"
          /\ \A x \in Code \ {c} : mode'[x] = mode[x]
          /\ mode[c] = "blocked" /\ owners' = owners
      BY <1>10 DEF Look, Answers, TypeOK
    <2> QED
      BY <1>0, <2>1 DEF CallersOwn
  <1> QED
    BY <1>1, <1>2, <1>3, <1>4, <1>5, <1>6, <1>7, <1>8, <1>9, <1>10
       DEF ThreadStep

(* The program stays the same, and with it the tasks that it spawns.       *)
LEMMA SameProgram ==
  ASSUME NEW th \in Callers, ThreadStep(th)
  PROVE  script' = script /\ SpawnedByCode' = SpawnedByCode
  <1>1. script' = script
    BY DEF ThreadStep, DoSpawn, DoBlockOn, DoAwait, Answers, DoYield, Wake,
           Finish, LastOwner, Send, ReturnReady, ReturnPending, PopTask,
           NoMoreTasks, Break, Look
  <1> QED
    BY <1>1 DEF SpawnedByCode

(* The operand of a spawn or block_on is spawned by code.                  *)
LEMMA OperandIsSpawned ==
  ASSUME TypeOK, NEW c \in Code, ip[c] <= Len(script[c]),
         script[c][ip[c]].do \in {"spawn", "block_on"}
  PROVE  Operand(c) \in SpawnedByCode
  <1>1. ip[c] \in DOMAIN script[c]
    BY DEF TypeOK
  <1>2. Operand(c) \in Tasks
    BY OperandIsTask
  <1> QED
    BY <1>1, <1>2 DEF SpawnedByCode, Operand

(* A channel is opened by a spawn only.                                    *)
LEMMA BornOfCodeStep ==
  ASSUME BInv, BornOfCode, NEW th \in Callers, ThreadStep(th)
  PROVE  BornOfCode'
  <1> SUFFICES ASSUME NEW u \in Tasks, chan'[u] # "none"
               PROVE  u \in SpawnedByCode
    BY SameProgram DEF BornOfCode
  <1>1. CASE chan[u] # "none"
    BY <1>1 DEF BornOfCode
  <1>2. CASE chan[u] = "none"
    <2>1. TypeOK
      BY DEF BInv, TInv
    <2>2. ASSUME NEW c \in Code, DoSpawn(th, c) \/ DoBlockOn(th, c)
          PROVE  u \in SpawnedByCode
      <3>1. /\ Operand(c) \in SpawnedByCode
            /\ SpawnTask(Operand(c))
        BY <2>1, <2>2, OperandIsSpawned DEF DoSpawn, DoBlockOn, AtOp
      <3>2. u = Operand(c)
        BY <1>2, <2>1, <3>1 DEF SpawnTask, TypeOK
      <3> QED
        BY <3>1, <3>2
    <2>3. ASSUME NEW c \in Code, DoAwait(th, c) \/ Look(th, c) \/ Send(th, c)
          PROVE  u \in SpawnedByCode
      <3>1. /\ NothingMislaid
            /\ Send(th, c) => c \in Tasks /\ Polled(th, c) /\ mode[c] = "finished"
        BY <2>3, RunningIsPolled DEF Send, BInv, TInv, OnlyTasksPend, Books
      <3>2. Send(th, c) => chan[c] # "none"
        BY <3>1 DEF NothingMislaid, InFlight
      <3> QED
        BY <1>2, <2>1, <2>3, <3>2 DEF DoAwait, Answers, Look, Send, TypeOK
    <2>4. ASSUME NEW c \in Code, Finish(th, c) \/ ReturnPending(th, c)
          PROVE  u \in SpawnedByCode
      <3>1. c \in Tasks /\ ReturnPending(th, c) => chan[c] # "none"
        BY <2>4, RunningIsPolled
           DEF ReturnPending, BInv, Books, NothingMislaid, InFlight
      <3>2. \A v \in Tasks : v \in ToSet(queue) => chan[v] # "none"
        BY DEF BInv, Books, NothingMislaid, InFlight, Queued
      <3> QED
        BY <1>2, <2>1, <2>4, <3>1, <3>2
           DEF Finish, LastOwner, ReturnPending, Destroyed, TypeOK
    <2>5. ASSUME NEW c \in Code,
                 DoYield(th, c) \/ ReturnReady(th, c) \/ PopTask(th, c) \/ NoMoreTasks(th, c)
          PROVE  u \in SpawnedByCode
      BY <1>2, <2>5 DEF DoYield, Wake, ReturnReady, PopTask, NoMoreTasks, Break
    <2> QED
      BY <2>2, <2>3, <2>4, <2>5 DEF ThreadStep
  <1> QED
    BY <1>1, <1>2

(* A task outside the queue finds a slot in it.                            *)
LEMMA SlotForTask ==
  ASSUME IsFiniteSet(Tasks), HasRoomForAll, BInv, BornOfCode,
         NEW u \in SpawnedByCode, ~Queued(u)
  PROVE  ~IsFull
  <1>1. queue \in Seq(Tasks) /\ IsInjective(queue)
    BY DEF BInv, TInv, TypeOK, Books, NoTaskTwice
  <1>2. \A v \in Tasks : Queued(v) => v \in SpawnedByCode
    BY DEF BInv, Books, NothingMislaid, InFlight, BornOfCode
  <1>3. \A i \in 1 .. Len(queue) : queue[i] \in SpawnedByCode
    BY <1>1, <1>2, ElementsLemma DEF Queued
  <1>4. queue \in Seq(SpawnedByCode)
    BY <1>1, <1>3
  <1>5. IsFiniteSet(SpawnedByCode)
    BY FS_Subset DEF SpawnedByCode
  <1>6. Len(queue) < Cardinality(SpawnedByCode)
    BY <1>1, <1>4, <1>5, RoomLemma DEF Queued
  <1>7. Len(queue) \in Nat /\ Cardinality(SpawnedByCode) \in Nat
    BY <1>1, <1>5, FS_CardinalityType
  <1> QED
    BY <1>6, <1>7, SimpleAssumption DEF IsFull, HasRoomForAll

(* No step closes a channel while somebody holds the Runtime.              *)
LEMMA RoomStep ==
  ASSUME IsFiniteSet(Tasks), RInv, NEW th \in Callers, ThreadStep(th)
  PROVE  RoomForAll'
  <1> SUFFICES ASSUME HasRoomForAll, owners' # {}, NEW v \in Tasks
               PROVE  chan'[v] # "closed"
    BY SameProgram DEF RoomForAll, HasRoomForAll
  <1> USE DEF RInv, BInv, TInv
  <1>1. owners # {} => chan[v] # "closed"
    BY DEF RoomForAll
  <1>2. ASSUME NEW c \in Code, DoSpawn(th, c) \/ DoBlockOn(th, c)
        PROVE  chan'[v] # "closed"
    <2>1. /\ Operand(c) \in Tasks /\ SpawnTask(Operand(c))
          /\ Running(th, c) /\ mode[c] = "code"
          /\ ip[c] <= Len(script[c])
          /\ script[c][ip[c]].do \in {"spawn", "block_on"}
      BY <1>2, OperandIsTask DEF DoSpawn, DoBlockOn, AtOp
    <2>2. ip[c] \in DOMAIN script[c]
      BY <2>1 DEF TypeOK
    <2>3. Captures(script[c])
      BY <2>1, <2>2 DEF Captures
    <2>4. c \in owners
      BY <2>1, <2>3, RunningIsPolled DEF CallersOwn, InFlight
    <2> DEFINE u == Operand(c)
    <2>5. ~InFlight(u) /\ chan' = [chan EXCEPT ![u] = IF IsFull THEN "closed" ELSE "open"]
      BY <2>1 DEF SpawnTask, InFlight
    <2>6. ~Queued(u) /\ u \in SpawnedByCode
      BY <2>1, <2>5, OperandIsSpawned DEF Books, NothingMislaid
    <2>7. ~IsFull
      BY <2>1, <2>6, SlotForTask
    <2> QED
      BY <1>1, <2>4, <2>5, <2>7 DEF TypeOK
  <1>3. ASSUME NEW c \in Code, DoAwait(th, c) \/ Look(th, c)
        PROVE  chan'[v] # "closed"
    BY <1>1, <1>3 DEF DoAwait, Answers, Look, TypeOK
  <1>4. ASSUME NEW c \in Code, Finish(th, c)
        PROVE  chan'[v] # "closed"
    <2>1. owners # {c}
      BY <1>4 DEF Finish, LastOwner
    <2>2. chan'[v] = chan[v] /\ owners # {}
      BY <1>4, <2>1 DEF Finish, LastOwner, Destroyed
    <2> QED
      BY <1>1, <2>2
  <1>5. ASSUME NEW c \in Code, Send(th, c)
        PROVE  chan'[v] # "closed"
    BY <1>1, <1>5 DEF Send, TypeOK
  <1>6. ASSUME NEW c \in Code, ReturnPending(th, c)
        PROVE  chan'[v] # "closed"
    <2>1. c \in Tasks /\ Polled(th, c)
      BY <1>6, RunningIsPolled DEF ReturnPending, OnlyTasksPend
    <2>2. ~Queued(c) /\ c \in SpawnedByCode
      BY <2>1 DEF Books, NoTaskTwice, NothingMislaid, InFlight, BornOfCode
    <2>3. ~IsFull
      BY <2>1, <2>2, SlotForTask
    <2> QED
      BY <1>1, <1>6, <2>3 DEF ReturnPending
  <1>7. ASSUME NEW c \in Code,
               DoYield(th, c) \/ ReturnReady(th, c) \/ PopTask(th, c) \/ NoMoreTasks(th, c)
        PROVE  chan'[v] # "closed"
    BY <1>1, <1>7 DEF DoYield, Wake, ReturnReady, PopTask, NoMoreTasks, Break
  <1> QED
    BY <1>2, <1>3, <1>4, <1>5, <1>6, <1>7 DEF ThreadStep

(***************************************************************************)
(* With a slot for every task it spawns, no task is lost while the runtime *)
(* lives: neither a spawn nor, in the middle of it, a re-queue overflows.  *)
(***************************************************************************)
THEOREM RoomIsEnough ==
  ASSUME IsFiniteSet(Tasks)
  PROVE  Spec => []RoomForAll
  <1>1. Init => RInv
    BY InitBooks DEF RInv, Init, CallersOwn, BornOfCode, RoomForAll, Code
  <1>2. RInv /\ [Next]_vars => RInv'
    <2> SUFFICES ASSUME RInv, [Next]_vars PROVE RInv'
      OBVIOUS
    <2>1. BInv'
      BY NextBooks DEF RInv
    <2>2. CASE UNCHANGED vars
      BY <2>1, <2>2 DEF RInv, CallersOwn, BornOfCode, RoomForAll, HasRoomForAll,
                       SpawnedByCode, vars, userVars
    <2>3. ASSUME NEW th \in Callers, ThreadStep(th)
          PROVE  RInv'
      BY <2>1, <2>3, CallersOwnStep, BornOfCodeStep, RoomStep DEF RInv
    <2> QED
      BY <2>2, <2>3 DEF Next
  <1>3. RInv => RoomForAll
    BY DEF RInv
  <1> QED
    BY <1>1, <1>2, <1>3, PTL DEF Spec

-----------------------------------------------------------------------------
(* Who holds the Runtime, and where the tasks of its holders are.          *)

(* A user's thread has its own code at the bottom of its stack until that  *)
(* is done, and the code is on no other stack.                             *)
CallersHome ==
  /\ \A th \in Callers : stack[th] # <<>> => Head(stack[th]) = th
  /\ \A th \in Callers : mode[th] # "done" => stack[th] # <<>>
  /\ \A th, c \in Callers : Polled(th, c) => th = c

(* What lies under another poll is in block_on.                            *)
BlockedBelow ==
  \A th \in Callers, x \in Code :
    Polled(th, x) /\ x # Last(stack[th]) => mode[x] = "blocked"

(* A channel is filled when its task sends, closed when it is destroyed.   *)
ChannelsFollow ==
  \A u \in Tasks :
    /\ chan[u] \in {"value", "received"} <=> mode[u] \in {"ready", "done"}
    /\ chan[u] = "closed" <=> mode[u] = "dropped"

(* A task that waits in the queue is at an operation of its script.        *)
QueuedInCode ==
  \A u \in Tasks :
    mode[u] \in {"blocked", "pending", "finished", "ready"}
      => \E th \in Callers : Polled(th, u)

(* Only code that calls the runtime is ever in block_on.                   *)
BlockedCapture == \A c \in Code : mode[c] = "blocked" => Captures(script[c])

(* A clone is held by code that has still to run; if a task, by one that   *)
(* was spawned and that calls the runtime.                                 *)
HoldersAlive ==
  \A c \in owners :
    /\ mode[c] \in {"code", "blocked", "pending"}
    /\ c \in Tasks => chan[c] # "none" /\ Captures(script[c])

(* With the last clone the queue is gone, and stays gone.                  *)
QueueFalls == owners = {} => queue = <<>>

StackInv == CallersHome /\ BlockedBelow

LifeInv == ChannelsFollow /\ QueuedInCode

OwnInv == CallersOwn /\ BlockedCapture /\ HoldersAlive /\ QueueFalls

CInv == BInv /\ BornOfCode /\ StackInv /\ LifeInv /\ OwnInv

-----------------------------------------------------------------------------
(* The kinds of steps, by what they do to the channels, the modes and the  *)
(* stacks, the things that the mapping to the contract looks at.           *)

Quiet == UNCHANGED <<chan, mode, stack, queue, owners>>

(* A task is spawned, by code that may go on to wait for it.               *)
Spawns(th, c, u) ==
  /\ Running(th, c) /\ mode[c] = "code" /\ Captures(script[c])
  /\ chan[u] = "none" /\ chan' = [chan EXCEPT ![u] = "open"]
  /\ mode' \in {mode, [mode EXCEPT ![c] = "blocked"]}
  /\ owners' = IF Captures(script[u]) THEN owners \cup {u} ELSE owners
  /\ UNCHANGED stack

(* The same, into a queue that is full.                                    *)
Rejects(th, c, u) ==
  /\ Running(th, c) /\ mode[c] = "code" /\ Captures(script[c])
  /\ chan[u] = "none" /\ chan' = [chan EXCEPT ![u] = "closed"]
  /\ IsFull /\ u \in SpawnedByCode
  /\ mode' \in {[mode EXCEPT ![u] = "dropped"],
                [mode EXCEPT ![u] = "dropped", ![c] = "blocked"]}
  /\ UNCHANGED <<stack, queue, owners>>

(* A future returns Pending.                                               *)
Waits(th, c) ==
  /\ Running(th, c) /\ mode[c] = "code" /\ c \in Tasks
  /\ mode' = [mode EXCEPT ![c] = "pending"]
  /\ UNCHANGED <<chan, stack, queue, owners>>

(* Code ends, and with the last clone of the Runtime the tasks S.          *)
Ends(th, c, S) ==
  /\ Running(th, c) /\ mode[c] = "code"
  /\ S = IF owners = {c} THEN ToSet(queue) ELSE {}
  /\ chan' = Destroyed(S)
  /\ mode'[c] = IF c \in Tasks THEN "finished" ELSE "ready"
  /\ \A x \in Code \ {c} : mode'[x] = IF x \in S THEN "dropped" ELSE mode[x]
  /\ owners' = owners \ {c}
  /\ queue' = IF owners = {c} THEN <<>> ELSE queue
  /\ UNCHANGED stack

(* A result is taken out of its channel.                                   *)
Takes(th, c, v) ==
  /\ Running(th, c) /\ mode[c] \in {"code", "blocked"}
  /\ chan[v] = "value" /\ chan' = [chan EXCEPT ![v] = "received"]
  /\ mode' = [mode EXCEPT ![c] = "code"]
  /\ UNCHANGED <<stack, queue, owners>>

Sends(th, c) ==
  /\ Running(th, c) /\ mode[c] = "finished" /\ c \in Tasks
  /\ chan' = [chan EXCEPT ![c] = "value"]
  /\ mode' = [mode EXCEPT ![c] = "ready"]
  /\ UNCHANGED <<stack, queue, owners>>

(* A task of the queue is polled, inside a block_on.                       *)
Polls(th, u) ==
  /\ InFlight(u) /\ \A t \in Callers : ~Polled(t, u)
  /\ stack[th] # <<>> /\ mode[Last(stack[th])] = "blocked"
  /\ queue # <<>> /\ Poll(th, u)
  /\ UNCHANGED <<chan, mode, owners>>

(* A poll ends.                                                            *)
Returns(th, c, m) ==
  /\ Running(th, c) /\ Return(th)
  /\ \/ mode[c] = "ready" /\ m = "done" /\ queue' = queue
     \/ mode[c] = "pending" /\ m = "code" /\ c \in Tasks
  /\ mode' = [mode EXCEPT ![c] = m]
  /\ UNCHANGED <<chan, owners>>

(* A poll ends with Pending, and the queue is full.                        *)
Overflows(th, c) ==
  /\ Running(th, c) /\ Return(th) /\ mode[c] = "pending" /\ c \in Tasks
  /\ IsFull
  /\ chan' = [chan EXCEPT ![c] = "closed"]
  /\ mode' = [mode EXCEPT ![c] = "dropped"]
  /\ owners' = owners \ {c}
  /\ UNCHANGED queue

Kinds ==
  \/ Quiet
  \/ \E th \in Callers, c \in Code :
       \/ \E u \in Tasks : Spawns(th, c, u) \/ Rejects(th, c, u)
       \/ Waits(th, c) \/ Sends(th, c) \/ Overflows(th, c)
       \/ \E S : Ends(th, c, S)
       \/ \E v : Takes(th, c, v)
       \/ \E m \in Modes : Returns(th, c, m)
  \/ \E th \in Callers, u \in Tasks : Polls(th, u)

(* Every step is of one of the kinds.                                      *)
LEMMA StepKind ==
  ASSUME BInv, NEW th \in Callers, ThreadStep(th)
  PROVE  Kinds
  <1>0. TypeOK /\ OnlyTasksPend
    BY DEF BInv, TInv
  <1>1. ASSUME NEW c \in Code, DoSpawn(th, c) \/ DoBlockOn(th, c) PROVE Kinds
    <2> DEFINE u == Operand(c)
    <2>1. /\ Running(th, c) /\ mode[c] = "code" /\ ip[c] <= Len(script[c])
          /\ script[c][ip[c]].do \in {"spawn", "block_on"}
          /\ SpawnTask(u) /\ UNCHANGED stack
      BY <1>1 DEF DoSpawn, DoBlockOn, AtOp
    <2>2. u \in Tasks /\ u \in SpawnedByCode
      BY <1>0, <2>1, OperandIsTask, OperandIsSpawned
    <2>3. Captures(script[c])
      <3>1. ip[c] \in DOMAIN script[c]
        BY <1>0, <2>1 DEF TypeOK
      <3> QED
        BY <2>1, <3>1 DEF Captures
    <2>4. chan[u] = "none" /\ u # c
      <3>1. chan[u] = "none"
        BY <2>1 DEF SpawnTask
      <3> QED
        BY <2>1, <2>2, <3>1, RunningIsPolled DEF InFlight
    <2>5. IF IsFull
            THEN mode' \in {[mode EXCEPT ![u] = "dropped"],
                            [mode EXCEPT ![u] = "dropped", ![c] = "blocked"]}
            ELSE mode' \in {mode, [mode EXCEPT ![c] = "blocked"]}
      <3>1. CASE DoSpawn(th, c)
        BY <3>1 DEF DoSpawn
      <3>2. CASE DoBlockOn(th, c)
        <4> HIDE DEF u
        <4>1. mode' = [x \in Code |-> CASE x = c -> "blocked"
                                        [] x = u /\ IsFull -> "dropped"
                                        [] OTHER -> mode[x]]
          BY <3>2 DEF DoBlockOn, u
        <4>2. CASE IsFull
          <5>1. \A x \in Code : mode'[x] = IF x = c THEN "blocked"
                                           ELSE IF x = u THEN "dropped" ELSE mode[x]
            BY <2>4, <4>1, <4>2
          <5>2. mode' = [mode EXCEPT ![u] = "dropped", ![c] = "blocked"]
            BY <1>0, <2>4, <4>1, <5>1 DEF TypeOK
          <5> QED
            BY <4>2, <5>2
        <4>3. CASE ~IsFull
          <5>1. \A x \in Code : mode'[x] = IF x = c THEN "blocked" ELSE mode[x]
            BY <4>1, <4>3
          <5>2. mode' = [mode EXCEPT ![c] = "blocked"]
            BY <1>0, <4>1, <5>1 DEF TypeOK
          <5> QED
            BY <4>3, <5>2
        <4> QED
          BY <4>2, <4>3
      <3> QED
        BY <1>1, <3>1, <3>2
    <2>6. CASE IsFull
      <3>1. Rejects(th, c, u)
        BY <2>1, <2>2, <2>3, <2>4, <2>5, <2>6 DEF SpawnTask, PushBack, Rejects
      <3> QED
        BY <2>2, <3>1 DEF Kinds
    <2>7. CASE ~IsFull
      <3>1. Spawns(th, c, u)
        BY <2>1, <2>3, <2>4, <2>5, <2>7 DEF SpawnTask, Spawns
      <3> QED
        BY <2>2, <3>1 DEF Kinds
    <2> QED
      BY <2>6, <2>7
  <1>2. ASSUME NEW c \in Code, DoAwait(th, c) PROVE Kinds
    <2>1. Running(th, c) /\ mode[c] = "code" /\ c \in Tasks
      BY <1>2 DEF DoAwait, AtOp
    <2>2. CASE Answers(Operand(c)) /\ mode' = mode
      <3>1. mode' = [mode EXCEPT ![c] = "code"]
        BY <1>0, <2>1, <2>2 DEF TypeOK
      <3>2. Takes(th, c, Operand(c))
        BY <1>2, <2>1, <2>2, <3>1 DEF DoAwait, Answers, Takes
      <3> QED
        BY <3>2 DEF Kinds
    <2>3. CASE ~Answers(Operand(c))
      <3>1. Waits(th, c)
        BY <1>2, <2>1, <2>3 DEF DoAwait, Waits
      <3> QED
        BY <3>1 DEF Kinds
    <2> QED
      BY <1>2, <2>2, <2>3 DEF DoAwait
  <1>3. ASSUME NEW c \in Code, DoYield(th, c) PROVE Kinds
    <2>1. Waits(th, c)
      BY <1>3 DEF DoYield, AtOp, Wake, Waits
    <2> QED
      BY <2>1 DEF Kinds
  <1>4. ASSUME NEW c \in Code, Finish(th, c) PROVE Kinds
    <2> DEFINE S == IF owners = {c} THEN ToSet(queue) ELSE {}
               m == IF c \in Tasks THEN "finished" ELSE "ready"
    <2>1. /\ Running(th, c) /\ mode[c] = "code" /\ chan' = Destroyed(S)
          /\ owners' = owners \ {c} /\ UNCHANGED stack
          /\ queue' = IF owners = {c} THEN <<>> ELSE queue
          /\ mode' = [x \in Code |-> CASE x \in S -> "dropped"
                                       [] x = c   -> m
                                       [] OTHER   -> mode[x]]
      BY <1>4 DEF Finish, LastOwner
    <2>2. c \notin S
      <3>1. c \notin ToSet(queue)
        <4>1. Polled(th, c) /\ ToSet(queue) \subseteq Tasks
          BY <1>0, <2>1, RunningIsPolled, MembersLemma DEF TypeOK
        <4> QED
          BY <4>1 DEF BInv, Books, NoTaskTwice, Queued
      <3> QED
        BY <3>1
    <2> HIDE DEF S, m
    <2>3. mode'[c] = m
      BY <2>1, <2>2
    <2>4. \A x \in Code \ {c} : mode'[x] = IF x \in S THEN "dropped" ELSE mode[x]
      BY <2>1
    <2>5. Ends(th, c, S)
      BY <2>1, <2>3, <2>4 DEF Ends, S, m
    <2> QED
      BY <2>5 DEF Kinds
  <1>5. ASSUME NEW c \in Code, Send(th, c) PROVE Kinds
    <2>1. Sends(th, c)
      BY <1>0, <1>5 DEF Send, Sends, OnlyTasksPend
    <2> QED
      BY <2>1 DEF Kinds
  <1>6. ASSUME NEW c \in Code, ReturnReady(th, c) PROVE Kinds
    <2>1. Returns(th, c, "done") /\ "done" \in Modes
      BY <1>6 DEF ReturnReady, Returns, Modes
    <2> QED
      BY <2>1 DEF Kinds
  <1>7. ASSUME NEW c \in Code, ReturnPending(th, c) PROVE Kinds
    <2>1. /\ Running(th, c) /\ Return(th) /\ mode[c] = "pending" /\ c \in Tasks
          /\ PushBack(c)
      BY <1>0, <1>7 DEF ReturnPending, OnlyTasksPend
    <2>2. CASE IsFull
      <3>1. chan' = [chan EXCEPT ![c] = "closed"]
        BY <1>0, <1>7, <2>2 DEF ReturnPending, Destroyed, TypeOK
      <3>2. mode' = [mode EXCEPT ![c] = "dropped"] /\ owners' = owners \ {c} /\ queue' = queue
        BY <1>7, <2>2 DEF ReturnPending, PushBack
      <3>3. Overflows(th, c)
        BY <2>1, <2>2, <3>1, <3>2 DEF Overflows
      <3> QED
        BY <3>3 DEF Kinds
    <2>3. CASE ~IsFull
      <3>1. Returns(th, c, "code") /\ "code" \in Modes
        BY <1>7, <2>1, <2>3 DEF ReturnPending, Returns, Modes
      <3> QED
        BY <3>1 DEF Kinds
    <2> QED
      BY <2>2, <2>3
  <1>8. ASSUME NEW c \in Code, PopTask(th, c) PROVE Kinds
    <2> DEFINE u == Head(queue)
    <2>1. queue \in Seq(Tasks) /\ queue # <<>>
      BY <1>0, <1>8 DEF PopTask, TypeOK
    <2>2. u \in Tasks /\ Queued(u)
      BY <2>1, TailLemma DEF Queued
    <2>3. InFlight(u) /\ \A t \in Callers : ~Polled(t, u)
      BY <2>2 DEF BInv, Books, NoTaskTwice, NothingMislaid
    <2>4. Polls(th, u)
      BY <1>8, <2>1, <2>3 DEF PopTask, Running, Polls
    <2> QED
      BY <2>2, <2>4 DEF Kinds
  <1>9. ASSUME NEW c \in Code, NoMoreTasks(th, c) PROVE Kinds
    BY <1>9 DEF NoMoreTasks, Kinds, Quiet
  <1>10. ASSUME NEW c \in Code, Look(th, c) PROVE Kinds
    <2>1. CASE Answers(Operand(c))
      <3>1. Takes(th, c, Operand(c))
        BY <1>10, <2>1 DEF Look, Answers, Takes
      <3> QED
        BY <3>1 DEF Kinds
    <2>2. CASE ~Answers(Operand(c))
      BY <1>10, <2>2 DEF Look, Kinds, Quiet
    <2> QED
      BY <2>1, <2>2
  <1> QED
    BY <1>1, <1>2, <1>3, <1>4, <1>5, <1>6, <1>7, <1>8, <1>9, <1>10
       DEF ThreadStep

(* Every step is of one of these kinds.                                    *)
LEMMA NextKind ==
  ASSUME BInv, [Next]_vars
  PROVE  Kinds /\ script' = script
  <1>1. CASE UNCHANGED vars
    BY <1>1 DEF vars, userVars, Kinds, Quiet
  <1> QED
    BY <1>1, StepKind, SameProgram DEF Next

-----------------------------------------------------------------------------
(* The stacks.                                                             *)

(* A poll begins: the stacks afterwards.                                   *)
LEMMA PollFacts ==
  ASSUME BInv, NEW th \in Callers, NEW u \in Tasks, stack[th] # <<>>, Poll(th, u)
  PROVE  /\ ToSet(stack'[th]) = ToSet(stack[th]) \cup {u}
         /\ Last(stack'[th]) = u /\ stack'[th] # <<>>
         /\ Head(stack'[th]) = Head(stack[th])
         /\ \A t \in Callers \ {th} : stack'[t] = stack[t]
  <1> DEFINE s == stack[th]
             t == Append(s, u)
  <1>1. /\ stack'[th] = t /\ s \in Seq(Code) /\ s # <<>> /\ u \in Code
        /\ \A r \in Callers \ {th} : stack'[r] = stack[r]
    BY DEF Poll, BInv, TInv, TypeOK, Code
  <1> HIDE DEF s
  <1>2. t \in Seq(Code) /\ Len(t) = Len(s) + 1 /\ t[Len(t)] = u /\ t # <<>>
    BY <1>1
  <1>3. Last(t) = u
    BY <1>2, FramesLemma
  <1>4. t[1] = s[1]
    BY <1>1
  <1>5. ToSet(t) = ToSet(s) \cup {u}
    BY <1>1, AppendLemma
  <1> QED
    BY <1>1, <1>2, <1>3, <1>4, <1>5 DEF s

(* A poll ends: the stacks afterwards.                                     *)
LEMMA ReturnFacts ==
  ASSUME BInv, NEW th \in Callers, stack[th] # <<>>, Return(th)
  PROVE  /\ ToSet(stack[th]) = {Last(stack[th])} \cup ToSet(stack'[th])
         /\ Last(stack[th]) \notin ToSet(stack'[th])
         /\ \A t \in Callers \ {th} : stack'[t] = stack[t]
  <1>1. /\ stack'[th] = Front(stack[th])
        /\ \A t \in Callers \ {th} : stack'[t] = stack[t]
    BY DEF Return, BInv, TInv, TypeOK
  <1>2. stack[th] \in Seq(Code) /\ IsInjective(stack[th])
    BY DEF BInv, TInv, TypeOK, Books, NoTaskTwice
  <1> QED
    BY <1>1, <1>2, FrontLemma

(* The bottom of a stack is its top only if it is alone.                   *)
LEMMA ReturnBottom ==
  ASSUME BInv, NEW th \in Callers, stack[th] # <<>>, Return(th)
  PROVE  IF Head(stack[th]) = Last(stack[th])
           THEN stack'[th] = <<>>
           ELSE stack'[th] # <<>> /\ Head(stack'[th]) = Head(stack[th])
  <1> DEFINE s == stack[th]
             t == Front(s)
  <1>1. stack'[th] = t /\ s \in Seq(Code) /\ s # <<>> /\ IsInjective(s)
    BY DEF Return, BInv, TInv, TypeOK, Books, NoTaskTwice
  <1> HIDE DEF s
  <1>2. /\ t \in Seq(Code) /\ Len(t) = Len(s) - 1 /\ Len(s) \in Nat /\ Len(s) > 0
        /\ \A i \in 1 .. Len(s) - 1 : t[i] = s[i]
        /\ Last(s) = s[Len(s)]
    BY <1>1, FramesLemma
  <1>3. Head(s) = s[1]
    BY <1>1
  <1> HIDE DEF t
  <1>4. CASE Len(s) = 1
    <2>1. t = <<>> /\ Head(s) = Last(s)
      BY <1>2, <1>3, <1>4
    <2> QED
      BY <1>1, <2>1 DEF s
  <1>5. CASE Len(s) # 1
    <2>1. 1 \in 1 .. Len(s) - 1 /\ 1 \in 1 .. Len(s) /\ Len(s) \in 1 .. Len(s)
      BY <1>2, <1>5
    <2>2. t[1] = s[1] /\ s[1] # s[Len(s)]
      BY <1>1, <1>2, <1>5, <2>1, DistinctLemma
    <2>3. t # <<>>
      BY <1>2, <1>5
    <2>4. Head(t) = t[1]
      BY <1>2, <2>3
    <2> QED
      BY <1>1, <1>2, <1>3, <2>2, <2>3, <2>4 DEF s
  <1> QED
    BY <1>4, <1>5

(* No piece of code is polled by two threads, and what is polled by one is *)
(* on top of its stack or in block_on.                                     *)
LEMMA Alone ==
  ASSUME BInv, CallersHome, NEW x \in Code, NEW s \in Callers, NEW t \in Callers,
         Polled(s, x), Polled(t, x)
  PROVE  s = t
  BY DEF CallersHome, Code, BInv, Books, NoTaskTwice

(* The code that runs is on top of one stack, and on no other.             *)
LEMMA TopFacts ==
  ASSUME CInv, NEW th \in Callers, NEW c \in Code, Running(th, c)
  PROVE  /\ stack[th] # <<>> /\ c = Last(stack[th]) /\ Polled(th, c)
         /\ \A t \in Callers : Polled(t, c) => t = th
         /\ c \in Tasks => InFlight(c)
         /\ c \in Callers => c = th
  <1>1. stack[th] # <<>> /\ c = Last(stack[th]) /\ Polled(th, c)
    BY RunningIsPolled DEF CInv, Running
  <1> QED
    BY <1>1, RunningIsPolled, Alone DEF CInv, StackInv, CallersHome

(* A user's thread waits under the tasks that it polls.                    *)
LEMMA HostIsPolled ==
  ASSUME CInv, NEW th \in Callers, stack[th] # <<>>
  PROVE  Polled(th, th) /\ Head(stack[th]) = th
  <1>1. stack[th] \in Seq(Code) /\ Head(stack[th]) = th
    BY DEF CInv, BInv, TInv, TypeOK, StackInv, CallersHome
  <1>2. stack[th][1] = th /\ 1 \in 1 .. Len(stack[th])
    BY <1>1
  <1> QED
    BY <1>1, <1>2, ElementsLemma DEF Polled

(* The mode of what lies under another poll, and of a thread that is done, *)
(* does not change while the code that runs changes its own.               *)
LEMMA TopChanges ==
  ASSUME CInv, NEW th \in Callers, NEW c \in Code, Running(th, c),
         \A x \in Code \ {c} :
           mode'[x] = mode[x] \/ (x \in Tasks /\ mode[x] # "blocked"),
         UNCHANGED stack
  PROVE  StackInv'
  <1>1. \A t \in Callers, x \in Code :
          Polled(t, x) /\ x # Last(stack[t]) => x # c
    BY TopFacts
  <1>2. BlockedBelow'
    BY <1>1 DEF CInv, StackInv, BlockedBelow, Polled
  <1>3. \A t \in Callers : mode'[t] # "done" => stack[t] # <<>>
    BY TopFacts, SimpleAssumption DEF CInv, StackInv, CallersHome, Code
  <1>4. CallersHome'
    BY <1>3 DEF CInv, StackInv, CallersHome, Polled
  <1> QED
    BY <1>2, <1>4 DEF StackInv

(* A poll begins.                                                          *)
LEMMA PollStack ==
  ASSUME CInv, NEW th \in Callers, NEW u \in Tasks, Polls(th, u)
  PROVE  StackInv'
  <1>1. /\ ToSet(stack'[th]) = ToSet(stack[th]) \cup {u}
        /\ Last(stack'[th]) = u /\ stack'[th] # <<>>
        /\ Head(stack'[th]) = Head(stack[th])
        /\ \A t \in Callers \ {th} : stack'[t] = stack[t]
    BY PollFacts DEF CInv, Polls
  <1>2. u \notin Callers
    BY SimpleAssumption
  <1>3. CallersHome'
    <2>1. \A t \in Callers : stack'[t] # <<>> => Head(stack'[t]) = t
      BY <1>1 DEF CInv, StackInv, CallersHome, Polls
    <2>2. \A t, c \in Callers : Polled(t, c)' => t = c
      BY <1>1, <1>2 DEF CInv, StackInv, CallersHome, Polled
    <2>3. \A t \in Callers : mode'[t] # "done" => stack'[t] # <<>>
      BY <1>1 DEF CInv, StackInv, CallersHome, Polls
    <2> QED
      BY <2>1, <2>2, <2>3 DEF CallersHome
  <1>4. BlockedBelow'
    <2>1. \A x \in Code : Polled(th, x) => mode[x] = "blocked"
      BY DEF CInv, StackInv, BlockedBelow, Polls
    <2> QED
      BY <1>1, <2>1 DEF CInv, StackInv, BlockedBelow, Polls, Polled
  <1> QED
    BY <1>3, <1>4 DEF StackInv

(* A poll ends, whatever becomes of its task, or a thread is done.         *)
LEMMA ReturnStack ==
  ASSUME CInv, NEW th \in Callers, NEW c \in Code, Running(th, c), Return(th),
         \A x \in Code : x # c => mode'[x] = mode[x],
         c \in Callers => mode'[c] = "done"
  PROVE  StackInv'
  <1>0. stack[th] # <<>> /\ c = Last(stack[th]) /\ (c \in Callers => c = th)
    BY TopFacts
  <1>1. /\ ToSet(stack[th]) = {c} \cup ToSet(stack'[th])
        /\ c \notin ToSet(stack'[th])
        /\ \A t \in Callers \ {th} : stack'[t] = stack[t]
    BY <1>0, ReturnFacts DEF CInv
  <1>2. Polled(th, c) /\ \A t \in Callers : Polled(t, c) => t = th
    BY TopFacts
  <1>3. IF th = c THEN stack'[th] = <<>>
                  ELSE stack'[th] # <<>> /\ Head(stack'[th]) = th
    BY <1>0, ReturnBottom, HostIsPolled DEF CInv
  <1>4. CallersHome'
    <2>1. \A t \in Callers : stack'[t] # <<>> => Head(stack'[t]) = t
      BY <1>1, <1>3 DEF CInv, StackInv, CallersHome
    <2>2. \A t, x \in Callers : Polled(t, x)' => t = x
      BY <1>1 DEF CInv, StackInv, CallersHome, Polled
    <2>3. \A t \in Callers : mode'[t] # "done" => stack'[t] # <<>>
      BY <1>0, <1>1, <1>3 DEF CInv, StackInv, CallersHome, Code
    <2> QED
      BY <2>1, <2>2, <2>3 DEF CallersHome
  <1>5. BlockedBelow'
    <2>1. \A t \in Callers, x \in Code : Polled(t, x)' => Polled(t, x) /\ x # c
      BY <1>1, <1>2 DEF Polled
    <2>2. \A x \in Code : Polled(th, x)' => mode[x] = "blocked"
      BY <1>0, <1>1, <2>1 DEF CInv, StackInv, BlockedBelow, Polled
    <2> QED
      BY <1>1, <2>1, <2>2 DEF CInv, StackInv, BlockedBelow
  <1> QED
    BY <1>4, <1>5 DEF StackInv

(* A task that waits in the queue is not in block_on.                      *)
LEMMA EndsOnly ==
  ASSUME CInv, NEW th \in Callers, NEW c \in Code, NEW S, Ends(th, c, S)
  PROVE  /\ S \subseteq Tasks
         /\ \A u \in S : /\ InFlight(u) /\ mode[u] = "code"
                         /\ chan[u] = "open"
                         /\ \A t \in Callers : ~Polled(t, u)
  <1>1. S \subseteq ToSet(queue) /\ queue \in Seq(Tasks)
    BY DEF Ends, CInv, BInv, TInv, TypeOK
  <1>2. S \subseteq Tasks /\ \A u \in S : Queued(u)
    BY <1>1, MembersLemma DEF Queued
  <1>3. \A u \in S : InFlight(u) /\ \A t \in Callers : ~Polled(t, u)
    BY <1>2 DEF CInv, BInv, Books, NoTaskTwice, NothingMislaid
  <1>4. \A u \in S : mode[u] = "code"
    BY <1>2, <1>3 DEF CInv, BInv, TInv, TypeOK, Modes, InFlight, LifeInv,
                      QueuedInCode, Code
  <1>5. \A u \in S : chan[u] = "open"
    BY <1>2, <1>3, <1>4 DEF CInv, BInv, TInv, TypeOK, ChannelStates, InFlight,
                            LifeInv, ChannelsFollow
  <1> QED
    BY <1>2, <1>3, <1>4, <1>5

(* The stacks stay in order.                                               *)
LEMMA NextStack ==
  ASSUME CInv, Kinds
  PROVE  StackInv'
  <1>0. mode \in [Code -> Modes]
    BY DEF CInv, BInv, TInv, TypeOK
  <1>1. CASE Quiet
    BY <1>1 DEF Quiet, CInv, StackInv, CallersHome, BlockedBelow, Polled
  <1>2. ASSUME NEW th \in Callers, NEW c \in Code, NEW u \in Tasks, Spawns(th, c, u)
        PROVE  StackInv'
    <2>1. \A x \in Code \ {c} : mode'[x] = mode[x]
      BY <1>0, <1>2 DEF Spawns
    <2> QED
      BY <1>2, <2>1, TopChanges DEF Spawns
  <1>3. ASSUME NEW th \in Callers, NEW c \in Code, NEW u \in Tasks, Rejects(th, c, u)
        PROVE  StackInv'
    <2>1. \A x \in Code \ {c, u} : mode'[x] = mode[x]
      BY <1>0, <1>3 DEF Rejects
    <2>2. mode[u] = "code"
      BY <1>3 DEF Rejects, CInv, BInv, Fresh
    <2> QED
      BY <1>3, <2>1, <2>2, TopChanges DEF Rejects
  <1>4. ASSUME NEW th \in Callers, NEW c \in Code,
               Waits(th, c) \/ Sends(th, c) \/ \E v : Takes(th, c, v)
        PROVE  StackInv'
    <2>1. /\ Running(th, c) /\ UNCHANGED stack
          /\ \A x \in Code \ {c} : mode'[x] = mode[x]
      BY <1>0, <1>4 DEF Waits, Sends, Takes
    <2> QED
      BY <2>1, TopChanges
  <1>5. ASSUME NEW th \in Callers, NEW c \in Code, NEW S, Ends(th, c, S)
        PROVE  StackInv'
    <2>1. /\ Running(th, c) /\ UNCHANGED stack
          /\ \A x \in Code \ {c} : mode'[x] = IF x \in S THEN "dropped" ELSE mode[x]
      BY <1>5 DEF Ends
    <2> QED
      BY <1>5, <2>1, EndsOnly, TopChanges
  <1>6. ASSUME NEW th \in Callers, NEW c \in Code, NEW m \in Modes,
               Returns(th, c, m) \/ Overflows(th, c)
        PROVE  StackInv'
    <2>1. /\ Running(th, c) /\ Return(th)
          /\ \A x \in Code : x # c => mode'[x] = mode[x]
          /\ c \in Callers => mode'[c] = "done"
      BY <1>0, <1>6, SimpleAssumption DEF Returns, Overflows
    <2> QED
      BY <2>1, ReturnStack
  <1> QED
    BY <1>0, <1>1, <1>2, <1>3, <1>4, <1>5, <1>6, PollStack DEF Kinds, Modes

-----------------------------------------------------------------------------
(* Channels, modes and the places of tasks.                                *)

(* What the invariant says of the code that runs.                          *)
LEMMA RunningLife ==
  ASSUME CInv, NEW th \in Callers, NEW c \in Code, Running(th, c)
  PROVE  /\ c \in Tasks => chan[c] # "none"
         /\ c \in Tasks /\ mode[c] # "ready" => chan[c] = "open"
         /\ mode[c] \in {"code", "blocked", "pending"} /\ Captures(script[c])
              => c \in owners
  <1>1. c \in Tasks => InFlight(c) /\ chan[c] \in ChannelStates
    BY TopFacts DEF CInv, BInv, TInv, TypeOK
  <1> QED
    BY <1>1 DEF CInv, LifeInv, ChannelsFollow, InFlight, ChannelStates,
                OwnInv, CallersOwn

(* The code that runs goes to another mode, and tasks of the queue may go. *)
LEMMA TopKeepsLife ==
  ASSUME CInv, NEW th \in Callers, NEW c \in Code, Running(th, c),
         \A u \in Tasks \ {c} : mode'[u] = mode[u] \/ mode'[u] = "dropped",
         UNCHANGED stack
  PROVE  QueuedInCode'
  <1>1. Polled(th, c)'
    BY TopFacts DEF Polled
  <1> QED
    BY <1>1 DEF CInv, LifeInv, QueuedInCode, Polled

(* Channels follow modes, and a task in the queue is in its code.          *)
LEMMA NextLife ==
  ASSUME CInv, Kinds
  PROVE  LifeInv'
  <1> USE DEF Code
  <1>0. mode \in [Code -> Modes] /\ chan \in [Tasks -> ChannelStates]
    BY DEF CInv, BInv, TInv, TypeOK
  <1>1. CASE Quiet
    BY <1>1 DEF Quiet, CInv, LifeInv, ChannelsFollow, QueuedInCode, Polled
  <1>2. ASSUME NEW th \in Callers, NEW c \in Code, NEW u \in Tasks, Spawns(th, c, u)
        PROVE  LifeInv'
    <2>1. /\ \A v \in Tasks : chan'[v] = IF v = u THEN "open" ELSE chan[v]
          /\ chan[u] = "none" /\ mode[u] = "code" /\ mode[c] = "code"
      BY <1>0, <1>2 DEF Spawns, CInv, BInv, Fresh
    <2>2. c \in Tasks => chan[c] = "open"
      BY <1>2, <2>1, RunningLife DEF Spawns
    <2>3. \A v \in Tasks : mode'[v] = mode[v] \/ (v = c /\ mode'[v] = "blocked")
      BY <1>0, <1>2 DEF Spawns
    <2>4. ChannelsFollow'
      BY <2>1, <2>2, <2>3 DEF CInv, LifeInv, ChannelsFollow
    <2>5. QueuedInCode'
      BY <1>2, <2>3, TopKeepsLife DEF Spawns
    <2> QED
      BY <2>4, <2>5 DEF LifeInv
  <1>3. ASSUME NEW th \in Callers, NEW c \in Code, NEW u \in Tasks, Rejects(th, c, u)
        PROVE  LifeInv'
    <2>1. /\ \A v \in Tasks : chan'[v] = IF v = u THEN "closed" ELSE chan[v]
          /\ chan[u] = "none" /\ mode[c] = "code"
      BY <1>0, <1>3 DEF Rejects
    <2>2. c \in Tasks => chan[c] = "open"
      BY <1>3, <2>1, RunningLife DEF Rejects
    <2>3. c # u
      BY <2>1, <2>2
    <2>4. /\ mode'[u] = "dropped"
          /\ \A v \in Tasks \ {u} : mode'[v] = mode[v] \/ (v = c /\ mode'[v] = "blocked")
      BY <1>0, <1>3, <2>3 DEF Rejects
    <2>5. ChannelsFollow'
      BY <2>1, <2>2, <2>4 DEF CInv, LifeInv, ChannelsFollow
    <2>6. QueuedInCode'
      BY <1>3, <2>4, TopKeepsLife DEF Rejects
    <2> QED
      BY <2>5, <2>6 DEF LifeInv
  <1>4. ASSUME NEW th \in Callers, NEW c \in Code, Waits(th, c)
        PROVE  LifeInv'
    <2>1. \A v \in Tasks : mode'[v] = IF v = c THEN "pending" ELSE mode[v]
      BY <1>0, <1>4 DEF Waits
    <2>2. chan[c] = "open"
      BY <1>4, RunningLife DEF Waits
    <2>3. ChannelsFollow'
      BY <1>4, <2>1, <2>2 DEF Waits, CInv, LifeInv, ChannelsFollow
    <2>4. QueuedInCode'
      BY <1>4, <2>1, TopKeepsLife DEF Waits
    <2> QED
      BY <2>3, <2>4 DEF LifeInv
  <1>5. ASSUME NEW th \in Callers, NEW c \in Code, NEW S, Ends(th, c, S)
        PROVE  LifeInv'
    <2>1. \A v \in Tasks : /\ chan'[v] = IF v \in S THEN "closed" ELSE chan[v]
                           /\ v # c => mode'[v] = IF v \in S THEN "dropped" ELSE mode[v]
      BY <1>5 DEF Ends, Destroyed
    <2>2. /\ c \in Tasks => chan[c] = "open" /\ mode'[c] = "finished"
          /\ c \notin S
      <3>1. c \notin S
        BY <1>5, EndsOnly, TopFacts DEF Ends
      <3> QED
        BY <1>5, <3>1, RunningLife DEF Ends
    <2>3. ChannelsFollow'
      BY <2>1, <2>2 DEF CInv, LifeInv, ChannelsFollow
    <2>4. QueuedInCode'
      BY <1>5, <2>1, TopKeepsLife DEF Ends
    <2> QED
      BY <2>3, <2>4 DEF LifeInv
  <1>6. ASSUME NEW th \in Callers, NEW c \in Code, NEW v, Takes(th, c, v)
        PROVE  LifeInv'
    <2>1. \A x \in Tasks : mode'[x] = IF x = c THEN "code" ELSE mode[x]
      BY <1>0, <1>6 DEF Takes
    <2>2. /\ \A x \in Tasks : chan'[x] = IF x = v THEN "received" ELSE chan[x]
          /\ v \in Tasks => chan[v] = "value"
      BY <1>0, <1>6 DEF Takes
    <2>3. c \in Tasks => chan[c] = "open"
      BY <1>6, RunningLife DEF Takes
    <2>4. ChannelsFollow'
      BY <2>1, <2>2, <2>3 DEF CInv, LifeInv, ChannelsFollow
    <2>5. QueuedInCode'
      BY <1>6, <2>1, TopKeepsLife DEF Takes
    <2> QED
      BY <2>4, <2>5 DEF LifeInv
  <1>7. ASSUME NEW th \in Callers, NEW c \in Code, Sends(th, c)
        PROVE  LifeInv'
    <2>1. \A x \in Tasks : /\ mode'[x] = IF x = c THEN "ready" ELSE mode[x]
                           /\ chan'[x] = IF x = c THEN "value" ELSE chan[x]
      BY <1>0, <1>7 DEF Sends
    <2>2. ChannelsFollow'
      BY <2>1 DEF CInv, LifeInv, ChannelsFollow
    <2>3. QueuedInCode'
      BY <1>7, <2>1, TopKeepsLife DEF Sends
    <2> QED
      BY <2>2, <2>3 DEF LifeInv
  <1>8. ASSUME NEW th \in Callers, NEW u \in Tasks, Polls(th, u)
        PROVE  LifeInv'
    <2>1. \A t \in Callers, x \in Tasks : Polled(t, x) => Polled(t, x)'
      BY <1>8, PollFacts DEF CInv, Polls, Polled
    <2> QED
      BY <1>8, <2>1 DEF Polls, CInv, LifeInv, ChannelsFollow, QueuedInCode
  <1>9. ASSUME NEW th \in Callers, NEW c \in Code, NEW m, Returns(th, c, m)
        PROVE  LifeInv'
    <2>1. \A x \in Tasks : mode'[x] = IF x = c THEN m ELSE mode[x]
      BY <1>0, <1>9 DEF Returns
    <2>2. \A x \in Tasks, t \in Callers : x # c /\ Polled(t, x) => Polled(t, x)'
      BY <1>9, TopFacts, ReturnFacts DEF Returns, CInv, Polled
    <2>3. ChannelsFollow'
      BY <1>9, <2>1 DEF Returns, CInv, LifeInv, ChannelsFollow
    <2>4. QueuedInCode'
      BY <1>9, <2>1, <2>2 DEF Returns, CInv, LifeInv, QueuedInCode
    <2> QED
      BY <2>3, <2>4 DEF LifeInv
  <1>10. ASSUME NEW th \in Callers, NEW c \in Code, Overflows(th, c)
         PROVE  LifeInv'
    <2>1. \A x \in Tasks : /\ mode'[x] = IF x = c THEN "dropped" ELSE mode[x]
                           /\ chan'[x] = IF x = c THEN "closed" ELSE chan[x]
      BY <1>0, <1>10 DEF Overflows
    <2>2. \A x \in Tasks, t \in Callers : x # c /\ Polled(t, x) => Polled(t, x)'
      BY <1>10, TopFacts, ReturnFacts DEF Overflows, CInv, Polled
    <2>3. ChannelsFollow'
      BY <2>1 DEF CInv, LifeInv, ChannelsFollow
    <2>4. QueuedInCode'
      BY <2>1, <2>2 DEF CInv, LifeInv, QueuedInCode
    <2> QED
      BY <2>3, <2>4 DEF LifeInv
  <1> QED
    BY <1>1, <1>2, <1>3, <1>4, <1>5, <1>6, <1>7, <1>8, <1>9, <1>10 DEF Kinds

-----------------------------------------------------------------------------
(* The clones of the Runtime.                                              *)

(* A thread that polls a task is in block_on, and holds a clone.           *)
LEMMA HostHolds ==
  ASSUME CInv, NEW th \in Callers, NEW c \in Tasks, Running(th, c)
  PROVE  th \in owners /\ th # c
  <1>1. th # c
    BY SimpleAssumption
  <1>2. c = Last(stack[th]) /\ Polled(th, th)
    BY TopFacts, HostIsPolled DEF Code
  <1>3. mode[th] = "blocked"
    BY <1>1, <1>2 DEF CInv, StackInv, BlockedBelow, Code
  <1>4. Captures(script[th])
    BY <1>3 DEF CInv, OwnInv, BlockedCapture, Code
  <1>5. th \notin Tasks
    BY SimpleAssumption
  <1> QED
    BY <1>1, <1>3, <1>4, <1>5 DEF CInv, OwnInv, CallersOwn, Code

(* Only code in flight holds a clone, and as long as there is one there is *)
(* the queue.                                                              *)
LEMMA NextOwners ==
  ASSUME CInv, Kinds, script' = script
  PROVE  BlockedCapture' /\ HoldersAlive' /\ QueueFalls'
  <1> DEFINE I == BlockedCapture /\ HoldersAlive /\ QueueFalls
  <1>0. /\ mode \in [Code -> Modes] /\ chan \in [Tasks -> ChannelStates]
        /\ owners \subseteq Code /\ I
    BY DEF CInv, BInv, TInv, TypeOK, OwnInv
  <1> SUFFICES I'
    OBVIOUS
  <1> USE DEF BlockedCapture, HoldersAlive, QueueFalls
  <1>1. CASE Quiet
    BY <1>0, <1>1 DEF Quiet
  <1>2. ASSUME NEW th \in Callers, NEW c \in Code, NEW u \in Tasks, Spawns(th, c, u)
        PROVE  I'
    <2>1. c \in owners
      BY <1>2, RunningLife DEF Spawns
    <2>2. /\ \A v \in Tasks : chan'[v] = IF v = u THEN "open" ELSE chan[v]
          /\ mode[u] = "code" /\ Captures(script[c]) /\ mode[c] = "code"
          /\ owners' = IF Captures(script[u]) THEN owners \cup {u} ELSE owners
      BY <1>0, <1>2 DEF Spawns, CInv, BInv, Fresh
    <2>3. \A x \in Code : mode'[x] = mode[x] \/ (x = c /\ mode'[x] = "blocked")
      BY <1>0, <1>2 DEF Spawns
    <2>4. BlockedCapture'
      BY <1>0, <2>2, <2>3
    <2>5. HoldersAlive'
      BY <1>0, <2>2, <2>3 DEF Code
    <2>6. QueueFalls'
      BY <2>1, <2>2
    <2> QED
      BY <2>4, <2>5, <2>6
  <1>3. ASSUME NEW th \in Callers, NEW c \in Code, NEW u \in Tasks, Rejects(th, c, u)
        PROVE  I'
    <2>1. c \in owners /\ u \notin owners /\ owners' = owners
      BY <1>0, <1>3, RunningLife DEF Rejects
    <2>2. /\ \A v \in Tasks : v # u => chan'[v] = chan[v]
          /\ Captures(script[c]) /\ mode[c] = "code"
      BY <1>0, <1>3 DEF Rejects
    <2>3. /\ c # u
          /\ \A x \in Code \ {u} : mode'[x] = mode[x] \/ (x = c /\ mode'[x] = "blocked")
          /\ mode'[u] = "dropped"
      BY <1>0, <1>3, <2>1 DEF Rejects, Code
    <2>4. BlockedCapture'
      BY <1>0, <2>2, <2>3
    <2>5. HoldersAlive'
      BY <1>0, <2>1, <2>2, <2>3
    <2>6. QueueFalls'
      BY <2>1
    <2> QED
      BY <2>4, <2>5, <2>6
  <1>4. ASSUME NEW th \in Callers, NEW c \in Code, Waits(th, c)
        PROVE  I'
    <2>1. \A x \in Code : mode'[x] = mode[x] \/ mode'[x] = "pending"
      BY <1>0, <1>4 DEF Waits
    <2> QED
      BY <1>0, <1>4, <2>1 DEF Waits
  <1>5. ASSUME NEW th \in Callers, NEW c \in Code, NEW S, Ends(th, c, S)
        PROVE  I'
    <2>1. /\ owners' = owners \ {c} /\ mode'[c] # "blocked"
          /\ \A x \in Code \ {c} : mode'[x] = IF x \in S THEN "dropped" ELSE mode[x]
          /\ \A v \in Tasks : chan'[v] = IF v \in S THEN "closed" ELSE chan[v]
          /\ queue' = IF owners = {c} THEN <<>> ELSE queue
          /\ owners # {c} => S = {}
      BY <1>5 DEF Ends, Destroyed
    <2>2. BlockedCapture'
      BY <1>0, <2>1
    <2>3. HoldersAlive'
      BY <1>0, <2>1
    <2>4. QueueFalls'
      BY <1>0, <2>1
    <2> QED
      BY <2>2, <2>3, <2>4
  <1>6. ASSUME NEW th \in Callers, NEW c \in Code, NEW v, Takes(th, c, v)
        PROVE  I'
    <2>1. /\ \A x \in Code : mode'[x] = mode[x] \/ mode'[x] = "code"
          /\ \A x \in Tasks : chan'[x] = chan[x] \/ chan'[x] = "received"
          /\ UNCHANGED <<queue, owners>>
      BY <1>0, <1>6 DEF Takes
    <2> QED
      BY <1>0, <2>1
  <1>7. ASSUME NEW th \in Callers, NEW c \in Code, Sends(th, c)
        PROVE  I'
    <2>1. /\ c \notin owners
          /\ \A x \in Code \ {c} : mode'[x] = mode[x]
          /\ \A x \in Tasks \ {c} : chan'[x] = chan[x]
          /\ mode'[c] = "ready" /\ UNCHANGED <<queue, owners>>
      BY <1>0, <1>7 DEF Sends
    <2> QED
      BY <1>0, <2>1
  <1>8. ASSUME NEW th \in Callers, NEW u \in Tasks, Polls(th, u)
        PROVE  I'
    BY <1>0, <1>8 DEF Polls
  <1>9. ASSUME NEW th \in Callers, NEW c \in Code, NEW m, Returns(th, c, m)
        PROVE  I'
    <2>1. /\ mode[c] = "ready" => c \notin owners /\ queue' = queue
          /\ mode[c] # "ready" => owners # {} /\ m = "code"
      BY <1>0, <1>9, HostHolds DEF Returns
    <2>2. /\ \A x \in Code \ {c} : mode'[x] = mode[x]
          /\ mode'[c] = m /\ m \in {"done", "code"} /\ UNCHANGED <<chan, owners>>
      BY <1>0, <1>9 DEF Returns
    <2> QED
      BY <1>0, <2>1, <2>2
  <1>10. ASSUME NEW th \in Callers, NEW c \in Code, Overflows(th, c)
         PROVE  I'
    <2>1. th \in owners' /\ owners' = owners \ {c}
      BY <1>10, HostHolds DEF Overflows
    <2>2. /\ \A x \in Code \ {c} : mode'[x] = mode[x]
          /\ \A x \in Tasks \ {c} : chan'[x] = chan[x]
          /\ mode'[c] = "dropped"
      BY <1>0, <1>10 DEF Overflows
    <2> QED
      BY <1>0, <2>1, <2>2
  <1> QED
    BY <1>1, <1>2, <1>3, <1>4, <1>5, <1>6, <1>7, <1>8, <1>9, <1>10 DEF Kinds

-----------------------------------------------------------------------------
(* The end.                                                                *)

(* At the start every thread is in its own code and holds a clone.         *)
LEMMA InitClones ==
  ASSUME Init
  PROVE  CInv
  <1>1. BInv
    BY InitBooks
  <1>2. BornOfCode /\ CallersOwn /\ BlockedCapture /\ QueueFalls
    BY DEF Init, BornOfCode, CallersOwn, BlockedCapture, QueueFalls, Code
  <1>3. HoldersAlive
    BY SimpleAssumption DEF Init, HoldersAlive, Code
  <1>4. LifeInv
    BY DEF Init, LifeInv, ChannelsFollow, QueuedInCode, Code
  <1>5. \A th \in Callers : /\ stack[th] # <<>> /\ Head(stack[th]) = th
                            /\ Last(stack[th]) = th /\ ToSet(stack[th]) = {th}
    <2> SUFFICES ASSUME NEW th \in Callers
                 PROVE  /\ stack[th] # <<>> /\ Head(stack[th]) = th
                        /\ Last(stack[th]) = th /\ ToSet(stack[th]) = {th}
      OBVIOUS
    <2>1. stack[th] = <<th>>
      BY DEF Init
    <2>2. <<th>> # <<>> /\ Head(<<th>>) = th
      OBVIOUS
    <2>3. Last(<<th>>) = th
      BY DEF Last
    <2>4. ToSet(<<th>>) = {th}
      BY SingletonLemma
    <2> QED
      BY <2>1, <2>2, <2>3, <2>4
  <1>6. CallersHome
    <2>1. \A th, c \in Callers : Polled(th, c) => th = c
      BY <1>5 DEF Polled
    <2> QED
      BY <1>5, <2>1, Zenon DEF CallersHome
  <1>7. StackInv
    BY <1>5, <1>6 DEF StackInv, BlockedBelow, Polled
  <1> QED
    BY <1>1, <1>2, <1>3, <1>4, <1>7 DEF CInv, OwnInv

(* The invariant is inductive.                                             *)
LEMMA NextClones ==
  ASSUME CInv, [Next]_vars
  PROVE  CInv'
  <1>1. BInv' /\ Kinds /\ script' = script
    BY NextBooks, NextKind DEF CInv
  <1>2. BornOfCode' /\ CallersOwn'
    <2>1. CASE UNCHANGED vars
      BY <2>1
         DEF CInv, OwnInv, BornOfCode, CallersOwn, SpawnedByCode, vars,
             userVars
    <2> QED
      BY <2>1, BornOfCodeStep, CallersOwnStep DEF Next, CInv, OwnInv
  <1> QED
    BY <1>1, <1>2, NextStack, NextLife, NextOwners DEF CInv, OwnInv

(***************************************************************************)
(* When every user thread is through, a task that is left over waits in a  *)
(* queue with a task that holds the Runtime: only such a cycle leaks.      *)
(***************************************************************************)
THEOREM LeaksAreCycles == Spec => []LeftoversNeedCycle
  <1>1. Init => CInv
    BY InitClones
  <1>2. CInv /\ [Next]_vars => CInv'
    BY NextClones
  <1>3. CInv => LeftoversNeedCycle
    <2> SUFFICES ASSUME CInv, Ended, NEW u \in Tasks, InFlight(u)
                 PROVE  \E v \in ToSet(queue) : Captures(script[v])
      BY DEF LeftoversNeedCycle
    <2>1. \A th \in Callers : \A x : ~Polled(th, x)
      BY EmptyLemma DEF Ended, Polled
    <2>2. Queued(u)
      BY <2>1 DEF CInv, BInv, Books, NothingMislaid
    <2>3. queue # <<>>
      BY <2>2, EmptyLemma DEF Queued
    <2>4. PICK c \in owners : TRUE
      BY <2>3 DEF CInv, OwnInv, QueueFalls
    <2>5. /\ mode[c] \in {"code", "blocked", "pending"} /\ c \in Code
          /\ c \in Tasks => chan[c] # "none" /\ Captures(script[c])
      BY DEF CInv, BInv, TInv, TypeOK, OwnInv, HoldersAlive
    <2>6. c \in Tasks
      BY <2>5 DEF CInv, StackInv, CallersHome, Ended, Code
    <2>7. Queued(c)
      BY <2>1, <2>5, <2>6 DEF CInv, BInv, Books, NothingMislaid, InFlight
    <2> QED
      BY <2>5, <2>6, <2>7 DEF Queued
  <1> QED
    BY <1>1, <1>2, <1>3, PTL DEF Spec

-----------------------------------------------------------------------------
(* The contract: every kind of step is one of its steps, or none.          *)

(* Where a task stands: the arms of statusBar exclude each other.          *)
LEMMA Standing ==
  ASSUME BInv
  PROVE  \A u \in Tasks :
           /\ chan[u] = "none" => statusBar[u] = "unborn"
           /\ mode[u] = "done" => statusBar[u] = "done"
           /\ mode[u] = "dropped" => statusBar[u] = "lost"
           /\ (\E th \in Callers : Polled(th, u)) => statusBar[u] = "running"
           /\ InFlight(u) /\ (\A th \in Callers : ~Polled(th, u))
                => statusBar[u] = "queued"
  <1> SUFFICES ASSUME NEW u \in Tasks
               PROVE  /\ chan[u] = "none" => statusBar[u] = "unborn"
                      /\ mode[u] = "done" => statusBar[u] = "done"
                      /\ mode[u] = "dropped" => statusBar[u] = "lost"
                      /\ (\E th \in Callers : Polled(th, u)) => statusBar[u] = "running"
                      /\ InFlight(u) /\ (\A th \in Callers : ~Polled(th, u))
                           => statusBar[u] = "queued"
    OBVIOUS
  <1>1. /\ (\E th \in Callers : Polled(th, u)) => InFlight(u)
        /\ chan[u] = "none" => mode[u] = "code"
    BY DEF BInv, Books, NothingMislaid, Fresh
  <1> QED
    BY <1>1 DEF statusBar, InFlight

(* And after a step.                                                       *)
LEMMA StandingNext ==
  ASSUME BInv'
  PROVE  \A u \in Tasks :
           /\ chan'[u] = "none" => statusBar'[u] = "unborn"
           /\ mode'[u] = "done" => statusBar'[u] = "done"
           /\ mode'[u] = "dropped" => statusBar'[u] = "lost"
           /\ (\E th \in Callers : Polled(th, u)') => statusBar'[u] = "running"
           /\ InFlight(u)' /\ (\A th \in Callers : ~Polled(th, u)')
                => statusBar'[u] = "queued"
  <1> SUFFICES ASSUME NEW u \in Tasks
               PROVE  /\ chan'[u] = "none" => statusBar'[u] = "unborn"
                      /\ mode'[u] = "done" => statusBar'[u] = "done"
                      /\ mode'[u] = "dropped" => statusBar'[u] = "lost"
                      /\ (\E th \in Callers : Polled(th, u)') => statusBar'[u] = "running"
                      /\ InFlight(u)' /\ (\A th \in Callers : ~Polled(th, u)')
                           => statusBar'[u] = "queued"
    OBVIOUS
  <1>1. /\ (\E th \in Callers : Polled(th, u)') => InFlight(u)'
        /\ chan'[u] = "none" => mode'[u] = "code"
    BY DEF BInv, Books, NothingMislaid, Fresh
  <1> QED
    BY <1>1 DEF statusBar, InFlight

(* A task stays where it stands if its channel is in use as before, its    *)
(* mode is no other end, and it is polled as before.                       *)
LEMMA SameStanding ==
  ASSUME NEW u \in Tasks,
         chan'[u] = "none" <=> chan[u] = "none",
         mode'[u] = "done" <=> mode[u] = "done",
         mode'[u] = "dropped" <=> mode[u] = "dropped",
         \A th \in Callers : Polled(th, u)' <=> Polled(th, u)
  PROVE  statusBar'[u] = statusBar[u]
  BY DEF statusBar

(* Two mappings that agree on every task are equal.                        *)
LEMMA SameStatus ==
  ASSUME \A u \in Tasks : statusBar'[u] = statusBar[u]
  PROVE  statusBar' = statusBar
  <1>1. statusBar = [u \in Tasks |-> statusBar[u]]
    BY DEF statusBar
  <1>2. statusBar' = [u \in Tasks |-> statusBar'[u]]
    BY DEF statusBar
  <1> QED
    BY <1>1, <1>2

(* One task changes its status in the contract.                            *)
LEMMA StatusMoves ==
  ASSUME NEW c \in Tasks, \A u \in Tasks \ {c} : statusBar'[u] = statusBar[u]
  PROVE  statusBar' = [statusBar EXCEPT ![c] = statusBar'[c]]
  <1>1. statusBar = [u \in Tasks |-> statusBar[u]]
    BY DEF statusBar
  <1>2. statusBar' = [u \in Tasks |-> statusBar'[u]]
    BY DEF statusBar
  <1> QED
    BY <1>1, <1>2

(* A result stays where it is while its channel is neither filled nor      *)
(* emptied.                                                                *)
LEMMA SameResult ==
  ASSUME \A u \in Tasks : /\ chan'[u] = "value" <=> chan[u] = "value"
                          /\ chan'[u] = "received" <=> chan[u] = "received"
  PROVE  resultBar' = resultBar
  BY DEF resultBar

(* One channel changes its state in the contract.                          *)
LEMMA ResultMoves ==
  ASSUME NEW c \in Tasks, chan \in [Tasks -> ChannelStates],
         NEW s \in {"value", "received"}, chan' = [chan EXCEPT ![c] = s]
  PROVE  resultBar' = [resultBar EXCEPT ![c] = IF s = "value" THEN "ready" ELSE "taken"]
  <1>1. \A u \in Tasks : chan'[u] = IF u = c THEN s ELSE chan[u]
    OBVIOUS
  <1> QED
    BY <1>1 DEF resultBar

(* Faults: the runtime is gone, or a queue without room for all has lost a *)
(* task.                                                                   *)
LEMMA FaultSame ==
  ASSUME script' = script, owners' = {} <=> owners = {},
         \A u \in Tasks : chan'[u] = "closed" <=> chan[u] = "closed"
  PROVE  faultedBar' = faultedBar
  <1>1. HasRoomForAll' = HasRoomForAll
    BY DEF HasRoomForAll, SpawnedByCode
  <1> QED
    BY <1>1 DEF faultedBar

(* Only a queue without room for all rejects a task, or fails to take one  *)
(* back.                                                                   *)
LEMMA LossIsFault ==
  ASSUME IsFiniteSet(Tasks), CInv, script' = script, IsFull,
         NEW u \in SpawnedByCode, ~Queued(u), chan'[u] = "closed"
  PROVE  faultedBar' = TRUE
  <1>1. ~HasRoomForAll
    BY SlotForTask DEF CInv
  <1>2. ~HasRoomForAll' /\ u \in Tasks
    BY <1>1 DEF HasRoomForAll, SpawnedByCode
  <1> QED
    BY <1>2 DEF faultedBar

(* The tasks S are lost, and every other task stands where it stood.       *)
LEMMA Loses ==
  ASSUME BInv', NEW S, S \subseteq Tasks,
         \A u \in S : /\ statusBar[u] \in {"unborn", "queued", "running"}
                      /\ chan[u] \in {"none", "open"}
                      /\ chan'[u] = "closed" /\ mode'[u] = "dropped",
         \A u \in Tasks \ S :
           statusBar'[u] = statusBar[u] /\ chan'[u] = chan[u],
         faultedBar' = TRUE
  PROVE  Contract!Next
  <1>1. \A u \in S : statusBar'[u] = "lost"
    BY StandingNext
  <1>2. statusBar' = [u \in Tasks |-> IF u \in S THEN "lost" ELSE statusBar[u]]
    <2>1. statusBar' = [u \in Tasks |-> statusBar'[u]]
      BY DEF statusBar
    <2> QED
      BY <1>1, <2>1
  <1>3. resultBar' = resultBar
    <2>1. \A u \in Tasks : /\ chan'[u] = "value" <=> chan[u] = "value"
                           /\ chan'[u] = "received" <=> chan[u] = "received"
      <3> SUFFICES ASSUME NEW u \in Tasks
                   PROVE  /\ chan'[u] = "value" <=> chan[u] = "value"
                          /\ chan'[u] = "received" <=> chan[u] = "received"
        OBVIOUS
      <3> QED
        BY u \in S \/ u \notin S
    <2> QED
      BY <2>1, SameResult
  <1>4. \A u \in S : resultBar[u] = "none"
    BY DEF resultBar
  <1>5. Contract!Lose(S)
    BY <1>2, <1>3, <1>4 DEF Contract!Lose
  <1> QED
    BY <1>5 DEF Contract!Next

(* No task moves, and no result: a step that the contract does not see,    *)
(* unless it is a fault.                                                   *)
LEMMA Unseen ==
  ASSUME faultedBar => faultedBar', statusBar' = statusBar, resultBar' = resultBar
  PROVE  [Contract!Next]_Contract!vars
  <1>1. faultedBar \in BOOLEAN /\ faultedBar' \in BOOLEAN
    BY DEF faultedBar
  <1>2. CASE faultedBar' = faultedBar
    BY <1>2 DEF Contract!vars
  <1>3. CASE faultedBar' = TRUE
    <2>1. statusBar' = [u \in Tasks |-> IF u \in {} THEN "lost" ELSE statusBar[u]]
      BY DEF statusBar
    <2>2. Contract!Lose({})
      BY <1>3, <2>1 DEF Contract!Lose
    <2> QED
      BY <2>2 DEF Contract!Next
  <1> QED
    BY <1>1, <1>2, <1>3

(* A poll ends: every other task is polled as before.                      *)
LEMMA ReturnOthers ==
  ASSUME CInv, NEW th \in Callers, NEW c \in Code, Running(th, c), Return(th)
  PROVE  /\ \A t \in Callers : ~Polled(t, c)'
         /\ \A v \in Tasks \ {c}, t \in Callers : Polled(t, v)' <=> Polled(t, v)
  BY TopFacts, ReturnFacts DEF CInv, Polled

(* Every kind of step is a step of the contract, or none.                  *)
LEMMA KindsKeepContract ==
  ASSUME IsFiniteSet(Tasks), CInv, BInv', Kinds, script' = script
  PROVE  [Contract!Next]_Contract!vars
  <1> USE DEF Code
  <1>0. mode \in [Code -> Modes] /\ chan \in [Tasks -> ChannelStates]
    BY DEF CInv, BInv, TInv, TypeOK
  <1>1. CASE Quiet
    <2>1. \A u \in Tasks : statusBar'[u] = statusBar[u]
      BY <1>1, SameStanding DEF Quiet, Polled
    <2>2. faultedBar' = faultedBar
      BY <1>1, FaultSame DEF Quiet
    <2> QED
      BY <1>1, <2>1, <2>2, SameStatus, SameResult, Unseen DEF Quiet
  <1>2. ASSUME NEW th \in Callers, NEW c \in Code, NEW u \in Tasks, Spawns(th, c, u)
        PROVE  [Contract!Next]_Contract!vars
    <2>1. /\ \A v \in Tasks : chan'[v] = IF v = u THEN "open" ELSE chan[v]
          /\ chan[u] = "none" /\ mode[u] = "code" /\ mode[c] = "code"
      BY <1>0, <1>2 DEF Spawns, CInv, BInv, Fresh
    <2>2. c \in Tasks => chan[c] = "open"
      BY <1>2, <2>1, RunningLife DEF Spawns
    <2>3. \A v \in Tasks : mode'[v] = mode[v] \/ (v = c /\ mode'[v] = "blocked")
      BY <1>0, <1>2 DEF Spawns
    <2>4. \A v \in Tasks, t \in Callers : Polled(t, v)' <=> Polled(t, v)
      BY <1>2 DEF Spawns, Polled
    <2>5. \A v \in Tasks \ {u} : statusBar'[v] = statusBar[v]
      BY <2>1, <2>3, <2>4, SameStanding
    <2>6. statusBar[u] = "unborn"
      BY <2>1, Standing DEF CInv
    <2>7. statusBar'[u] = "queued"
      <3>1. \A t \in Callers : ~Polled(t, u)
        BY <2>1 DEF CInv, BInv, Books, NothingMislaid, InFlight
      <3>2. InFlight(u)'
        BY <2>1, <2>2, <2>3 DEF InFlight
      <3> QED
        BY <2>4, <3>1, <3>2, StandingNext
    <2>8. statusBar' = [statusBar EXCEPT ![u] = "queued"]
      BY <2>5, <2>7, StatusMoves
    <2>9. resultBar' = resultBar
      BY <2>1, SameResult
    <2>10. faultedBar' = faultedBar
      <3>1. c \in owners
        BY <1>2, RunningLife DEF Spawns
      <3>2. owners # {} /\ owners' # {}
        BY <1>2, <3>1 DEF Spawns
      <3> QED
        BY <2>1, <3>2, FaultSame
    <2>11. Contract!Spawn(u)
      BY <2>6, <2>8, <2>9, <2>10 DEF Contract!Spawn, Contract!Moves
    <2> QED
      BY <2>11 DEF Contract!Next
  <1>3. ASSUME NEW th \in Callers, NEW c \in Code, NEW u \in Tasks, Rejects(th, c, u)
        PROVE  [Contract!Next]_Contract!vars
    <2>1. /\ \A v \in Tasks : chan'[v] = IF v = u THEN "closed" ELSE chan[v]
          /\ chan[u] = "none" /\ mode[c] = "code"
      BY <1>0, <1>3 DEF Rejects
    <2>2. c # u
      BY <1>3, <2>1, RunningLife DEF Rejects
    <2>3. /\ mode'[u] = "dropped"
          /\ \A v \in Tasks \ {u} : mode'[v] = mode[v] \/ (v = c /\ mode'[v] = "blocked")
      BY <1>0, <1>3, <2>2 DEF Rejects
    <2>4. \A v \in Tasks, t \in Callers : Polled(t, v)' <=> Polled(t, v)
      BY <1>3 DEF Rejects, Polled
    <2>5. \A v \in Tasks \ {u} : statusBar'[v] = statusBar[v] /\ chan'[v] = chan[v]
      BY <2>1, <2>3, <2>4, SameStanding
    <2>6. statusBar[u] = "unborn"
      BY <2>1, Standing DEF CInv
    <2>7. ~Queued(u)
      BY <2>1 DEF CInv, BInv, Books, NothingMislaid, InFlight
    <2>8. faultedBar' = TRUE
      BY <1>3, <2>1, <2>7, LossIsFault DEF Rejects
    <2> QED
      BY <2>1, <2>3, <2>5, <2>6, <2>8, Loses
  <1>4. ASSUME NEW th \in Callers, NEW c \in Code, Waits(th, c)
        PROVE  [Contract!Next]_Contract!vars
    <2>1. \A v \in Tasks : mode'[v] = IF v = c THEN "pending" ELSE mode[v]
      BY <1>0, <1>4 DEF Waits
    <2>2. \A v \in Tasks, t \in Callers : Polled(t, v)' <=> Polled(t, v)
      BY <1>4 DEF Waits, Polled
    <2>3. \A v \in Tasks : statusBar'[v] = statusBar[v]
      BY <1>4, <2>1, <2>2, SameStanding DEF Waits
    <2>4. faultedBar' = faultedBar
      BY <1>4, FaultSame DEF Waits
    <2> QED
      BY <1>4, <2>3, <2>4, SameStatus, SameResult, Unseen DEF Waits
  <1>5. ASSUME NEW th \in Callers, NEW c \in Code, NEW S, Ends(th, c, S)
        PROVE  [Contract!Next]_Contract!vars
    <2>1. \A v \in Tasks : /\ chan'[v] = IF v \in S THEN "closed" ELSE chan[v]
                           /\ v # c => mode'[v] = IF v \in S THEN "dropped" ELSE mode[v]
      BY <1>5 DEF Ends, Destroyed
    <2>2. /\ mode[c] = "code" /\ c \notin S
          /\ c \in Tasks => mode'[c] = "finished"
      BY <1>5, EndsOnly, TopFacts DEF Ends
    <2>3. \A v \in Tasks, t \in Callers : Polled(t, v)' <=> Polled(t, v)
      BY <1>5 DEF Ends, Polled
    <2>4. \A v \in Tasks \ S : statusBar'[v] = statusBar[v] /\ chan'[v] = chan[v]
      <3> SUFFICES ASSUME NEW v \in Tasks, v \notin S
                   PROVE  statusBar'[v] = statusBar[v] /\ chan'[v] = chan[v]
        OBVIOUS
      <3>1. CASE v = c
        BY <2>1, <2>2, <2>3, <3>1, SameStanding
      <3>2. CASE v # c
        BY <2>1, <2>3, <3>2, SameStanding
      <3> QED
        BY <3>1, <3>2
    <2>5. /\ owners # {c} => S = {}
          /\ owners' = owners \ {c}
      BY <1>5 DEF Ends
    <2>6. CASE S = {}
      <3>1. statusBar' = statusBar /\ resultBar' = resultBar
        BY <2>1, <2>4, <2>6, SameStatus, SameResult
      <3>2. faultedBar => faultedBar'
        <4>1. HasRoomForAll' = HasRoomForAll
          BY DEF HasRoomForAll, SpawnedByCode
        <4> QED
          BY <2>1, <2>5, <2>6, <4>1 DEF faultedBar
      <3> QED
        BY <3>1, <3>2, Unseen
    <2>7. CASE S # {}
      <3>1. \A u \in S : /\ statusBar[u] = "queued" /\ chan[u] = "open"
                         /\ chan'[u] = "closed" /\ mode'[u] = "dropped"
        BY <1>5, <2>1, <2>2, EndsOnly, Standing DEF CInv
      <3>2. faultedBar' = TRUE
        BY <2>5, <2>7 DEF faultedBar
      <3> QED
        BY <1>5, <2>4, <3>1, <3>2, EndsOnly, Loses
    <2> QED
      BY <2>6, <2>7
  <1>6. ASSUME NEW th \in Callers, NEW c \in Code, NEW v, Takes(th, c, v)
        PROVE  [Contract!Next]_Contract!vars
    <2>1. \A x \in Tasks : mode'[x] = IF x = c THEN "code" ELSE mode[x]
      BY <1>0, <1>6 DEF Takes
    <2>2. \A x \in Tasks : chan'[x] = IF x = v THEN "received" ELSE chan[x]
      BY <1>0, <1>6 DEF Takes
    <2>3. \A x \in Tasks : statusBar'[x] = statusBar[x]
      <3> SUFFICES ASSUME NEW x \in Tasks
                   PROVE  statusBar'[x] = statusBar[x]
        OBVIOUS
      <3>1. \A t \in Callers : Polled(t, x)' <=> Polled(t, x)
        BY <1>6 DEF Takes, Polled
      <3> QED
        BY <1>6, <2>1, <2>2, <3>1, SameStanding DEF Takes
    <2>4. statusBar' = statusBar
      BY <2>3, SameStatus
    <2>5. faultedBar' = faultedBar
      BY <1>6, <2>2, FaultSame DEF Takes
    <2>6. CASE v \in Tasks
      <3>1. resultBar' = [resultBar EXCEPT ![v] = "taken"]
        BY <1>0, <1>6, <2>6, ResultMoves DEF Takes
      <3>2. resultBar[v] = "ready"
        BY <1>6, <2>6 DEF Takes, resultBar
      <3>3. Contract!Take(v)
        BY <2>4, <2>5, <3>1, <3>2 DEF Contract!Take
      <3> QED
        BY <2>6, <3>3 DEF Contract!Next
    <2>7. CASE v \notin Tasks
      BY <2>2, <2>4, <2>5, <2>7, SameResult, Unseen
    <2> QED
      BY <2>6, <2>7
  <1>7. ASSUME NEW th \in Callers, NEW c \in Code, Sends(th, c)
        PROVE  [Contract!Next]_Contract!vars
    <2>1. c \in Tasks /\ chan[c] = "open" /\ mode[c] = "finished"
      BY <1>7, RunningLife DEF Sends
    <2>2. \A x \in Tasks : /\ mode'[x] = IF x = c THEN "ready" ELSE mode[x]
                           /\ chan'[x] = IF x = c THEN "value" ELSE chan[x]
      BY <1>0, <1>7 DEF Sends
    <2>3. \A x \in Tasks, t \in Callers : Polled(t, x)' <=> Polled(t, x)
      BY <1>7 DEF Sends, Polled
    <2>4. \A x \in Tasks : statusBar'[x] = statusBar[x]
      BY <2>1, <2>2, <2>3, SameStanding
    <2>5. statusBar' = statusBar
      BY <2>4, SameStatus
    <2>6. resultBar' = [resultBar EXCEPT ![c] = "ready"]
      BY <1>0, <1>7, ResultMoves DEF Sends
    <2>7. statusBar[c] = "running" /\ resultBar[c] = "none"
      <3>1. Polled(th, c)
        BY <1>7, TopFacts DEF Sends
      <3> QED
        BY <2>1, <3>1, Standing DEF CInv, resultBar
    <2>8. faultedBar' = faultedBar
      BY <1>7, <2>1, <2>2, FaultSame DEF Sends
    <2>9. Contract!Complete(c)
      BY <2>5, <2>6, <2>7, <2>8 DEF Contract!Complete
    <2> QED
      BY <2>1, <2>9 DEF Contract!Next
  <1>8. ASSUME NEW th \in Callers, NEW u \in Tasks, Polls(th, u)
        PROVE  [Contract!Next]_Contract!vars
    <2>1. statusBar[u] = "queued"
      BY <1>8, Standing DEF CInv, Polls
    <2>2. /\ Polled(th, u)'
          /\ \A v \in Tasks \ {u}, t \in Callers : Polled(t, v)' <=> Polled(t, v)
      BY <1>8, PollFacts DEF CInv, Polls, Polled
    <2>3. statusBar'[u] = "running"
      BY <2>2, StandingNext
    <2>4. \A v \in Tasks \ {u} : statusBar'[v] = statusBar[v]
      BY <1>8, <2>2, SameStanding DEF Polls
    <2>5. statusBar' = [statusBar EXCEPT ![u] = "running"]
      BY <2>3, <2>4, StatusMoves
    <2>6. resultBar' = resultBar /\ faultedBar' = faultedBar
      BY <1>8, SameResult, FaultSame DEF Polls
    <2>7. Contract!Start(u)
      BY <2>1, <2>5, <2>6 DEF Contract!Start, Contract!Moves
    <2> QED
      BY <2>7 DEF Contract!Next
  <1>9. ASSUME NEW th \in Callers, NEW c \in Code, NEW m, Returns(th, c, m)
        PROVE  [Contract!Next]_Contract!vars
    <2>1. \A x \in Tasks : mode'[x] = IF x = c THEN m ELSE mode[x]
      BY <1>0, <1>9 DEF Returns
    <2>2. /\ \A t \in Callers : ~Polled(t, c)'
          /\ \A v \in Tasks \ {c}, t \in Callers : Polled(t, v)' <=> Polled(t, v)
      BY <1>9, ReturnOthers DEF Returns
    <2>3. \A v \in Tasks \ {c} : statusBar'[v] = statusBar[v]
      BY <1>9, <2>1, <2>2, SameStanding DEF Returns
    <2>4. resultBar' = resultBar /\ faultedBar' = faultedBar
      BY <1>9, SameResult, FaultSame DEF Returns
    <2>5. CASE c \in Tasks
      <3>1. statusBar[c] = "running" /\ chan[c] # "none"
        BY <1>9, <2>5, TopFacts, RunningLife, Standing DEF Returns, CInv
      <3>2. statusBar' = [statusBar EXCEPT ![c] = statusBar'[c]]
        BY <2>3, <2>5, StatusMoves
      <3>3. CASE mode[c] = "ready" /\ m = "done"
        <4>1. statusBar'[c] = "done"
          BY <2>1, <2>5, <3>3, StandingNext
        <4>2. resultBar[c] # "none"
          BY <2>5, <3>3 DEF CInv, LifeInv, ChannelsFollow, resultBar
        <4>3. Contract!Retire(c)
          BY <2>4, <3>1, <3>2, <4>1, <4>2 DEF Contract!Retire, Contract!Moves
        <4> QED
          BY <2>5, <4>3 DEF Contract!Next
      <3>4. CASE mode[c] = "pending" /\ m = "code"
        <4>1. InFlight(c)'
          BY <1>9, <2>1, <2>5, <3>1, <3>4 DEF Returns, InFlight
        <4>2. statusBar'[c] = "queued"
          BY <2>2, <2>5, <4>1, StandingNext
        <4>3. resultBar[c] = "none"
          <5>1. chan[c] = "open"
            BY <1>9, <2>5, <3>4, RunningLife DEF Returns
          <5> QED
            BY <2>5, <5>1 DEF resultBar
        <4>4. Contract!Suspend(c)
          BY <2>4, <3>1, <3>2, <4>2, <4>3 DEF Contract!Suspend, Contract!Moves
        <4> QED
          BY <2>5, <4>4 DEF Contract!Next
      <3> QED
        BY <1>9, <3>3, <3>4 DEF Returns
    <2>6. CASE c \notin Tasks
      <3>1. \A v \in Tasks : statusBar'[v] = statusBar[v]
        BY <2>3, <2>6
      <3> QED
        BY <2>4, <3>1, SameStatus, Unseen
    <2> QED
      BY <2>5, <2>6
  <1>10. ASSUME NEW th \in Callers, NEW c \in Code, Overflows(th, c)
         PROVE  [Contract!Next]_Contract!vars
    <2>1. /\ \A x \in Tasks : /\ mode'[x] = IF x = c THEN "dropped" ELSE mode[x]
                              /\ chan'[x] = IF x = c THEN "closed" ELSE chan[x]
          /\ c \in Tasks
      BY <1>0, <1>10 DEF Overflows
    <2>2. \A v \in Tasks \ {c}, t \in Callers : Polled(t, v)' <=> Polled(t, v)
      BY <1>10, ReturnOthers DEF Overflows
    <2>3. \A v \in Tasks \ {c} : statusBar'[v] = statusBar[v] /\ chan'[v] = chan[v]
      BY <2>1, <2>2, SameStanding
    <2>4. Polled(th, c) /\ chan[c] = "open"
      BY <1>10, <2>1, TopFacts, RunningLife DEF Overflows
    <2>5. statusBar[c] = "running" /\ ~Queued(c) /\ c \in SpawnedByCode
      BY <2>1, <2>4, Standing DEF CInv, BInv, Books, NoTaskTwice, BornOfCode
    <2>6. faultedBar' = TRUE
      BY <1>10, <2>1, <2>5, LossIsFault DEF Overflows
    <2> QED
      BY <2>1, <2>3, <2>4, <2>5, <2>6, Loses
  <1> QED
    BY <1>1, <1>2, <1>3, <1>4, <1>5, <1>6, <1>7, <1>8, <1>9, <1>10 DEF Kinds

(* At the start no task is spawned, and somebody holds the Runtime.        *)
LEMMA InitMaps ==
  ASSUME Callers # {}, Init
  PROVE  Contract!Init
  <1>1. \A u \in Tasks : statusBar[u] = "unborn"
    BY InitBooks, Standing DEF Init
  <1>2. statusBar = [u \in Tasks |-> "unborn"]
    BY <1>1 DEF statusBar
  <1>3. resultBar = [u \in Tasks |-> "none"]
    BY DEF Init, resultBar
  <1>4. faultedBar = FALSE
    BY DEF Init, faultedBar
  <1> QED
    BY <1>2, <1>3, <1>4 DEF Contract!Init

(***************************************************************************)
(* The no_std executor implements TaskContract: a task is polled by one    *)
(* thread at a time, polled again after Pending, completed once, its       *)
(* result taken once, and lost only with the runtime or to a queue that    *)
(* has no room for all the tasks of the program.  Without a user thread    *)
(* there is no Runtime, and a program spawns finitely many tasks.          *)
(***************************************************************************)
THEOREM ImplementsContract ==
  ASSUME Callers # {}, IsFiniteSet(Tasks)
  PROVE  Spec => KeepsContract
  <1>1. Init => CInv /\ Contract!Init
    BY InitClones, InitMaps
  <1>2. CInv /\ [Next]_vars => CInv'
    BY NextClones
  <1>3. CInv /\ [Next]_vars => [Contract!Next]_Contract!vars
    <2> SUFFICES ASSUME CInv, [Next]_vars
                 PROVE  [Contract!Next]_Contract!vars
      OBVIOUS
    <2>1. BInv'
      BY NextBooks DEF CInv
    <2>2. Kinds /\ script' = script
      BY NextKind DEF CInv
    <2> QED
      BY <2>1, <2>2, KindsKeepContract
  <1> QED
    BY <1>1, <1>2, <1>3, PTL DEF Spec, KeepsContract, Contract!Spec
=============================================================================
