--------------------------- MODULE ExecutorProofs ---------------------------
(* What is proved of the std executor, for every program and every size.   *)
EXTENDS ExecutorProps, QueueLemmas, TLAPS

-----------------------------------------------------------------------------
(* Types.                                                                  *)

(* Only a task's poll returns Pending: a user thread has nobody to.        *)
OnlyTasksPend == \A c \in Code : mode[c] = "pending" => c \in Tasks

TInv == TypeOK /\ OnlyTasksPend

(* spawn, await and block_on name a task.                                  *)
LEMMA OperandIsTask ==
  ASSUME TypeOK, NEW c \in Code, ip[c] <= Len(script[c]),
         script[c][ip[c]].do \in {"spawn", "await", "block_on"}
  PROVE  Operand(c) \in Tasks
  <1>1. script[c] \in Seq(Op) /\ ip[c] \in 1 .. Len(script[c])
    BY DEF TypeOK
  <1>2. script[c][ip[c]] \in Op
    BY <1>1
  <1> QED
    BY <1>2 DEF Op, Operand

(* A poll begins or ends: the stacks hold code.                            *)
LEMMA PollType ==
  ASSUME TypeOK, NEW th \in Threads, NEW u \in Tasks, Poll(th, u)
  PROVE  stack' \in [Threads -> Seq(Code)]
  <1>1. Append(stack[th], u) \in Seq(Code)
    BY DEF TypeOK, Code
  <1> QED
    BY <1>1 DEF Poll, TypeOK

(* A poll ends: the stack still holds code.                                *)
LEMMA ReturnType ==
  ASSUME TypeOK, NEW th \in Threads, stack[th] # <<>>, Return(th)
  PROVE  stack' \in [Threads -> Seq(Code)]
  <1>1. Front(stack[th]) \in Seq(Code)
    BY FrontLemma DEF TypeOK
  <1> QED
    BY <1>1 DEF Return, TypeOK

(* A clone of the Runtime is dropped.                                      *)
LEMMA DropRuntimeType ==
  ASSUME TypeOK, NEW th \in Threads, NEW S, DropRuntime(th, S)
  PROVE  /\ owners' \subseteq Code
         /\ shutdown' \in BOOLEAN
         /\ joining' \subseteq Threads
         /\ joined' \in 0 .. NumWorkers
  BY DEF DropRuntime, LastOwners, TypeOK

(* Tasks are destroyed.                                                    *)
LEMMA DestroyType ==
  ASSUME TInv, NEW S, Destroy(S)
  PROVE  /\ chan' \in [Tasks -> ChannelStates]
         /\ mode' \in [Code -> Modes]
         /\ OnlyTasksPend'
  <1>1. chan' \in [Tasks -> ChannelStates]
    BY DEF TInv, Destroy, TypeOK, ChannelStates
  <1>2. mode' \in [Code -> Modes]
    BY DEF TInv, Destroy, TypeOK, Modes
  <1>3. OnlyTasksPend'
    BY DEF TInv, Destroy, OnlyTasksPend
  <1> QED
    BY <1>1, <1>2, <1>3

(* spawn puts a task into the global queue.                                *)
LEMMA SpawnTaskType ==
  ASSUME TypeOK, NEW u \in Tasks, SpawnTask(u)
  PROVE  /\ chan' \in [Tasks -> ChannelStates]
         /\ globalQ' \in Seq(Tasks)
         /\ localQ' \in [Workers -> Seq(Tasks)]
         /\ owners' \subseteq Code
         /\ shutdown' \in BOOLEAN
         /\ joining' \subseteq Threads
         /\ joined' \in 0 .. NumWorkers
  <1>1. chan' \in [Tasks -> ChannelStates]
    BY DEF SpawnTask, Owns, TypeOK, ChannelStates
  <1>2. globalQ' \in Seq(Tasks)
    BY DEF SpawnTask, Owns, TypeOK
  <1>3. owners' \subseteq Code
    BY DEF SpawnTask, Owns, TypeOK, Code
  <1> QED
    BY <1>1, <1>2, <1>3 DEF SpawnTask, Owns, TypeOK

(* A piece of code takes a step of its own.                                *)
LEMMA CodeStepType ==
  ASSUME TInv, NEW th \in Threads, NEW c \in Code, CodeStep(th, c)
  PROVE  TInv'
  <1> USE DEF TInv, OnlyTasksPend, userVars, queueVars, loopVars, dropVars,
              panicVars
  <1>1. CASE DoSpawn(th, c)
    <2>1. Operand(c) \in Tasks
      BY <1>1, OperandIsTask DEF DoSpawn, AtOp
    <2>2. SpawnTask(Operand(c))
      BY <1>1 DEF DoSpawn
    <2>3. ip' \in [Code -> Nat \ {0}]
      BY <1>1 DEF DoSpawn, TypeOK
    <2> QED
      BY <1>1, <2>1, <2>2, <2>3, SpawnTaskType DEF DoSpawn, TypeOK
  <1>2. CASE DoBlockOn(th, c)
    <2>1. Operand(c) \in Tasks
      BY <1>2, OperandIsTask DEF DoBlockOn, AtOp
    <2>2. SpawnTask(Operand(c))
      BY <1>2 DEF DoBlockOn
    <2>3. mode' \in [Code -> Modes] /\ OnlyTasksPend'
      BY <1>2 DEF DoBlockOn, TypeOK, Modes
    <2> QED
      BY <1>2, <2>1, <2>2, <2>3, SpawnTaskType DEF DoBlockOn, TypeOK
  <1>3. CASE DoAwait(th, c)
    <2>1. Operand(c) \in Tasks
      BY <1>3, OperandIsTask DEF DoAwait, Answers, AtOp
    <2>2. mode' \in [Code -> Modes] /\ OnlyTasksPend'
      BY <1>3 DEF DoAwait, Answers, TypeOK, Modes
    <2>3. chan' \in [Tasks -> ChannelStates]
      BY <1>3, <2>1 DEF DoAwait, Answers, TypeOK, ChannelStates
    <2>4. ip' \in [Code -> Nat \ {0}]
      BY <1>3 DEF DoAwait, Answers, TypeOK
    <2> QED
      BY <1>3, <2>2, <2>3, <2>4 DEF DoAwait, Answers, TypeOK
  <1>4. CASE DoYield(th, c)
    <2>1. ip' \in [Code -> Nat \ {0}]
      BY <1>4 DEF DoYield, Wake, TypeOK
    <2>2. mode' \in [Code -> Modes] /\ OnlyTasksPend'
      BY <1>4 DEF DoYield, Wake, TypeOK, Modes
    <2> QED
      BY <1>4, <2>1, <2>2 DEF DoYield, Wake, TypeOK
  <1>5. CASE DoPanic(th, c)
    BY <1>5 DEF DoPanic, TypeOK
  <1>6. CASE DoRun(th, c)
    BY <1>6 DEF DoRun, TypeOK
  <1>7. CASE Finish(th, c)
    <2>1. mode' \in [Code -> Modes] /\ OnlyTasksPend'
      BY <1>7 DEF Finish, TypeOK, Modes
    <2>2. DropRuntime(th, {c})
      BY <1>7 DEF Finish
    <2> QED
      BY <1>7, <2>1, <2>2, DropRuntimeType DEF Finish, TypeOK
  <1>8. CASE Send(th, c)
    <2>1. chan' \in [Tasks -> ChannelStates]
      BY <1>8 DEF Send, TypeOK, ChannelStates
    <2>2. mode' \in [Code -> Modes] /\ OnlyTasksPend'
      BY <1>8 DEF Send, TypeOK, Modes
    <2> QED
      BY <1>8, <2>1, <2>2 DEF Send, TypeOK
  <1>9. CASE ReturnReady(th, c)
    <2>1. stack' \in [Threads -> Seq(Code)]
      BY <1>9, ReturnType DEF ReturnReady, Running
    <2>2. mode' \in [Code -> Modes] /\ OnlyTasksPend'
      BY <1>9 DEF ReturnReady, TypeOK, Modes
    <2> QED
      BY <1>9, <2>1, <2>2 DEF ReturnReady, TypeOK
  <1>10. CASE ReturnPending(th, c)
    <2>1. stack' \in [Threads -> Seq(Code)]
      BY <1>10, ReturnType DEF ReturnPending, Running
    <2>2. mode' \in [Code -> Modes] /\ OnlyTasksPend'
      BY <1>10 DEF ReturnPending, TypeOK, Modes
    <2>3. globalQ' \in Seq(Tasks)
      BY <1>10 DEF ReturnPending, TypeOK
    <2> QED
      BY <1>10, <2>1, <2>2, <2>3 DEF ReturnPending, TypeOK
  <1> QED
    BY <1>1, <1>2, <1>3, <1>4, <1>5, <1>6, <1>7, <1>8, <1>9, <1>10 DEF CodeStep

(* A step of the loop of block_on.                                         *)
LEMMA BlockOnStepType ==
  ASSUME TInv, NEW th \in Threads, NEW c \in Code, BlockOnStep(th, c)
  PROVE  TInv'
  <1> USE DEF TInv, OnlyTasksPend, userVars, queueVars, loopVars, dropVars,
              panicVars
  <1>1. CASE RecvOk(th, c)
    <2>1. chan' \in [Tasks -> ChannelStates]
      BY <1>1 DEF RecvOk, Answers, TypeOK, ChannelStates
    <2>2. mode' \in [Code -> Modes] /\ OnlyTasksPend'
      BY <1>1 DEF RecvOk, Answers, TypeOK, Modes
    <2>3. ip' \in [Code -> Nat \ {0}]
      BY <1>1 DEF RecvOk, Answers, TypeOK
    <2> QED
      BY <1>1, <2>1, <2>2, <2>3 DEF RecvOk, Answers, TypeOK
  <1>2. ASSUME NextTry(c) PROVE tries' \in [Code -> 0 .. HelpLimit]
    BY <1>2, ExecutorAssumption DEF NextTry, TypeOK
  <1>3. CASE RecvEmpty(th, c)
    <2>1. NextTry(c)
      BY <1>3 DEF RecvEmpty
    <2> QED
      BY <1>3, <2>1, <1>2 DEF RecvEmpty, TypeOK
  <1>4. CASE RecvDisconnected(th, c)
    BY <1>4 DEF RecvDisconnected, TypeOK
  <1>5. CASE HelpSteal(th, c)
    <2>1. NextTry(c)
      BY <1>5 DEF HelpSteal
    <2>2. Head(globalQ) \in Tasks /\ Tail(globalQ) \in Seq(Tasks)
      BY <1>5, TailLemma DEF HelpSteal, TypeOK
    <2>3. stack' \in [Threads -> Seq(Code)]
      BY <1>5, <2>2, PollType DEF HelpSteal
    <2> QED
      BY <1>5, <2>1, <2>2, <2>3, <1>2 DEF HelpSteal, TypeOK
  <1>6. CASE HelpEmpty(th, c)
    <2>1. tries' \in [Code -> 0 .. HelpLimit]
      BY <1>6, ExecutorAssumption DEF HelpEmpty, TypeOK
    <2> QED
      BY <1>6, <2>1 DEF HelpEmpty, TypeOK
  <1>7. CASE HelpRetry(th, c)
    <2>1. NextTry(c)
      BY <1>7 DEF HelpRetry
    <2> QED
      BY <1>7, <2>1, <1>2 DEF HelpRetry, TypeOK
  <1> QED
    BY <1>1, <1>3, <1>4, <1>5, <1>6, <1>7 DEF BlockOnStep

(* steal_work only looks at workers that exist, and never at a later one.  *)
LEMMA ModLemma ==
  ASSUME NEW m \in Nat \ {0}, NEW n \in Nat
  PROVE  n % m \in 0 .. m - 1
  OBVIOUS

(* The stealer that steal_work is about to use belongs to a worker.        *)
LEMMA PeerIsWorker ==
  ASSUME TypeOK, NEW w \in Workers
  PROVE  PeerAt(w) \in Workers /\ PeerAt(w) <= w
  <1>1. /\ w \in Nat /\ w + 1 \in Nat \ {0} /\ w < NumWorkers
        /\ peer[w] \in Nat /\ NumWorkers \in Nat
    BY ExecutorAssumption DEF Workers, TypeOK
  <1> DEFINE n == (w % (w + 1)) + peer[w]
  <1>2. n \in Nat
    BY <1>1, ModLemma
  <1>3. PeerAt(w) = n % (w + 1)
    BY DEF PeerAt, NumStealers
  <1> HIDE DEF n
  <1>4. PeerAt(w) \in 0 .. w
    BY <1>1, <1>2, <1>3, ModLemma
  <1> QED
    BY <1>1, <1>4 DEF Workers

(* A step of a worker's loop.                                              *)
LEMMA WorkerStepType ==
  ASSUME TInv, NEW w \in Workers, WorkerStep(w)
  PROVE  TInv'
  <1> USE DEF TInv, OnlyTasksPend, userVars, queueVars, loopVars, dropVars,
              panicVars
  <1>1. w \in Threads /\ w \in Nat /\ NumWorkers \in Nat /\ w + 1 <= NumWorkers
    BY ExecutorAssumption DEF Threads, Workers
  <1>2. ASSUME NEW place \in Places, Goto(w, place)
        PROVE  pc' \in [Workers -> Places]
    BY <1>2 DEF Goto, TypeOK
  <1>3. ASSUME EndLoop(w)
        PROVE  pc' \in [Workers -> Places] /\ peer' \in [Workers -> 0 .. NumWorkers]
    <2>1. pc' \in [Workers -> Places]
      BY <1>3 DEF EndLoop, Goto, TypeOK, Places
    <2>2. peer' \in [Workers -> 0 .. NumWorkers]
      BY <1>1, <1>3 DEF EndLoop, TypeOK
    <2> QED
      BY <2>1, <2>2
  <1>4. CASE CheckShutdown(w)
    <2>1. pc' \in [Workers -> Places]
      BY <1>4 DEF CheckShutdown, AfterCheck, Goto, TypeOK, Places
    <2> QED
      BY <1>4, <2>1 DEF CheckShutdown, AfterCheck, TypeOK
  <1>5. CASE PopLocal(w)
    <2>1. pc' \in [Workers -> Places]
      BY <1>5 DEF PopLocal, Goto, TypeOK, Places
    <2>2. localQ[w] \in Seq(Tasks) /\ localQ[w] # <<>>
      BY <1>5 DEF PopLocal, TypeOK
    <2>3. Head(localQ[w]) \in Tasks /\ Tail(localQ[w]) \in Seq(Tasks)
      BY <2>2, TailLemma
    <2>4. localQ' \in [Workers -> Seq(Tasks)]
      BY <1>5, <2>3 DEF PopLocal, TypeOK
    <2>5. stack' \in [Threads -> Seq(Code)]
      BY <1>1, <1>5, <2>3, PollType DEF PopLocal
    <2> QED
      BY <1>5, <2>1, <2>4, <2>5 DEF PopLocal, TypeOK
  <1>6. CASE LocalEmpty(w)
    <2>1. pc' \in [Workers -> Places]
      BY <1>6 DEF LocalEmpty, AfterPop, Goto, TypeOK, Places
    <2> QED
      BY <1>6, <2>1 DEF LocalEmpty, AfterPop, TypeOK
  <1>7. CASE StealBatch(w)
    <2>1. pc' \in [Workers -> Places]
      BY <1>7 DEF StealBatch, Goto, TypeOK, Places
    <2>2. globalQ \in Seq(Tasks) /\ globalQ # <<>> /\ localQ[w] \in Seq(Tasks)
      BY <1>7 DEF StealBatch, TypeOK
    <2>3. PICK k \in 1 .. Len(globalQ) :
            /\ localQ' = [localQ EXCEPT ![w] = @ \o SubSeq(globalQ, 2, k)]
            /\ globalQ' = SubSeq(globalQ, k + 1, Len(globalQ))
      BY <1>7 DEF StealBatch
    <2>4. /\ Head(globalQ) \in Tasks
          /\ SubSeq(globalQ, 2, k) \in Seq(Tasks)
          /\ SubSeq(globalQ, k + 1, Len(globalQ)) \in Seq(Tasks)
      BY <2>2, BatchLemma
    <2>5. localQ[w] \o SubSeq(globalQ, 2, k) \in Seq(Tasks)
      BY <2>2, <2>4, ConcatLemma
    <2>6. localQ' \in [Workers -> Seq(Tasks)] /\ globalQ' \in Seq(Tasks)
      BY <2>3, <2>4, <2>5 DEF TypeOK
    <2>7. stack' \in [Threads -> Seq(Code)]
      BY <1>1, <1>7, <2>4, PollType DEF StealBatch
    <2> QED
      BY <1>7, <2>1, <2>6, <2>7 DEF StealBatch, TypeOK
  <1>8. CASE GlobalRetry(w)
    BY <1>8, <1>2 DEF GlobalRetry, TypeOK, Places
  <1>9. CASE StealOne(w)
    <2>1. pc' \in [Workers -> Places]
      BY <1>9 DEF StealOne, Goto, TypeOK, Places
    <2>2. Head(globalQ) \in Tasks /\ Tail(globalQ) \in Seq(Tasks)
      BY <1>9, TailLemma DEF StealOne, TypeOK
    <2>3. stack' \in [Threads -> Seq(Code)]
      BY <1>1, <1>9, <2>2, PollType DEF StealOne
    <2> QED
      BY <1>9, <2>1, <2>2, <2>3 DEF StealOne, TypeOK
  <1>10. CASE GlobalMissed(w)
    BY <1>10, <1>2 DEF GlobalMissed, TypeOK, Places
  <1>11. CASE StealPeer(w)
    <2> DEFINE v == PeerAt(w)
    <2>1. v \in Workers /\ v # w
      BY <1>11, PeerIsWorker DEF StealPeer, AtPeer
    <2>2. localQ[v] \in Seq(Tasks) /\ localQ[v] # <<>> /\ localQ[w] \in Seq(Tasks)
      BY <1>11, <2>1 DEF StealPeer, TypeOK
    <2>3. PICK k \in 1 .. Len(localQ[v]) :
            localQ' = [localQ EXCEPT ![w] = @ \o SubSeq(localQ[v], 2, k),
                                     ![v] = SubSeq(@, k + 1, Len(@))]
      BY <1>11 DEF StealPeer
    <2>4. Poll(w, Head(localQ[v])) /\ EndLoop(w)
      BY <1>11 DEF StealPeer
    <2> HIDE DEF v
    <2>5. /\ Head(localQ[v]) \in Tasks
          /\ SubSeq(localQ[v], 2, k) \in Seq(Tasks)
          /\ SubSeq(localQ[v], k + 1, Len(localQ[v])) \in Seq(Tasks)
      BY <2>2, BatchLemma
    <2>6. localQ[w] \o SubSeq(localQ[v], 2, k) \in Seq(Tasks)
      BY <2>2, <2>5, ConcatLemma
    <2>7. localQ' \in [Workers -> Seq(Tasks)]
      BY <2>1, <2>3, <2>5, <2>6 DEF TypeOK
    <2>8. stack' \in [Threads -> Seq(Code)]
      BY <1>1, <2>4, <2>5, PollType
    <2> QED
      BY <1>11, <1>3, <2>4, <2>7, <2>8 DEF StealPeer, TypeOK
  <1>12. CASE PeerRetry(w)
    BY <1>12, <1>2 DEF PeerRetry, TypeOK, Places
  <1>13. CASE StealPeerOne(w)
    <2> DEFINE v == PeerAt(w)
    <2>1. v \in Workers
      BY PeerIsWorker
    <2>2. localQ[v] \in Seq(Tasks) /\ localQ[v] # <<>>
      BY <1>13, <2>1 DEF StealPeerOne, TypeOK
    <2>3. /\ Poll(w, Head(localQ[v])) /\ EndLoop(w)
          /\ localQ' = [localQ EXCEPT ![v] = Tail(@)]
      BY <1>13 DEF StealPeerOne
    <2> HIDE DEF v
    <2>4. Head(localQ[v]) \in Tasks /\ Tail(localQ[v]) \in Seq(Tasks)
      BY <2>2, TailLemma
    <2>5. localQ' \in [Workers -> Seq(Tasks)]
      BY <2>3, <2>4 DEF TypeOK
    <2>6. stack' \in [Threads -> Seq(Code)]
      BY <1>1, <2>3, <2>4, PollType
    <2> QED
      BY <1>13, <1>3, <2>3, <2>5, <2>6 DEF StealPeerOne, TypeOK
  <1>14. CASE NextPeer(w)
    <2>1. pc' \in [Workers -> Places]
      BY <1>14 DEF NextPeer, Goto, TypeOK, Places
    <2>2. peer[w] + 1 \in 0 .. NumWorkers
      BY <1>1, <1>14 DEF NextPeer, NumStealers, TypeOK
    <2>3. peer' \in [Workers -> 0 .. NumWorkers]
      BY <1>14, <2>2 DEF NextPeer, TypeOK
    <2> QED
      BY <1>14, <2>1, <2>3 DEF NextPeer, TypeOK
  <1>15. CASE NoWork(w)
    <2>1. EndLoop(w)
      BY <1>15 DEF NoWork
    <2> QED
      BY <1>15, <2>1, <1>3 DEF NoWork, TypeOK
  <1>16. CASE Leave(w)
    <2>1. \E S : Destroy(S) /\ DropRuntime(w, S)
      BY <1>16 DEF Leave
    <2>2. /\ chan' \in [Tasks -> ChannelStates]
          /\ mode' \in [Code -> Modes]
          /\ OnlyTasksPend'
          /\ owners' \subseteq Code
          /\ shutdown' \in BOOLEAN
          /\ joining' \subseteq Threads
          /\ joined' \in 0 .. NumWorkers
      BY <1>1, <2>1, DestroyType, DropRuntimeType
    <2>3. localQ' \in [Workers -> Seq(Tasks)]
      BY <1>16 DEF Leave, TypeOK
    <2>4. globalQ' \in Seq(Tasks)
      BY <1>16 DEF Leave, TypeOK
    <2>5. pc' \in [Workers -> Places]
      BY <1>16 DEF Leave, Goto, TypeOK, Places
    <2>6. UNCHANGED <<script, ip, tries, panicVars, stack, peer, processed>>
      BY <1>16 DEF Leave
    <2> QED
      BY <2>2, <2>3, <2>4, <2>5, <2>6 DEF TypeOK
  <1>17. CASE Exit(w)
    BY <1>17, <1>2 DEF Exit, TypeOK, Places
  <1> QED
    BY <1>4, <1>5, <1>6, <1>7, <1>8, <1>9, <1>10, <1>11, <1>12, <1>13, <1>14,
       <1>15, <1>16, <1>17 DEF WorkerStep

(* A panic unwinds a frame, or the drop of the executor goes on.           *)
LEMMA EndStepType ==
  ASSUME TInv, NEW th \in Threads,
         Unwind(th) \/ JoinNext(th) \/ JoinSelf(th) \/ DropDone(th)
  PROVE  TInv'
  <1> USE DEF TInv, OnlyTasksPend, userVars, queueVars, loopVars, dropVars,
              panicVars
  <1>1. CASE Unwind(th)
    <2>1. /\ Destroy({Last(stack[th])}) /\ DropRuntime(th, {Last(stack[th])})
          /\ Return(th) /\ stack[th] # <<>>
      BY <1>1 DEF Unwind
    <2>2. stack' \in [Threads -> Seq(Code)]
      BY <2>1, ReturnType
    <2>3. pc' \in [Workers -> Places]
      BY <1>1 DEF Unwind, TypeOK, Places
    <2> QED
      BY <1>1, <2>1, <2>2, <2>3, DestroyType, DropRuntimeType DEF Unwind, TypeOK
  <1>2. CASE JoinNext(th)
    <2>1. joined' \in 0 .. NumWorkers
      BY <1>2, ExecutorAssumption DEF JoinNext, Joinable, TypeOK
    <2> QED
      BY <1>2, <2>1 DEF JoinNext, Joinable, TypeOK
  <1>3. CASE JoinSelf(th)
    BY <1>3 DEF JoinSelf, TypeOK
  <1>4. CASE DropDone(th)
    <2>1. Destroy(ToSet(globalQ))
      BY <1>4 DEF DropDone
    <2> QED
      BY <1>4, <2>1, DestroyType DEF DropDone, TypeOK
  <1> QED
    BY <1>1, <1>2, <1>3, <1>4

(* The start.                                                              *)
LEMMA InitType ==
  ASSUME Init
  PROVE  TInv
  <1>1. /\ script \in [Code -> Seq(Op)]
        /\ 0 \in 0 .. HelpLimit /\ 0 \in 0 .. NumWorkers
    BY ExecutorAssumption DEF Init
  <1>2. ip \in [Code -> Nat \ {0}] /\ mode \in [Code -> Modes] /\ OnlyTasksPend
    BY DEF Init, Modes, OnlyTasksPend
  <1>3. stack \in [Threads -> Seq(Code)]
    <2>1. \A th \in Threads \ Workers : <<th>> \in Seq(Code)
      BY DEF Threads, Code
    <2> QED
      BY <2>1 DEF Init
  <1>4. pc \in [Workers -> Places] /\ chan \in [Tasks -> ChannelStates]
    BY DEF Init, Places, ChannelStates
  <1>5. /\ tries \in [Code -> 0 .. HelpLimit]
        /\ peer \in [Workers -> 0 .. NumWorkers]
        /\ joined \in 0 .. NumWorkers
    BY <1>1 DEF Init
  <1>6. owners \subseteq Code
    BY DEF Init, Code
  <1>7. globalQ \in Seq(Tasks) /\ localQ \in [Workers -> Seq(Tasks)]
    BY DEF Init
  <1>8. /\ shutdown \in BOOLEAN /\ joining \subseteq Threads /\ processed \in Nat
        /\ unwinding \subseteq Threads /\ aborted \in BOOLEAN
    BY DEF Init
  <1> QED
    BY <1>1, <1>2, <1>3, <1>4, <1>5, <1>6, <1>7, <1>8 DEF TInv, TypeOK

(* The invariant is inductive.                                             *)
LEMMA NextType ==
  ASSUME TInv, [Next]_vars
  PROVE  TInv'
  <1>1. CASE UNCHANGED vars
    BY <1>1 DEF TInv, TypeOK, OnlyTasksPend, vars, userVars, queueVars,
                loopVars, dropVars, panicVars
  <1>2. ASSUME NEW th \in Threads, ThreadStep(th)
        PROVE  TInv'
    BY <1>2, CodeStepType, BlockOnStepType, WorkerStepType, EndStepType
       DEF ThreadStep
  <1>3. ASSUME NEW w \in Workers, JoinSelf(w)
        PROVE  TInv'
    BY <1>3, EndStepType DEF Threads
  <1> QED
    BY <1>1, <1>2, <1>3 DEF Next

(***************************************************************************)
(* Every variable stays in its range: block_on's counter of steals and     *)
(* steal_work's index stay within their loops, and no worker ever looks    *)
(* for a deque that is not there.                                          *)
(***************************************************************************)
THEOREM TypeCorrect == Spec => []TypeOK
  <1>1. Init => TInv
    BY InitType
  <1>2. TInv /\ [Next]_vars => TInv'
    BY NextType
  <1>3. TInv => TypeOK
    BY DEF TInv
  <1> QED
    BY <1>1, <1>2, <1>3, PTL DEF Spec
=============================================================================
