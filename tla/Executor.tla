------------------------------ MODULE Executor ------------------------------
(***************************************************************************)
(* The std executor of Luminal: the shared state and the operations of     *)
(* src/src/runtime/executor.rs, the worker threads of worker.rs, the       *)
(* result channel between a task and its JoinHandle (join_handle.rs) and   *)
(* the reference count that ends it all (runtime.rs, handle.rs).           *)
(*                                                                         *)
(* Every thread, a worker or a user's, has a stack of the pieces of code   *)
(* it is in the middle of running.  A frame above another is a task that   *)
(* the lower frame's block_on polls while it waits.                        *)
(***************************************************************************)
EXTENDS Naturals, Sequences, SequencesExt, Program

CONSTANTS
  NumWorkers,  \* available_parallelism()
  HelpLimit,   \* tasks block_on polls between two looks at its result: 4
  Workloads    \* the programs, each a function from Code to scripts

Workers == 0 .. NumWorkers - 1
Threads == Workers \cup Callers

ASSUME ExecutorAssumption ==
  /\ NumWorkers \in Nat \ {0}
  /\ HelpLimit \in Nat \ {0}
  /\ Callers # {}
  /\ Callers \cap Workers = {}
  /\ Callers \cap Tasks = {}
  /\ Workloads \subseteq [Code -> Seq(Op)]

ASSUME HandleAssumption == \A program \in Workloads : HandlesMove(program)

VARIABLES
  script,     \* the program being run
  ip,         \* per piece of code: the next operation of its script
  mode,       \* per piece of code: what it is doing, see Modes
  tries,      \* per piece of code in block_on: 0, about to look at its
              \* result, or the number of the steal it is about to try
  globalQ,    \* ExecutorInner::global_queue
  localQ,     \* per worker: its deque, WorkerThread::worker
  stack,      \* per thread: the code it is inside of, innermost last
  pc,         \* per worker: where run() or steal_work() is
  peer,       \* per worker: the loop variable i of steal_work(), 0 outside
  chan,       \* per task: the channel its result is sent through
  owners,     \* the code that holds a clone of the Runtime, Arc<Executor>
  shutdown,   \* ExecutorInner::shutdown
  joining,    \* the thread, if any, that is inside ExecutorInner::drop
  joined,     \* how many worker handles that drop has joined
  processed,  \* ExecutorInner::tasks_processed
  unwinding,  \* the threads in which a panic was raised
  aborted     \* the process died of a panic raised while unwinding

userVars  == <<script, ip, mode, tries>>
queueVars == <<globalQ, localQ>>
loopVars  == <<pc, peer>>
dropVars  == <<owners, shutdown, joining, joined>>
panicVars == <<unwinding, aborted>>

vars == <<userVars, queueVars, loopVars, dropVars, panicVars, stack, chan,
          processed>>

(***************************************************************************)
(* code      running its script, or waiting in a queue to be polled again  *)
(* blocked   in the loop of block_on                                       *)
(* pending   its poll is about to return Pending                           *)
(* finished  its body has returned, its result is not sent yet             *)
(* ready     its result is sent, its poll is about to return Ready         *)
(* done      it has completed                                              *)
(* dropped   it was destroyed before it completed                          *)
(***************************************************************************)
Modes == {"code", "blocked", "pending", "finished", "ready", "done", "dropped"}

(***************************************************************************)
(* none      the task has not been spawned                                 *)
(* open      empty, and the task owns the Sender                           *)
(* value     holds the result                                              *)
(* received  the result was taken out                                      *)
(* closed    empty, and the Sender was dropped                             *)
(***************************************************************************)
ChannelStates == {"none", "open", "value", "received", "closed"}

Places == {"check", "pop", "popMore", "batch", "retry", "peer", "peerRetry",
           "leaving", "released", "exited"}

Init ==
  /\ script \in Workloads
  /\ ip = [c \in Code |-> 1]
  /\ mode = [c \in Code |-> "code"]
  /\ tries = [c \in Code |-> 0]
  /\ globalQ = <<>>
  /\ localQ = [w \in Workers |-> <<>>]
  /\ stack = [th \in Threads |-> IF th \in Workers THEN <<>> ELSE <<th>>]
  /\ pc = [w \in Workers |-> "check"]
  /\ peer = [w \in Workers |-> 0]
  /\ chan = [u \in Tasks |-> "none"]
  /\ owners = Callers
  /\ shutdown = FALSE
  /\ joining = {}
  /\ joined = 0
  /\ processed = 0
  /\ unwinding = {}
  /\ aborted = FALSE

-----------------------------------------------------------------------------
(* Code on a thread.                                                       *)

Running(th, c) ==
  /\ stack[th] # <<>>
  /\ c = Last(stack[th])
  /\ th \notin unwinding \cup joining

AtOp(th, c, do) ==
  /\ Running(th, c)
  /\ mode[c] = "code"
  /\ ip[c] <= Len(script[c])
  /\ script[c][ip[c]].do = do

Operand(c) == script[c][ip[c]].task

(* A poll of u begins on thread th.                                        *)
Poll(th, u) == stack' = [stack EXCEPT ![th] = Append(@, u)]

(* The innermost poll of thread th ends.                                   *)
Return(th) == stack' = [stack EXCEPT ![th] = Front(@)]

(* Mutant: dropping any clone shuts the executor down.                     *)
LastOwnersAny(S) == owners \cap S # {}

LastOwners(S) == owners # {} /\ owners \subseteq S

(***************************************************************************)
(* Arc<Executor> clones held by S are dropped on thread th.  Dropping the  *)
(* last one runs ExecutorInner::drop there: it raises the shutdown flag    *)
(* and goes on to join the workers.                                        *)
(***************************************************************************)
DropRuntime(th, S) ==
  /\ owners' = owners \ S
  /\ IF LastOwners(S)
       THEN shutdown' = TRUE /\ joining' = {th}
       ELSE UNCHANGED <<shutdown, joining>>
  /\ UNCHANGED joined

(* Mutant: a future that calls the runtime holds no clone of it.           *)
OwnsNothing(u) == FALSE

Owns(u) == Captures(script[u])

(***************************************************************************)
(* Executor::spawn and spawn_internal.  A future is moved into spawn, so   *)
(* it is spawned once.                                                     *)
(***************************************************************************)
SpawnTask(u) ==
  /\ chan[u] = "none"
  /\ chan' = [chan EXCEPT ![u] = "open"]
  /\ globalQ' = Append(globalQ, u)
  /\ owners' = IF Owns(u) THEN owners \cup {u} ELSE owners
  /\ UNCHANGED <<localQ, shutdown, joining, joined>>

DoSpawn(th, c) ==
  /\ AtOp(th, c, "spawn")
  /\ SpawnTask(Operand(c))
  /\ ip' = [ip EXCEPT ![c] = @ + 1]
  /\ UNCHANGED <<script, mode, tries, loopVars, panicVars, stack, processed>>

(* block_on spawns its future, then enters its loop.                       *)
DoBlockOn(th, c) ==
  /\ AtOp(th, c, "block_on")
  /\ SpawnTask(Operand(c))
  /\ mode' = [mode EXCEPT ![c] = "blocked"]
  /\ UNCHANGED <<script, ip, tries, loopVars, panicVars, stack, processed>>

(* Mutant: a disconnected channel answers with a placeholder.              *)
AnswersClosed(u) == chan[u] \in {"value", "closed"}

Answers(u) == chan[u] = "value"

(***************************************************************************)
(* JoinHandle::poll.  An empty channel and a disconnected one both answer  *)
(* Pending.                                                                *)
(***************************************************************************)
DoAwait(th, c) ==
  /\ AtOp(th, c, "await")
  /\ c \in Tasks
  /\ \/ /\ Answers(Operand(c))
        /\ chan' = [chan EXCEPT ![Operand(c)] = "received"]
        /\ ip' = [ip EXCEPT ![c] = @ + 1]
        /\ UNCHANGED mode
     \/ /\ ~Answers(Operand(c))
        /\ mode' = [mode EXCEPT ![c] = "pending"]
        /\ UNCHANGED <<chan, ip>>
  /\ UNCHANGED <<script, tries, queueVars, loopVars, dropVars, panicVars,
                 stack, processed>>

(* Mutant: the waker queues the task, as its Pending does once more.       *)
WakeQueues(c) == globalQ' = Append(globalQ, c)

(* Waker::wake and wake_by_ref, by which a future asks to be polled again. *)
Wake(c) == UNCHANGED globalQ

DoYield(th, c) ==
  /\ AtOp(th, c, "yield")
  /\ c \in Tasks
  /\ ip' = [ip EXCEPT ![c] = @ + 1]
  /\ mode' = [mode EXCEPT ![c] = "pending"]
  /\ Wake(c)
  /\ UNCHANGED <<script, tries, localQ, loopVars, dropVars, panicVars,
                 stack, chan, processed>>

DoPanic(th, c) ==
  /\ AtOp(th, c, "panic")
  /\ unwinding' = unwinding \cup {th}
  /\ UNCHANGED <<userVars, queueVars, loopVars, dropVars, stack, chan,
                 processed, aborted>>

(* Executor::run sleeps until it finds the global queue empty.             *)
DoRun(th, c) ==
  /\ AtOp(th, c, "run")
  /\ c \in Callers
  /\ globalQ = <<>>
  /\ ip' = [ip EXCEPT ![c] = @ + 1]
  /\ UNCHANGED <<script, mode, tries, queueVars, loopVars, dropVars,
                 panicVars, stack, chan, processed>>

(***************************************************************************)
(* The body returns and what it captured is dropped.  The wrapper future   *)
(* that spawn made sends a task's result after that.                       *)
(***************************************************************************)
Finish(th, c) ==
  /\ Running(th, c)
  /\ mode[c] = "code"
  /\ ip[c] > Len(script[c])
  /\ mode' = [mode EXCEPT ![c] = IF c \in Tasks THEN "finished" ELSE "ready"]
  /\ DropRuntime(th, {c})
  /\ UNCHANGED <<script, ip, tries, queueVars, loopVars, panicVars, stack,
                 chan, processed>>

Send(th, c) ==
  /\ Running(th, c)
  /\ mode[c] = "finished"
  /\ chan' = [chan EXCEPT ![c] = "value"]
  /\ mode' = [mode EXCEPT ![c] = "ready"]
  /\ UNCHANGED <<script, ip, tries, queueVars, loopVars, dropVars, panicVars,
                 stack, processed>>

(***************************************************************************)
(* The poll returns Ready.  A worker that polled from its own loop         *)
(* (run_task) counts the task, block_on does not.                          *)
(***************************************************************************)
ReturnReady(th, c) ==
  /\ Running(th, c)
  /\ mode[c] = "ready"
  /\ Return(th)
  /\ mode' = [mode EXCEPT ![c] = "done"]
  /\ processed' = IF th \in Workers /\ Len(stack[th]) = 1
                    THEN processed + 1
                    ELSE processed
  /\ UNCHANGED <<script, ip, tries, queueVars, loopVars, dropVars, panicVars,
                 chan>>

(* Mutant: tasks_processed counts polls.                                   *)
ReturnPendingCounted(th, c) ==
  /\ Running(th, c)
  /\ mode[c] = "pending"
  /\ Return(th)
  /\ mode' = [mode EXCEPT ![c] = "code"]
  /\ globalQ' = Append(globalQ, c)
  /\ processed' = processed + 1
  /\ UNCHANGED <<script, ip, tries, localQ, loopVars, dropVars, panicVars,
                 chan>>

(* Mutant: a worker keeps its own pending tasks in its deque.              *)
ReturnPendingLocal(th, c) ==
  /\ Running(th, c)
  /\ mode[c] = "pending"
  /\ Return(th)
  /\ mode' = [mode EXCEPT ![c] = "code"]
  /\ IF th \in Workers /\ Len(stack[th]) = 1
       THEN localQ' = [localQ EXCEPT ![th] = Append(@, c)] /\ UNCHANGED globalQ
       ELSE globalQ' = Append(globalQ, c) /\ UNCHANGED localQ
  /\ UNCHANGED <<script, ip, tries, loopVars, dropVars, panicVars, chan,
                 processed>>

(***************************************************************************)
(* The poll returns Pending.  Whoever polled pushes the task back: wakers  *)
(* do nothing, so this is what gets the task polled again.                 *)
(***************************************************************************)
ReturnPending(th, c) ==
  /\ Running(th, c)
  /\ mode[c] = "pending"
  /\ Return(th)
  /\ mode' = [mode EXCEPT ![c] = "code"]
  /\ globalQ' = Append(globalQ, c)
  /\ UNCHANGED <<script, ip, tries, localQ, loopVars, dropVars, panicVars,
                 chan, processed>>

-----------------------------------------------------------------------------
(* The loop of Executor::block_on.                                         *)

Looking(th, c) == Running(th, c) /\ mode[c] = "blocked" /\ tries[c] = 0
Helping(th, c) == Running(th, c) /\ mode[c] = "blocked" /\ tries[c] # 0

(* Mutant: the counter is never reset.                                     *)
NextTryUnbounded(c) == tries' = [tries EXCEPT ![c] = @ + 1]

NextTry(c) ==
  tries' = [tries EXCEPT ![c] = IF @ = HelpLimit THEN 0 ELSE @ + 1]

RecvOk(th, c) ==
  /\ Looking(th, c)
  /\ Answers(Operand(c))
  /\ chan' = [chan EXCEPT ![Operand(c)] = "received"]
  /\ mode' = [mode EXCEPT ![c] = "code"]
  /\ ip' = [ip EXCEPT ![c] = @ + 1]
  /\ UNCHANGED <<script, tries, queueVars, loopVars, dropVars, panicVars,
                 stack, processed>>

RecvEmpty(th, c) ==
  /\ Looking(th, c)
  /\ chan[Operand(c)] = "open"
  /\ NextTry(c)
  /\ UNCHANGED <<script, ip, mode, queueVars, loopVars, dropVars, panicVars,
                 stack, chan, processed>>

RecvDisconnected(th, c) ==
  /\ Looking(th, c)
  /\ chan[Operand(c)] = "closed"
  /\ unwinding' = unwinding \cup {th}
  /\ UNCHANGED <<userVars, queueVars, loopVars, dropVars, stack, chan,
                 processed, aborted>>

(* Steal::Success: the stolen task is polled on top of block_on's caller.  *)
HelpSteal(th, c) ==
  /\ Helping(th, c)
  /\ globalQ # <<>>
  /\ Poll(th, Head(globalQ))
  /\ globalQ' = Tail(globalQ)
  /\ NextTry(c)
  /\ UNCHANGED <<script, ip, mode, localQ, loopVars, dropVars, panicVars,
                 chan, processed>>

HelpEmpty(th, c) ==
  /\ Helping(th, c)
  /\ globalQ = <<>>
  /\ tries' = [tries EXCEPT ![c] = 0]
  /\ UNCHANGED <<script, ip, mode, queueVars, loopVars, dropVars, panicVars,
                 stack, chan, processed>>

(* Steal::Retry: another thread won the race for the head of the queue.    *)
HelpRetry(th, c) ==
  /\ Helping(th, c)
  /\ NextTry(c)
  /\ UNCHANGED <<script, ip, mode, queueVars, loopVars, dropVars, panicVars,
                 stack, chan, processed>>

-----------------------------------------------------------------------------
(* WorkerThread::run and steal_work.                                       *)

AtPlace(w, places) ==
  /\ stack[w] = <<>>
  /\ pc[w] \in places
  /\ w \notin unwinding \cup joining

Goto(w, place) == pc' = [pc EXCEPT ![w] = place]

(* Mutant: stealing goes before the worker's own deque.                    *)
AfterCheckBatch == IF shutdown THEN "leaving" ELSE "batch"

(* Mutant: the shutdown flag is not read.                                  *)
AfterCheckPop == "pop"

AfterCheck == IF shutdown THEN "leaving" ELSE "pop"

CheckShutdown(w) ==
  /\ AtPlace(w, {"check"})
  /\ Goto(w, AfterCheck)
  /\ UNCHANGED <<userVars, queueVars, dropVars, panicVars, stack, chan, peer,
                 processed>>

(***************************************************************************)
(* while let Some(task) = self.worker.pop(): the deque is drained before   *)
(* the shutdown flag is read again.  "popMore" is found_work = true.       *)
(***************************************************************************)
PopLocal(w) ==
  /\ AtPlace(w, {"pop", "popMore"})
  /\ localQ[w] # <<>>
  /\ Poll(w, Head(localQ[w]))
  /\ localQ' = [localQ EXCEPT ![w] = Tail(@)]
  /\ Goto(w, "popMore")
  /\ UNCHANGED <<userVars, globalQ, dropVars, panicVars, chan, peer,
                 processed>>

(* Mutant: the worker never steals.                                        *)
AfterPopCheck(w) == "check"

AfterPop(w) == IF pc[w] = "pop" THEN "batch" ELSE "check"

LocalEmpty(w) ==
  /\ AtPlace(w, {"pop", "popMore"})
  /\ localQ[w] = <<>>
  /\ Goto(w, AfterPop(w))
  /\ UNCHANGED <<userVars, queueVars, dropVars, panicVars, stack, chan, peer,
                 processed>>

(***************************************************************************)
(* Injector::steal_batch_and_pop: the first k tasks leave the global       *)
(* queue, the first of them to be polled, the others for w's deque.  How   *)
(* many is unspecified.                                                    *)
(***************************************************************************)
StealBatch(w) ==
  /\ AtPlace(w, {"batch"})
  /\ globalQ # <<>>
  /\ Poll(w, Head(globalQ))
  /\ \E k \in 1 .. Len(globalQ) :
       /\ localQ' = [localQ EXCEPT ![w] = @ \o SubSeq(globalQ, 2, k)]
       /\ globalQ' = SubSeq(globalQ, k + 1, Len(globalQ))
  /\ Goto(w, "check")
  /\ UNCHANGED <<userVars, dropVars, panicVars, chan, peer, processed>>

GlobalRetry(w) ==
  /\ AtPlace(w, {"batch"})
  /\ Goto(w, "retry")
  /\ UNCHANGED <<userVars, queueVars, dropVars, panicVars, stack, chan, peer,
                 processed>>

(* The one plain steal after a Retry.                                      *)
StealOne(w) ==
  /\ AtPlace(w, {"retry"})
  /\ globalQ # <<>>
  /\ Poll(w, Head(globalQ))
  /\ globalQ' = Tail(globalQ)
  /\ Goto(w, "check")
  /\ UNCHANGED <<userVars, localQ, dropVars, panicVars, chan, peer, processed>>

(* Empty, or a second Retry: on to the other workers' deques.              *)
GlobalMissed(w) ==
  /\ AtPlace(w, {"batch", "retry"})
  /\ pc[w] = "batch" => globalQ = <<>>
  /\ Goto(w, "peer")
  /\ UNCHANGED <<userVars, queueVars, dropVars, panicVars, stack, chan, peer,
                 processed>>

(***************************************************************************)
(* ExecutorInner::new hands worker w the stealers pushed so far: those of  *)
(* workers 0 to w.                                                         *)
(***************************************************************************)
NumStealers(w) == w + 1

PeerAt(w) == ((w % NumStealers(w)) + peer[w]) % NumStealers(w)

AtPeer(w, places) ==
  /\ AtPlace(w, places)
  /\ peer[w] < NumStealers(w)
  /\ PeerAt(w) # w

EndLoop(w) == Goto(w, "check") /\ peer' = [peer EXCEPT ![w] = 0]

(* Stealer::steal_batch_and_pop from the deque of another worker.          *)
StealPeer(w) ==
  /\ AtPeer(w, {"peer"})
  /\ localQ[PeerAt(w)] # <<>>
  /\ Poll(w, Head(localQ[PeerAt(w)]))
  /\ \E k \in 1 .. Len(localQ[PeerAt(w)]) :
       localQ' = [localQ EXCEPT
                    ![w] = @ \o SubSeq(localQ[PeerAt(w)], 2, k),
                    ![PeerAt(w)] = SubSeq(@, k + 1, Len(@))]
  /\ EndLoop(w)
  /\ UNCHANGED <<userVars, globalQ, dropVars, panicVars, chan, processed>>

PeerRetry(w) ==
  /\ AtPeer(w, {"peer"})
  /\ Goto(w, "peerRetry")
  /\ UNCHANGED <<userVars, queueVars, dropVars, panicVars, stack, chan, peer,
                 processed>>

StealPeerOne(w) ==
  /\ AtPeer(w, {"peerRetry"})
  /\ localQ[PeerAt(w)] # <<>>
  /\ Poll(w, Head(localQ[PeerAt(w)]))
  /\ localQ' = [localQ EXCEPT ![PeerAt(w)] = Tail(@)]
  /\ EndLoop(w)
  /\ UNCHANGED <<userVars, globalQ, dropVars, panicVars, chan, processed>>

(* The worker itself, an empty deque or a second Retry: the next one.      *)
NextPeer(w) ==
  /\ AtPlace(w, {"peer", "peerRetry"})
  /\ peer[w] < NumStealers(w)
  /\ (pc[w] = "peer" /\ PeerAt(w) # w) => localQ[PeerAt(w)] = <<>>
  /\ Goto(w, "peer")
  /\ peer' = [peer EXCEPT ![w] = @ + 1]
  /\ UNCHANGED <<userVars, queueVars, dropVars, panicVars, stack, chan,
                 processed>>

NoWork(w) ==
  /\ AtPlace(w, {"peer"})
  /\ peer[w] = NumStealers(w)
  /\ EndLoop(w)
  /\ UNCHANGED <<userVars, queueVars, dropVars, panicVars, stack, chan,
                 processed>>

-----------------------------------------------------------------------------
(* The ends of threads and of the executor.                                *)

HasReleased(w) == pc[w] \in {"released", "exited"}

(* Runtime::stats: the length of the queue and the tasks processed.        *)
stats == [queued |-> Len(globalQ), processed |-> processed]

(* Every field of ExecutorInner has been dropped.                          *)
Freed == shutdown /\ joining = {}

(* Mutant: futures are leaked with their deque.                            *)
DestroyLeaking(S) ==
  /\ chan' = [u \in Tasks |-> IF u \in S THEN "closed" ELSE chan[u]]
  /\ UNCHANGED mode

Destroy(S) ==
  /\ chan' = [u \in Tasks |-> IF u \in S THEN "closed" ELSE chan[u]]
  /\ mode' = [c \in Code |-> IF c \in S THEN "dropped" ELSE mode[c]]

(***************************************************************************)
(* The thread's WorkerThread is dropped.  A deque lives as long as a       *)
(* worker that can reach it, its owner or a later one, and the injector as *)
(* long as a worker or the executor; what is left in one that w was the    *)
(* last to hold is destroyed with it.                                      *)
(***************************************************************************)
LastHolder(w, j) ==
  /\ j <= w
  /\ \A k \in Workers \ {w} : k >= j => HasReleased(k)

Leave(w) ==
  LET orphans == {j \in Workers : LastHolder(w, j)}
      last    == Freed /\ \A k \in Workers \ {w} : HasReleased(k)
      lost    == (UNION {ToSet(localQ[j]) : j \in orphans})
                   \cup (IF last THEN ToSet(globalQ) ELSE {})
  IN  /\ stack[w] = <<>>
      /\ pc[w] = "leaving"
      /\ w \notin joining
      /\ Destroy(lost)
      /\ localQ' = [j \in Workers |-> IF j \in orphans THEN <<>>
                                                       ELSE localQ[j]]
      /\ globalQ' = IF last THEN <<>> ELSE globalQ
      /\ DropRuntime(w, lost)
      /\ Goto(w, "released")
      /\ UNCHANGED <<script, ip, tries, panicVars, stack, peer, processed>>

Exit(w) ==
  /\ pc[w] = "released"
  /\ w \notin joining
  /\ Goto(w, "exited")
  /\ UNCHANGED <<userVars, queueVars, dropVars, panicVars, stack, chan, peer,
                 processed>>

(***************************************************************************)
(* A panic unwinds the innermost frame: the future is destroyed, with its  *)
(* Sender and its clone of the Runtime.  Nothing in the runtime catches    *)
(* it, so it goes on through every block_on to the bottom of the thread.   *)
(***************************************************************************)
Unwind(th) ==
  /\ th \in unwinding \ joining
  /\ stack[th] # <<>>
  /\ Return(th)
  /\ Destroy({Last(stack[th])})
  /\ DropRuntime(th, {Last(stack[th])})
  /\ pc' = IF th \in Workers /\ Len(stack[th]) = 1
             THEN [pc EXCEPT ![th] = "leaving"]
             ELSE pc
  /\ UNCHANGED <<script, ip, tries, queueVars, panicVars, peer, processed>>

(* Mutant: the handles are dropped, not joined.                            *)
JoinableAlways(w) == TRUE

Joinable(w) == pc[w] = "exited"

(* ExecutorInner::drop: the worker handles are joined in order.            *)
JoinNext(th) ==
  /\ th \in joining
  /\ joined < NumWorkers
  /\ joined # th
  /\ Joinable(joined)
  /\ joined' = joined + 1
  /\ UNCHANGED <<userVars, queueVars, loopVars, panicVars, stack, chan,
                 owners, shutdown, joining, processed>>

(***************************************************************************)
(* The drop runs on a worker and has come to that worker's own handle.     *)
(* Where the platform reports that deadlock, join panics and the other     *)
(* handles are detached; raised while unwinding, the panic aborts the      *)
(* process.  Where it does not, this step never happens.                   *)
(***************************************************************************)
JoinSelf(th) ==
  /\ th \in joining
  /\ joined = th
  /\ IF th \in unwinding
       THEN aborted' = TRUE /\ UNCHANGED <<unwinding, joining>>
       ELSE /\ unwinding' = unwinding \cup {th}
            /\ joining' = {}
            /\ UNCHANGED aborted
  /\ UNCHANGED <<userVars, queueVars, loopVars, stack, chan, owners, shutdown,
                 joined, processed>>

(* All joined: the executor's hold on the injector was the last one.       *)
DropDone(th) ==
  /\ th \in joining
  /\ joined = NumWorkers
  /\ joining' = {}
  /\ Destroy(ToSet(globalQ))
  /\ globalQ' = <<>>
  /\ UNCHANGED <<script, ip, tries, localQ, loopVars, panicVars, stack,
                 owners, shutdown, joined, processed>>

-----------------------------------------------------------------------------
CodeStep(th, c) ==
  \/ DoSpawn(th, c) \/ DoBlockOn(th, c) \/ DoAwait(th, c) \/ DoYield(th, c)
  \/ DoPanic(th, c) \/ DoRun(th, c) \/ Finish(th, c) \/ Send(th, c)
  \/ ReturnReady(th, c) \/ ReturnPending(th, c)

BlockOnStep(th, c) ==
  \/ RecvOk(th, c) \/ RecvEmpty(th, c) \/ RecvDisconnected(th, c)
  \/ HelpSteal(th, c) \/ HelpEmpty(th, c) \/ HelpRetry(th, c)

WorkerStep(w) ==
  \/ CheckShutdown(w) \/ PopLocal(w) \/ LocalEmpty(w)
  \/ StealBatch(w) \/ GlobalRetry(w) \/ StealOne(w) \/ GlobalMissed(w)
  \/ StealPeer(w) \/ PeerRetry(w) \/ StealPeerOne(w) \/ NextPeer(w)
  \/ NoWork(w) \/ Leave(w) \/ Exit(w)

ThreadStep(th) ==
  /\ ~aborted
  /\ \/ \E c \in Code : CodeStep(th, c) \/ BlockOnStep(th, c)
     \/ th \in Workers /\ WorkerStep(th)
     \/ Unwind(th) \/ JoinNext(th) \/ DropDone(th)

(* No thread will take another step: the process is over.                  *)
Ended ==
  \/ aborted
  \/ /\ joining = {}
     /\ \A c \in Callers : stack[c] = <<>>
     /\ \A w \in Workers : pc[w] = "exited"

Next ==
  \/ \E th \in Threads : ThreadStep(th)
  \/ ~aborted /\ \E w \in Workers : JoinSelf(w)
  \/ Ended /\ UNCHANGED vars

Spec == Init /\ [][Next]_vars

(***************************************************************************)
(* Every thread that can go on does.  A Retry of crossbeam's queues means  *)
(* that the thread lost a race for the queue; it does not lose every one,  *)
(* so that a steal which is possible again and again succeeds in the end.  *)
(* Nothing is assumed about JoinSelf.                                      *)
(***************************************************************************)
StealGlobal(th) ==
  /\ ~aborted
  /\ \/ \E c \in Code : HelpSteal(th, c)
     \/ th \in Workers /\ (StealBatch(th) \/ StealOne(th))

StealDeque(w) == ~aborted /\ (StealPeer(w) \/ StealPeerOne(w))

Fairness ==
  /\ \A th \in Threads : WF_vars(ThreadStep(th)) /\ SF_vars(StealGlobal(th))
  /\ \A w \in Workers : SF_vars(StealDeque(w))

FairSpec == Spec /\ Fairness
=============================================================================
