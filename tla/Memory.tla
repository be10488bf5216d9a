------------------------------- MODULE Memory -------------------------------
(***************************************************************************)
(* What tasks and wakers own, and the lock around the queue, in the no_std *)
(* executor (simple_executor.rs, waker.rs).  A task that is destroyed      *)
(* takes with it the wakers stored in its future, a waker owns a boxed     *)
(* WakerData, and each WakerData owns a share of the queue, which in turn  *)
(* owns the tasks in it.  The wakers of the std executor are the same.     *)
(***************************************************************************)
EXTENDS Naturals, Sequences, SequencesExt, FiniteSets

CONSTANTS
  Threads,    \* user threads, each with a clone of the Runtime at first
  Tasks,
  Reentrant,  \* the tasks that own a clone and use it in their destructor
  Boxes,      \* addresses for WakerData: bounds those allocated at a time
  Capacity,   \* of the queue
  NoThread, NoTask,
  Outside     \* where user code keeps wakers, other than in tasks

ASSUME MemoryAssumption ==
  /\ Capacity \in Nat \ {0}
  /\ Reentrant \subseteq Tasks
  /\ Threads \cap Tasks = {}
  /\ NoThread \notin Threads
  /\ NoTask \notin Threads \cup Tasks
  /\ Outside \notin Threads \cup Tasks \cup {NoTask}

VARIABLES
  queue,    \* the tasks in the queue
  lock,     \* the thread that holds its mutex, or NoThread
  pc,       \* per thread, see Places
  hand,     \* per thread: the task it is polling, or NoTask
  arg,      \* per thread: the task it is pushing on the queue, or NoTask
  spawned,  \* the tasks that were given to spawn
  owners,   \* the threads and tasks that own a clone of the Runtime
  heap,     \* the addresses of the WakerData allocated
  held,     \* per thread, task and Outside: the Wakers there, as addresses
  woken     \* the addresses whose Waker was consumed by wake

memory == <<owners, heap, held, woken>>
vars   == <<queue, lock, pc, hand, arg, spawned, memory>>

Holders == Threads \cup Tasks \cup {Outside}

(***************************************************************************)
(* out      in user code           push     about to lock and push arg     *)
(* poll     in hand's poll         full     locked, arg was rejected       *)
(* cleanup  at the end of a poll   relock   locking again in a destructor  *)
(* gone     without a clone                                                *)
(***************************************************************************)
Places == {"out", "push", "full", "relock", "poll", "cleanup", "gone"}

Init ==
  /\ queue = <<>>
  /\ lock = NoThread
  /\ pc = [th \in Threads |-> "out"]
  /\ hand = [th \in Threads |-> NoTask]
  /\ arg = [th \in Threads |-> NoTask]
  /\ spawned = {}
  /\ owners = Threads
  /\ heap = {}
  /\ held = [p \in Holders |-> {}]
  /\ woken = {}

Goto(th, place) == pc' = [pc EXCEPT ![th] = place]

-----------------------------------------------------------------------------
(* Destructors.                                                            *)

(* Mutant: what a share of the queue's Arc keeps alive is forgotten.       *)
ReleaseQueueNever == UNCHANGED queue

(* The queue goes with its last share: the executor's or a WakerData's.    *)
ReleaseQueue == queue' = IF owners' = {} /\ heap' = {} THEN <<>> ELSE queue

(* Mutant: the WakerData of a stored Waker is not freed.                   *)
DropWakersShallow(holders) ==
  /\ heap' = heap \ UNION {held[p] : p \in holders \cap Threads}
  /\ held' = [p \in Holders |-> IF p \in holders THEN {} ELSE held[p]]

(* Mutant: the future of a task outlives the task.                         *)
DropWakersOfThread(holders) ==
  /\ heap' = heap \ UNION {held[p] : p \in holders \cap Threads}
  /\ held' = [p \in Holders |->
                IF p \in holders \cap Threads THEN {} ELSE held[p]]

(* The Wakers at these holders are dropped.                                *)
DropWakers(holders) ==
  /\ heap' = heap \ UNION {held[p] : p \in holders \cap Holders}
  /\ held' = [p \in Holders |-> IF p \in holders THEN {} ELSE held[p]]

-----------------------------------------------------------------------------
(* spawn, and the re-queue after Pending.                                  *)

Spawn(th, u) ==
  /\ pc[th] \in {"out", "poll"}
  /\ u \notin spawned
  /\ spawned' = spawned \cup {u}
  /\ arg' = [arg EXCEPT ![th] = u]
  /\ owners' = owners \cup ({u} \cap Reentrant)
  /\ Goto(th, "push")
  /\ UNCHANGED <<queue, lock, hand, heap, held, woken>>

(* Where a push returns to: the task that spawned, the end of the poll of  *)
(* the task that was pushed back, whose waker still exists, or user code.  *)
Back(th) == IF hand[th] # NoTask THEN "poll"
            ELSE IF held[th] # {} THEN "cleanup" ELSE "out"

(* Mutant: one more than the deque has room for.                           *)
HasRoomForOneMore == Len(queue) <= Capacity

HasRoom == Len(queue) < Capacity

Push(th) ==
  /\ pc[th] = "push"
  /\ lock = NoThread
  /\ IF HasRoom
       THEN /\ queue' = Append(queue, arg[th])
            /\ arg' = [arg EXCEPT ![th] = NoTask]
            /\ Goto(th, Back(th))
            /\ UNCHANGED lock
       ELSE /\ lock' = th
            /\ Goto(th, "full")
            /\ UNCHANGED <<queue, arg>>
  /\ UNCHANGED <<hand, spawned, memory>>

(* The rejected task is destroyed, then the guard of the mutex.            *)
Reject(th) ==
  /\ pc[th] = "full"
  /\ arg[th] \notin Reentrant
  /\ DropWakers({arg[th]})
  /\ lock' = NoThread
  /\ arg' = [arg EXCEPT ![th] = NoTask]
  /\ Goto(th, Back(th))
  /\ UNCHANGED <<queue, hand, spawned, owners, woken>>

(* Its destructor calls the executor, to wait for the lock for ever.       *)
CallBack(th) ==
  /\ pc[th] = "full"
  /\ arg[th] \in Reentrant
  /\ Goto(th, "relock")
  /\ UNCHANGED <<queue, lock, hand, arg, spawned, memory>>

-----------------------------------------------------------------------------
(* One turn of block_on's loop.                                            *)

(* Mutant: if let Some(task) = global_queue.lock().pop_front() { ... },    *)
(* which keeps the guard to the end of the block.                          *)
UnlockLate(th) == lock' = th

Unlock(th) == UNCHANGED lock

PopTask(th) ==
  /\ pc[th] = "out"
  /\ lock = NoThread
  /\ queue # <<>>
  /\ hand' = [hand EXCEPT ![th] = Head(queue)]
  /\ queue' = Tail(queue)
  /\ \E b \in Boxes \ heap :
       /\ heap' = heap \cup {b}
       /\ held' = [held EXCEPT ![th] = {b}]
  /\ Unlock(th)
  /\ Goto(th, "poll")
  /\ UNCHANGED <<arg, spawned, owners, woken>>

PollReady(th) ==
  /\ pc[th] = "poll"
  /\ Goto(th, "cleanup")
  /\ UNCHANGED <<queue, lock, hand, arg, spawned, memory>>

PollPending(th) ==
  /\ pc[th] = "poll"
  /\ arg' = [arg EXCEPT ![th] = hand[th]]
  /\ hand' = [hand EXCEPT ![th] = NoTask]
  /\ Goto(th, "push")
  /\ UNCHANGED <<queue, lock, spawned, memory>>

(* The waker made for the poll goes, then a task that is completed.        *)
Cleanup(th) ==
  /\ pc[th] = "cleanup"
  /\ DropWakers({th, hand[th]})
  /\ owners' = owners \ {hand[th]}
  /\ hand' = [hand EXCEPT ![th] = NoTask]
  /\ Goto(th, "out")
  /\ UNCHANGED <<queue, lock, arg, spawned, woken>>

-----------------------------------------------------------------------------
(* What user code does with wakers, and the end.                           *)

(* Where thread th can move wakers to and from.                            *)
Reach(th) == CASE pc[th] = "poll"            -> {hand[th], Outside}
               [] pc[th] \in {"out", "gone"} -> {Outside}
               [] OTHER                      -> {}

(* Mutant: the clone shares the WakerData.                                 *)
CloneWakerShared(th, p, q) ==
  /\ q \in Reach(th)
  /\ p \in Reach(th) \/ (p = th /\ pc[th] = "poll")
  /\ held[p] # {}
  /\ held' = [held EXCEPT ![q] = @ \cup held[p]]
  /\ UNCHANGED <<queue, lock, pc, hand, arg, spawned, owners, heap, woken>>

CloneWaker(th, p, q) ==
  /\ q \in Reach(th)
  /\ p \in Reach(th) \/ (p = th /\ pc[th] = "poll")
  /\ held[p] # {}
  /\ \E b \in Boxes \ heap :
       /\ heap' = heap \cup {b}
       /\ held' = [held EXCEPT ![q] = @ \cup {b}]
  /\ UNCHANGED <<queue, lock, pc, hand, arg, spawned, owners, woken>>

(* wake consumes the Waker and does nothing.                               *)
Wake(th, b) ==
  /\ \E p \in Reach(th) : b \in held[p] /\ held' = [held EXCEPT ![p] = @ \ {b}]
  /\ woken' = woken \cup {b}
  /\ UNCHANGED <<queue, lock, pc, hand, arg, spawned, owners, heap>>

DropWaker(th, b) ==
  /\ \E p \in Reach(th) : b \in held[p] /\ held' = [held EXCEPT ![p] = @ \ {b}]
  /\ heap' = heap \ {b}
  /\ owners' = owners
  /\ ReleaseQueue
  /\ UNCHANGED <<lock, pc, hand, arg, spawned, woken>>

DropRuntime(th) ==
  /\ pc[th] = "out"
  /\ owners' = owners \ {th}
  /\ heap' = heap
  /\ ReleaseQueue
  /\ Goto(th, "gone")
  /\ UNCHANGED <<lock, hand, arg, spawned, held, woken>>

-----------------------------------------------------------------------------
ThreadStep(th) ==
  \/ \E u \in Tasks : Spawn(th, u)
  \/ Push(th) \/ Reject(th) \/ CallBack(th)
  \/ PopTask(th) \/ PollReady(th) \/ PollPending(th) \/ Cleanup(th)
  \/ \E p, q \in Holders : CloneWaker(th, p, q)
  \/ \E b \in Boxes : Wake(th, b) \/ DropWaker(th, b)
  \/ DropRuntime(th)

Next == \E th \in Threads : ThreadStep(th)

Spec == Init /\ [][Next]_vars
=============================================================================
