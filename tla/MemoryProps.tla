---------------------------- MODULE MemoryProps ----------------------------
(* What is owned, by whom, and for how long.                               *)
EXTENDS Memory

(* Every variable stays in its range.                                      *)
TypeOK ==
  /\ queue \in Seq(Tasks) /\ Len(queue) <= Capacity
  /\ lock \in Threads \cup {NoThread}
  /\ pc \in [Threads -> Places]
  /\ hand \in [Threads -> Tasks \cup {NoTask}]
  /\ arg \in [Threads -> Tasks \cup {NoTask}]
  /\ spawned \subseteq Tasks
  /\ owners \subseteq Threads \cup Reentrant
  /\ heap \subseteq Boxes
  /\ held \in [Holders -> SUBSET Boxes]
  /\ woken \subseteq Boxes

(***************************************************************************)
(* Each Waker, wherever it was cloned to, points at a WakerData that is    *)
(* allocated and that no other Waker points at: dropping it frees memory   *)
(* once, and cloning it reads memory that is there, after the end of its   *)
(* task and of the executor, too.                                          *)
(***************************************************************************)
WakersAreSound ==
  /\ \A p \in Holders : held[p] \subseteq heap
  /\ \A p, q \in Holders : p # q => held[p] \cap held[q] = {}

(***************************************************************************)
(* The WakerData that nobody can free any more are those whose Waker was   *)
(* given to wake; every other one is reached by a Waker.                   *)
(***************************************************************************)
OnlyWakeLeaks == heap \ (UNION {held[p] : p \in Holders}) = woken

(* u exists, in the queue or in the hands of a thread.                     *)
Alive(u) == u \in ToSet(queue) \/ \E th \in Threads : u \in {hand[th], arg[th]}

(* A task that was destroyed, on whatever path, owns nothing any more.     *)
DeadOwnNothing ==
  \A u \in Tasks : ~Alive(u) => held[u] = {} /\ u \notin owners

(***************************************************************************)
(* Once nobody has the Runtime, tasks that are left in the queue are kept  *)
(* there by a waker: one that was woken, one that user code kept, or one   *)
(* that such a task stored itself, whose cycle nobody can break.           *)
(***************************************************************************)
LeftoversNeedWaker ==
  owners = {} /\ queue # <<>> =>
    \/ woken # {} \/ held[Outside] # {}
    \/ \E u \in ToSet(queue) : held[u] # {}

(***************************************************************************)
(* A thread keeps the queue's lock only while it destroys a task that it   *)
(* found no room for, and the queue is as full as it was until it gives    *)
(* the lock back.  No task is polled under the lock, and a destructor      *)
(* waits for a lock that its own thread holds only if it belongs to such a *)
(* task and calls the executor: with room in the queue, it never does.     *)
(***************************************************************************)
LockedOnlyToReject ==
  \A th \in Threads : lock = th =>
    /\ Len(queue) = Capacity
    /\ \/ pc[th] = "full"
       \/ pc[th] = "relock" /\ arg[th] \in Reentrant
=============================================================================
