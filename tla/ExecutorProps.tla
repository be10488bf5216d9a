--------------------------- MODULE ExecutorProps ---------------------------
(* What the std executor must and must not do.                             *)
EXTENDS Executor, FiniteSets

-----------------------------------------------------------------------------
(* Every variable stays in its range; in particular steal_work's index and *)
(* block_on's counter never run past their loops.                          *)
TypeOK ==
  /\ script \in [Code -> Seq(Op)]
  /\ ip \in [Code -> Nat \ {0}]
  /\ mode \in [Code -> Modes]
  /\ tries \in [Code -> 0 .. HelpLimit]
  /\ globalQ \in Seq(Tasks)
  /\ localQ \in [Workers -> Seq(Tasks)]
  /\ stack \in [Threads -> Seq(Code)]
  /\ pc \in [Workers -> Places]
  /\ peer \in [Workers -> 0 .. NumWorkers]
  /\ chan \in [Tasks -> ChannelStates]
  /\ owners \subseteq Code
  /\ shutdown \in BOOLEAN
  /\ joining \subseteq Threads
  /\ joined \in 0 .. NumWorkers
  /\ processed \in Nat
  /\ unwinding \subseteq Threads
  /\ aborted \in BOOLEAN

-----------------------------------------------------------------------------
(* Where a task can be.                                                    *)

Queued(u)   == u \in ToSet(globalQ)
InDeque(w, u) == u \in ToSet(localQ[w])
Polled(th, u) == u \in ToSet(stack[th])

(* u was spawned and still owes its result, or has yet to be retired.      *)
InFlight(u) == chan[u] # "none" /\ mode[u] \notin {"done", "dropped"}

(***************************************************************************)
(* A task that is in flight is in the global queue, in a deque or being    *)
(* polled: no steal, batch, re-queue or exit mislays one.  A task that is  *)
(* not in flight is in none of them: none is polled after it completed.    *)
(***************************************************************************)
NothingMislaid ==
  \A u \in Tasks :
    InFlight(u) <=> \/ Queued(u)
                    \/ \E w \in Workers : InDeque(w, u)
                    \/ \E th \in Threads : Polled(th, u)

(***************************************************************************)
(* Nor is it in two places, or in one twice: stealing moves a task, it     *)
(* never copies it, so no two threads poll one future and no thread polls  *)
(* a future inside its own poll.                                           *)
(***************************************************************************)
NoTaskTwice ==
  /\ IsInjective(globalQ)
  /\ \A w \in Workers : IsInjective(localQ[w])
  /\ \A th \in Threads : IsInjective(stack[th])
  /\ \A u \in Tasks :
       /\ \A w \in Workers : InDeque(w, u) => ~Queued(u)
       /\ \A th \in Threads : Polled(th, u) => ~Queued(u)
       /\ \A w \in Workers, th \in Threads : ~(InDeque(w, u) /\ Polled(th, u))
       /\ \A v, w \in Workers : InDeque(v, u) /\ InDeque(w, u) => v = w
       /\ \A s, t \in Threads : Polled(s, u) /\ Polled(t, u) => s = t

(***************************************************************************)
(* No task is destroyed before it completes while somebody holds the       *)
(* Runtime, unless a panic was raised.                                     *)
(***************************************************************************)
OnlyShutdownDestroys ==
  unwinding = {} =>
    \A u \in Tasks : chan[u] = "closed" => owners = {} /\ shutdown

(***************************************************************************)
(* A caller of block_on always finds its channel open or filled: it owns   *)
(* the only JoinHandle, and by being alive it keeps the executor alive     *)
(* that must run the task.  "channel disconnected" thus needs a panic.     *)
(***************************************************************************)
BlockOnIsSafe ==
  unwinding = {} =>
    \A c \in Code : mode[c] = "blocked" => chan[Operand(c)] \in {"open", "value"}

(***************************************************************************)
(* Once ExecutorInner::drop has joined every worker, every worker has      *)
(* exited and nothing of the executor is left: no task in a queue, none    *)
(* being polled by a worker, none in flight.                               *)
(***************************************************************************)
DropIsFinal ==
  Freed /\ joined = NumWorkers =>
    /\ \A w \in Workers : pc[w] = "exited" /\ localQ[w] = <<>> /\ stack[w] = <<>>
    /\ globalQ = <<>>
    /\ \A u \in Tasks : ~InFlight(u)

(***************************************************************************)
(* A worker looks outside its deque only when the deque is empty, so that  *)
(* what it steals in a batch never lies behind older work.                 *)
(***************************************************************************)
StealsOnlyWhenDry ==
  \A w \in Workers :
    /\ stack[w] = <<>>
    /\ pc[w] \in {"batch", "retry", "peer", "peerRetry"}
    => localQ[w] = <<>>

(* tasks_processed never runs ahead of the tasks that have completed.      *)
CountsNoMoreThanDone ==
  stats.processed <= Cardinality({u \in Tasks : mode[u] = "done"})

(* u is in front of v in q.                                                *)
Precedes(q, u, v) == \E i, j \in 1 .. Len(q) : i < j /\ q[i] = u /\ q[j] = v

(* From q to r: who stays keeps everything behind it that was behind it,   *)
KeepsOrder(q, r) ==
  \A u \in ToSet(r), v \in ToSet(q) : Precedes(q, u, v) => Precedes(r, u, v)

(* and whoever arrives goes behind all that were there.                    *)
GoesBehind(q, r) ==
  \A u \in ToSet(q), v \in ToSet(r) \ ToSet(q) : Precedes(r, u, v)

InLine(u) == Queued(u) \/ \E w \in Workers : InDeque(w, u)

(***************************************************************************)
(* Wakers do nothing, so a task that waits for another one is polled and   *)
(* pushed back without end (executor.rs:285-289, worker.rs:153-161).  It   *)
(* keeps nobody waiting by that: what is spawned or pushed back goes       *)
(* behind everything in the global queue, never straight into a deque, and *)
(* no steal, batch or single, lets a task pass or leave before one that is *)
(* in front of it in the queue or in a deque.                              *)
(***************************************************************************)
NobodyOvertakes ==
  [][/\ KeepsOrder(globalQ, globalQ') /\ GoesBehind(globalQ, globalQ')
     /\ \A w \in Workers : /\ KeepsOrder(localQ[w], localQ'[w])
                           /\ \A u \in Tasks : InDeque(w, u)' => InLine(u)]_vars

-----------------------------------------------------------------------------
(* The contract of the executor with those who spawn tasks.                *)

statusBar ==
  [u \in Tasks |->
     CASE chan[u] = "none"                  -> "unborn"
       [] mode[u] = "done"                  -> "done"
       [] mode[u] = "dropped"               -> "lost"
       [] \E th \in Threads : Polled(th, u) -> "running"
       [] OTHER                             -> "queued"]

resultBar ==
  [u \in Tasks |->
     CASE chan[u] = "value"    -> "ready"
       [] chan[u] = "received" -> "taken"
       [] OTHER                -> "none"]

faultedBar == shutdown \/ unwinding # {}

Contract == INSTANCE TaskContract
              WITH status <- statusBar, result <- resultBar,
                   faulted <- faultedBar

(***************************************************************************)
(* The executor, with all its queues, steals and nested polls, implements  *)
(* TaskContract: one poll at a time, polled again after Pending, completed *)
(* once, taken once, lost only after a panic or the drop.                  *)
(***************************************************************************)
KeepsContract == Contract!Spec

-----------------------------------------------------------------------------
(* Under FairSpec.                                                         *)

(* Every task that is spawned completes, or is destroyed with the runtime. *)
TasksResolve == \A u \in Tasks : chan[u] = "open" ~> chan[u] # "open"

(***************************************************************************)
(* Every user thread gets through its program: block_on and run return,    *)
(* and so does the drop of the last Runtime at the end.                    *)
(***************************************************************************)
CallersReturn == \A c \in Callers : <>(mode[c] = "done")

(* Dropping the last Runtime ends with every worker thread gone.           *)
DropCompletes ==
  shutdown ~> Freed /\ \A w \in Workers : pc[w] = "exited"

-----------------------------------------------------------------------------
(* What the documentation says of the executor and the code does not do.   *)

(***************************************************************************)
(* runtime.rs: block_on "helping process other tasks while waiting to      *)
(* avoid deadlocks".  So block_on returns in the end when no task depends  *)
(* on itself, at least if no deque keeps a task out of its reach.          *)
(***************************************************************************)
HelpingAvoidsDeadlock ==
  \A c \in Code :
    mode[c] = "blocked" ~> mode[c] # "blocked" \/ \E w \in Workers : localQ[w] # <<>>

(***************************************************************************)
(* worker.rs: a worker "can steal work from other workers": none stays     *)
(* idle for ever while there is work in another one's deque.               *)
(***************************************************************************)
IdleWorkersSteal ==
  \A v \in Workers :
    []<>(\/ stack[v] # <<>>
         \/ HasReleased(v)
         \/ \A w \in Workers \ {v} : localQ[w] = <<>>)

(***************************************************************************)
(* executor.rs: block_on "panics if the task times out (after 30 seconds)  *)
(* or the task channel is disconnected": it returns or it panics.          *)
(***************************************************************************)
BlockOnReturnsOrPanics ==
  \A c \in Callers : mode[c] = "blocked" ~> mode[c] # "blocked"

(***************************************************************************)
(* executor.rs, stats: "the number of tasks processed".  When none is left *)
(* in flight it is the number of those that completed.                     *)
(***************************************************************************)
CountsEveryTask ==
  (\A u \in Tasks : ~InFlight(u)) =>
    stats.processed = Cardinality({u \in Tasks : mode[u] = "done"})

(***************************************************************************)
(* executor.rs, drop: "signals worker threads to shut down and waits for   *)
(* them to finish".                                                        *)
(***************************************************************************)
DropWaitsForWorkers == Freed => \A w \in Workers : pc[w] = "exited"
=============================================================================
