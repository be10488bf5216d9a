---------------------------- MODULE SimpleProps ----------------------------
(* What the no_std executor must and must not do.                          *)
EXTENDS SimpleExecutor, FiniteSets

(* Every variable stays in its range; the queue never exceeds its bound.   *)
TypeOK ==
  /\ script \in [Code -> Seq(SimpleOp)]
  /\ ip \in [Code -> Nat \ {0}]
  /\ mode \in [Code -> Modes]
  /\ tries \in [Code -> 0 .. BatchLimit]
  /\ queue \in Seq(Tasks) /\ Len(queue) <= Capacity
  /\ stack \in [Callers -> Seq(Code)]
  /\ chan \in [Tasks -> ChannelStates]
  /\ owners \subseteq Code
  /\ processed \in Nat

Queued(u) == u \in ToSet(queue)
Polled(th, u) == u \in ToSet(stack[th])

(* u was accepted by spawn and has neither completed nor been destroyed.   *)
InFlight(u) == chan[u] # "none" /\ mode[u] \notin {"done", "dropped"}

(***************************************************************************)
(* A task is in the queue or being polled exactly as long as it is in      *)
(* flight: pop, poll, re-queue and overflow neither mislay one nor leave a *)
(* finished or rejected one behind.                                        *)
(***************************************************************************)
NothingMislaid ==
  \A u \in Tasks :
    InFlight(u) <=> Queued(u) \/ \E th \in Callers : Polled(th, u)

(***************************************************************************)
(* Nor is it in two places: two threads in block_on never poll the same    *)
(* future, nor does one poll it inside its own poll.                       *)
(***************************************************************************)
NoTaskTwice ==
  /\ IsInjective(queue)
  /\ \A th \in Callers : IsInjective(stack[th])
  /\ \A u \in Tasks, s, t \in Callers :
       Polled(s, u) => ~Queued(u) /\ (Polled(t, u) => s = t)

(* The tasks that the program ever hands to spawn or block_on.             *)
SpawnedByCode ==
  {u \in Tasks : \E c \in Code : \E i \in DOMAIN script[c] :
     script[c][i].do \in {"spawn", "block_on"} /\ script[c][i].task = u}

HasRoomForAll == Cardinality(SpawnedByCode) <= Capacity

(***************************************************************************)
(* A queue with room for all the tasks of the program never loses one: it  *)
(* is enough to bound their number by the capacity, a task in the middle   *)
(* of its poll needs no second slot.                                       *)
(***************************************************************************)
RoomForAll ==
  HasRoomForAll /\ owners # {} => \A u \in Tasks : chan[u] # "closed"

(***************************************************************************)
(* When every user thread is through, the tasks left over are destroyed,   *)
(* unless one of them holds a clone of the Runtime: it then holds, by way  *)
(* of the executor, the queue that it is in, and all of them are leaked.   *)
(***************************************************************************)
LeftoversNeedCycle ==
  Ended => \A u \in Tasks :
             InFlight(u) => \E v \in ToSet(queue) : Captures(script[v])

-----------------------------------------------------------------------------
(* The contract, as for Executor.  What counts as a fault here is the end  *)
(* of the runtime, or a queue that is too small for the program.           *)

statusBar ==
  [u \in Tasks |->
     CASE chan[u] = "none"                  -> "unborn"
       [] mode[u] = "done"                  -> "done"
       [] mode[u] = "dropped"               -> "lost"
       [] \E th \in Callers : Polled(th, u) -> "running"
       [] OTHER                             -> "queued"]

resultBar ==
  [u \in Tasks |->
     CASE chan[u] = "value"    -> "ready"
       [] chan[u] = "received" -> "taken"
       [] OTHER                -> "none"]

faultedBar ==
  \/ owners = {}
  \/ ~HasRoomForAll /\ \E u \in Tasks : chan[u] = "closed"

Contract == INSTANCE TaskContract
              WITH status <- statusBar, result <- resultBar,
                   faulted <- faultedBar

(***************************************************************************)
(* The executor implements TaskContract: one poll at a time, polled again  *)
(* after Pending, completed once, taken once, lost with the runtime or to  *)
(* a full queue only.                                                      *)
(***************************************************************************)
KeepsContract == Contract!Spec

(***************************************************************************)
(* Under FairSpec: every block_on, and so every user thread, returns,      *)
(* unless a task was lost.                                                 *)
(***************************************************************************)
CallersReturn ==
  \A c \in Callers : <>(mode[c] = "done" \/ \E u \in Tasks : chan[u] = "closed")

-----------------------------------------------------------------------------
(***************************************************************************)
(* simple_executor.rs, on a poll that returned Pending: "Re-queue the      *)
(* task".  So the task is in the queue afterwards.                         *)
(***************************************************************************)
PendingIsRequeued ==
  [][\A u \in Tasks :
       mode[u] = "pending" /\ mode'[u] # "pending" => Queued(u)']_vars
=============================================================================
