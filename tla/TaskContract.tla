---------------------------- MODULE TaskContract ----------------------------
(***************************************************************************)
(* What a runtime promises about the tasks given to it, whatever its       *)
(* queues and threads: a task is polled by one thread at a time, is polled *)
(* again after it returned Pending, completes once, and its result can be  *)
(* taken once.  It disappears before it completes only after a fault: a    *)
(* panic, a queue that is full, or the end of the runtime itself.          *)
(***************************************************************************)
CONSTANT Tasks

VARIABLES
  status,   \* per task: where it is in its life
  result,   \* per task: what its JoinHandle would find
  faulted   \* there was such a fault

vars == <<status, result, faulted>>

Statuses == {"unborn", "queued", "running", "done", "lost"}
Results  == {"none", "ready", "taken"}

Init ==
  /\ status = [u \in Tasks |-> "unborn"]
  /\ result = [u \in Tasks |-> "none"]
  /\ faulted = FALSE

Moves(u, from, to) ==
  /\ status[u] = from
  /\ status' = [status EXCEPT ![u] = to]

Spawn(u) == Moves(u, "unborn", "queued") /\ UNCHANGED <<result, faulted>>

Start(u) == Moves(u, "queued", "running") /\ UNCHANGED <<result, faulted>>

Suspend(u) ==
  /\ result[u] = "none"
  /\ Moves(u, "running", "queued")
  /\ UNCHANGED <<result, faulted>>

Complete(u) ==
  /\ status[u] = "running"
  /\ result[u] = "none"
  /\ result' = [result EXCEPT ![u] = "ready"]
  /\ UNCHANGED <<status, faulted>>

Retire(u) ==
  /\ result[u] # "none"
  /\ Moves(u, "running", "done")
  /\ UNCHANGED <<result, faulted>>

Take(u) ==
  /\ result[u] = "ready"
  /\ result' = [result EXCEPT ![u] = "taken"]
  /\ UNCHANGED <<status, faulted>>

(* A fault, and the tasks it costs, if any; one may just be being spawned. *)
Lose(S) ==
  /\ \A u \in S :
       status[u] \in {"unborn", "queued", "running"} /\ result[u] = "none"
  /\ status' = [u \in Tasks |-> IF u \in S THEN "lost" ELSE status[u]]
  /\ faulted' = TRUE
  /\ UNCHANGED result

Next ==
  \/ \E u \in Tasks : \/ Spawn(u) \/ Start(u) \/ Suspend(u)
                      \/ Complete(u) \/ Retire(u) \/ Take(u)
  \/ \E S \in SUBSET Tasks : Lose(S)

Spec == Init /\ [][Next]_vars
=============================================================================
