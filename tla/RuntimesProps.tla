--------------------------- MODULE RuntimesProps ---------------------------
(* What the thread-local runtimes must and must not do.                    *)
EXTENDS Runtimes

Ranges ==
  /\ script \in [Code -> Seq(Op)]
  /\ ip \in [Code -> Nat \ {0}]
  /\ mode \in [Code -> Modes]
  /\ stack \in [Threads -> Seq(Code)]
  /\ life \in [Threads -> Lives]
  /\ home \in [Threads -> Threads \cup {NoThread}]
  /\ runtime \in [Threads -> RuntimeStates]
  /\ queue \in [Threads -> SUBSET Tasks]
  /\ born \in [Tasks -> Threads \cup {NoThread}]
  /\ unwinding \subseteq Threads

(* Every variable stays in its range, and no runtime has too many workers. *)
TypeOK ==
  Ranges /\ \A th \in Threads : Cardinality(WorkersOf(th)) <= NumWorkers

Polled(th, u) == u \in ToSet(stack[th])

(***************************************************************************)
(* A future is spawned "onto the current thread's runtime" and stays       *)
(* there: it is queued in that runtime only, and polled only by its        *)
(* workers and by the thread itself, wherever block_on nests runtimes.     *)
(***************************************************************************)
TasksStayHome ==
  \A u \in Tasks, th \in Threads :
    /\ u \in queue[th] => born[u] = th
    /\ Polled(th, u) => born[u] \in {th, home[th]}

(***************************************************************************)
(* A runtime ends completely: once it is gone its workers are dead, and    *)
(* with them every runtime that their tasks made, and no task that was     *)
(* spawned on it will be polled.                                           *)
(***************************************************************************)
GoneIsFinal ==
  \A th \in Threads : runtime[th] = "gone" =>
    /\ queue[th] = {}
    /\ \A w \in WorkersOf(th) : life[w] = "dead"
                             /\ runtime[w] \in {"none", "failed", "gone"}
    /\ \A u \in Tasks : born[u] = th => mode[u] \in {"done", "lost"}

(***************************************************************************)
(* However many generations of runtimes tasks give rise to, a worker does  *)
(* not outlive the thread its runtime belongs to, unless the start of that *)
(* runtime failed.                                                         *)
(***************************************************************************)
OnlyFailedStartsLeak ==
  \A w \in Threads :
    IsWorker(w) /\ life[w] # "dead" =>
      life[home[w]] # "dead" \/ runtime[home[w]] = "failed"

-----------------------------------------------------------------------------
(* The contract, as for Executor.                                          *)

statusBar ==
  [u \in Tasks |->
     CASE born[u] = NoThread               -> "unborn"
       [] mode[u] \in {"done", "lost"}     -> mode[u]
       [] \E th \in Threads : Polled(th, u) -> "running"
       [] \E th \in Threads : u \in queue[th] -> "queued"
       [] OTHER                            -> "mislaid"]

Taken(u) ==
  \E c \in Code : \E i \in DOMAIN script[c] :
    i < ip[c] /\ script[c][i] \in {AwaitOp(u), BlockOnOp(u)}

resultBar ==
  [u \in Tasks |-> IF ~HasResult(u) THEN "none"
                   ELSE IF Taken(u) THEN "taken" ELSE "ready"]

faultedBar ==
  unwinding # {} \/ \E th \in Threads : runtime[th] \in {"dropping", "gone"}

Contract == INSTANCE TaskContract
              WITH status <- statusBar, result <- resultBar,
                   faulted <- faultedBar

(***************************************************************************)
(* Together the runtimes of all threads keep the contract of one: a task   *)
(* is polled by one thread at a time, again after Pending, never mislaid,  *)
(* and lost only after a panic or with the end of a thread.                *)
(***************************************************************************)
KeepsContract == Contract!Spec

-----------------------------------------------------------------------------
(***************************************************************************)
(* Under FairSpec every user thread ends: its block_on returns or panics,  *)
(* and at its exit the tree of workers and runtimes below it comes down,   *)
(* each thread waiting for those it started.                               *)
(***************************************************************************)
UsersEnd == \A th \in Callers : <>(life[th] = "dead")

-----------------------------------------------------------------------------
(***************************************************************************)
(* runtime.rs, Runtime::new: "Returns an error if the runtime could not be *)
(* initialized".  So a start that does not succeed raises no panic.        *)
(***************************************************************************)
FailedStartIsAnError ==
  [][\A th \in Threads :
       runtime[th] = "starting" => unwinding' = unwinding]_vars
=============================================================================
