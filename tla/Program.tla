------------------------------ MODULE Program ------------------------------
(***************************************************************************)
(* The code a user of Luminal runs: the futures given to spawn and         *)
(* block_on (Tasks) and the user's own threads (Callers), each of which    *)
(* starts with a clone of one Runtime.  This code is not part of the       *)
(* repository; it is modelled from how src/ uses it (a future is polled, a *)
(* JoinHandle awaited, Runtime::spawn and Runtime::block_on called).  Each *)
(* piece of code is a finite script of operations.                         *)
(***************************************************************************)
EXTENDS Naturals, Sequences

CONSTANTS
  Tasks,    \* the futures that may be handed to spawn or block_on
  Callers,  \* the user threads that use the runtime
  NoTask    \* the operand of an operation that names no task

Code == Tasks \cup Callers

(***************************************************************************)
(* spawn u     Runtime::spawn(u), keeping or passing on the JoinHandle     *)
(* await u     u's JoinHandle.await, in async code only                    *)
(* block_on u  Runtime::block_on(u), a call that does not return until u   *)
(*             has a result; legal in async code and on a user's thread    *)
(* run         Executor::run(), on a user's thread                         *)
(* yield       a future of the user's own returns Pending once             *)
(* panic       the code panics                                             *)
(***************************************************************************)
SpawnOp(u)   == [do |-> "spawn",    task |-> u]
AwaitOp(u)   == [do |-> "await",    task |-> u]
BlockOnOp(u) == [do |-> "block_on", task |-> u]
RunOp        == [do |-> "run",      task |-> NoTask]
YieldOp      == [do |-> "yield",    task |-> NoTask]
PanicOp      == [do |-> "panic",    task |-> NoTask]

Op == [do : {"spawn", "await", "block_on"}, task : Tasks]
      \cup [do : {"run", "yield", "panic"}, task : {NoTask}]

(***************************************************************************)
(* Code that calls the runtime must own a clone of it: a future captures   *)
(* the clone when it is created and drops it when its body ends.           *)
(***************************************************************************)
Captures(s) == \E i \in DOMAIN s : s[i].do \in {"spawn", "block_on", "run"}

(***************************************************************************)
(* block_on takes its future by value and keeps the JoinHandle in a local  *)
(* variable: nothing else of the program awaits, or blocks on, that task.  *)
(***************************************************************************)
HandlesMove(program) ==
  \A c, z \in Code :
    \A i \in DOMAIN program[c], j \in DOMAIN program[z] :
      /\ program[c][i].do = "block_on"
      /\ program[z][j].do \in {"await", "block_on"}
      /\ program[c][i].task = program[z][j].task
      => c = z /\ i = j
=============================================================================
