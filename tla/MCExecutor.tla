----------------------------- MODULE MCExecutor -----------------------------
(***************************************************************************)
(* Small programs for TLC.  The tasks are a, b, d and e, the user threads  *)
(* main and other; code that is given no script returns at once.           *)
(***************************************************************************)
EXTENDS ExecutorProps

CONSTANTS a, b, d, e, main, other

Program(assign) ==
  [c \in Code |-> IF c \in DOMAIN assign THEN assign[c] ELSE <<>>]

(* A task awaits another.                                                  *)
FanOut == Program(main :> <<SpawnOp(a), BlockOnOp(b)>>
               @@ a :> <<YieldOp>>
               @@ b :> <<AwaitOp(a)>>)

(* block_on inside a task, which spawns another one.                       *)
Chain == Program(main :> <<BlockOnOp(a)>> @@ a :> <<SpawnOp(d), BlockOnOp(b)>>)

Nested == Program(main :> <<BlockOnOp(a)>> @@ a :> <<BlockOnOp(b)>>
               @@ b :> <<YieldOp>>)

(* Executor::run.                                                          *)
Sleeper == Program(main :> <<SpawnOp(a), SpawnOp(b), RunOp>>
                @@ a :> <<YieldOp>>)

(* main leaves; the runtime lives on in a task, and may end on a worker.   *)
Detached == Program(main :> <<SpawnOp(a)>>
                 @@ a :> <<SpawnOp(b), BlockOnOp(d)>>)

(* Three tasks at once.                                                    *)
Burst == Program(main :> <<SpawnOp(a), SpawnOp(b), SpawnOp(d)>>
              @@ a :> <<YieldOp>>)

(* Two user threads, each helping with the other's tasks.                  *)
Pair == Program(main :> <<BlockOnOp(a)>>
             @@ other :> <<BlockOnOp(b)>>
             @@ a :> <<YieldOp>>)

(* A task panics: on a worker, or on main while it helps.                  *)
Orphan == Program(main :> <<SpawnOp(a), BlockOnOp(b)>>
               @@ a :> <<PanicOp>>
               @@ b :> <<AwaitOp(a)>>)

(* The task that block_on waits for panics.                                *)
Failing == Program(main :> <<SpawnOp(d), BlockOnOp(a)>>
                @@ a :> <<YieldOp, PanicOp>>)

(* A task that holds the last clone of the Runtime panics.                 *)
LastOwner == Program(main :> <<SpawnOp(a), SpawnOp(b)>>
                  @@ a :> <<SpawnOp(d), PanicOp>>)

(* a waits in block_on for d, which awaits b; b does not depend on a.      *)
Waiting == Program(main :> <<BlockOnOp(a)>>
                @@ a :> <<SpawnOp(b), YieldOp, BlockOnOp(d)>>
                @@ b :> <<YieldOp>>
                @@ d :> <<AwaitOp(b)>>)

(* b waits in block_on for e, which awaits a; a waits in block_on for d.   *)
Stacked == Program(main :> <<SpawnOp(a), BlockOnOp(b)>>
                @@ a :> <<BlockOnOp(d)>>
                @@ b :> <<BlockOnOp(e)>>
                @@ e :> <<AwaitOp(a)>>)

SafetyPrograms   == 
  {FanOut, Chain, Burst, Pair, Detached, Orphan, Failing, LastOwner}
ProgressPrograms == {FanOut, Nested, Sleeper}
DetachedPrograms == {Detached}
FanOutPrograms   == {FanOut}
OrphanPrograms   == {Orphan}
WaitingPrograms  == {Waiting}
StackedPrograms  == {Stacked}
=============================================================================
