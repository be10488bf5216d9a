----------------------------- MODULE MCRuntimes -----------------------------
(* Small programs for the global functions, as in MCExecutor.              *)
EXTENDS RuntimesProps, TLC

CONSTANTS a, b, d

Program(assign) ==
  [c \in Code |-> IF c \in DOMAIN assign THEN assign[c] ELSE <<>>]

(* A task calls the global spawn, and what it spawns does.                 *)
Generations == Program(1 :> <<SpawnOp(a)>>
                    @@ a :> <<SpawnOp(b), YieldOp>>
                    @@ b :> <<SpawnOp(d)>>)

(* The global block_on inside a task, which helps with what it spawned.    *)
Nested == Program(1 :> <<BlockOnOp(a)>>
               @@ a :> <<SpawnOp(b), BlockOnOp(d)>>
               @@ b :> <<YieldOp>>)

(* A task awaits one of another runtime, while main leaves.                *)
Across == Program(1 :> <<SpawnOp(a)>>
               @@ a :> <<SpawnOp(b), AwaitOp(b)>>)

(* A task panics, next to one that waits to be polled.                     *)
Failing == Program(1 :> <<SpawnOp(a), SpawnOp(b), BlockOnOp(d)>>
                @@ a :> <<YieldOp, PanicOp>>
                @@ d :> <<YieldOp>>)

AllPrograms    == {Generations, Nested, Across, Failing}
NestedPrograms == {Nested}
=============================================================================
