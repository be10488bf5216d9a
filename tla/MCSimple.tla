------------------------------ MODULE MCSimple ------------------------------
(* Small programs for the no_std executor, as in MCExecutor.               *)
EXTENDS SimpleProps

CONSTANTS a, b, d, main, other

Program(assign) ==
  [c \in Code |-> IF c \in DOMAIN assign THEN assign[c] ELSE <<>>]

(* Two threads that poll each other's tasks, with a task that awaits.      *)
Pair == Program(main :> <<SpawnOp(a), BlockOnOp(b)>>
             @@ other :> <<BlockOnOp(d)>>
             @@ a :> <<YieldOp>>
             @@ b :> <<AwaitOp(a)>>)

(* block_on inside a task.                                                 *)
Nested == Program(main :> <<BlockOnOp(a)>>
               @@ other :> <<SpawnOp(d)>>
               @@ a :> <<YieldOp, BlockOnOp(b)>>
               @@ b :> <<YieldOp>>)

(* Two threads, with no more tasks than the queue has room for.            *)
Duo == Program(main :> <<BlockOnOp(a)>>
            @@ other :> <<BlockOnOp(b)>>
            @@ a :> <<YieldOp>>
            @@ b :> <<YieldOp>>)

(* Tasks that nobody waits for, without and with a clone of the Runtime.   *)
Leftovers == Program(main :> <<SpawnOp(a), SpawnOp(b)>>
                  @@ other :> <<BlockOnOp(d)>>
                  @@ a :> <<YieldOp>>)
Cycle == Program(main :> <<SpawnOp(a)>> @@ a :> <<SpawnOp(b), SpawnOp(d)>>)

(* A task spawns another in the middle of its poll, and yields.            *)
Crowd == Program(main :> <<BlockOnOp(a)>> @@ a :> <<SpawnOp(b), YieldOp>>)

AllPrograms      == {Pair, Nested, Duo, Leftovers, Cycle, Crowd}
CrowdPrograms    == {Crowd}
=============================================================================
