---------------------------- MODULE MemoryProofs ----------------------------
(***************************************************************************)
(* The invariants of Memory, for all sets of threads, tasks and addresses. *)
(***************************************************************************)
EXTENDS MemoryProps, QueueLemmas

(* What a thread has in its hands at each place.                           *)
Hands ==
  \A th \in Threads :
    /\ pc[th] \in {"out", "gone"} => hand[th] = NoTask /\ held[th] = {}
    /\ pc[th] = "poll" => hand[th] # NoTask
    /\ pc[th] \in {"push", "full", "relock"} <=> arg[th] # NoTask
    /\ pc[th] # "gone" <=> th \in owners

(* The queue goes with its last share.                                     *)
QueueIsOwned == queue # <<>> => owners # {} \/ heap # {}

MInv ==
  /\ TypeOK /\ Hands
  /\ WakersAreSound /\ OnlyWakeLeaks /\ DeadOwnNothing
  /\ QueueIsOwned /\ LockedOnlyToReject

(* OnlyWakeLeaks, address by address.                                      *)
Leaked(b) == b \in heap /\ \A p \in Holders : b \notin held[p]

LEMMA LeakedIsWoken ==
  OnlyWakeLeaks <=> \A b : Leaked(b) <=> b \in woken
  BY DEF OnlyWakeLeaks, Leaked

LEMMA InitMemory == Init => MInv
  <1> SUFFICES ASSUME Init PROVE MInv
    OBVIOUS
  <1> USE MemoryAssumption DEF Init
  <1>1. TypeOK
    BY DEF TypeOK, Places, Holders
  <1>2. Hands
    BY DEF Hands, Holders
  <1>3. WakersAreSound /\ OnlyWakeLeaks
    BY DEF WakersAreSound, OnlyWakeLeaks
  <1>4. DeadOwnNothing
    BY DEF DeadOwnNothing, Holders
  <1>5. QueueIsOwned /\ LockedOnlyToReject
    BY DEF QueueIsOwned, LockedOnlyToReject
  <1> QED
    BY <1>1, <1>2, <1>3, <1>4, <1>5 DEF MInv

-----------------------------------------------------------------------------
(* Types.                                                                  *)

LEMMA TypesStep ==
  ASSUME TypeOK, Hands, NEW th \in Threads, ThreadStep(th)
  PROVE  TypeOK'
  <1> USE MemoryAssumption DEF TypeOK, Places, memory, Goto
  <1>1. ASSUME NEW u \in Tasks, Spawn(th, u) PROVE TypeOK'
    BY <1>1 DEF Spawn
  <1>2. ASSUME Push(th) PROVE TypeOK'
    <2>1. arg[th] \in Tasks
      BY <1>2 DEF Push, Hands
    <2>2. queue' \in Seq(Tasks) /\ Len(queue') <= Capacity
      <3>1. CASE HasRoom
        BY <1>2, <2>1, <3>1 DEF Push, HasRoom
      <3>2. CASE ~HasRoom
        BY <1>2, <3>2 DEF Push
      <3> QED
        BY <3>1, <3>2
    <2>3. lock' \in Threads \cup {NoThread}
      BY <1>2 DEF Push
    <2>4. pc' \in [Threads -> Places]
      BY <1>2 DEF Push, Back
    <2>5. arg' \in [Threads -> Tasks \cup {NoTask}]
      BY <1>2 DEF Push
    <2> QED
      BY <1>2, <2>2, <2>3, <2>4, <2>5 DEF Push
  <1>3. ASSUME Reject(th) PROVE TypeOK'
    BY <1>3 DEF Reject, Back, DropWakers
  <1>4. ASSUME CallBack(th) PROVE TypeOK'
    BY <1>4 DEF CallBack
  <1>5. ASSUME PopTask(th) PROVE TypeOK'
    BY <1>5 DEF PopTask, Unlock, Holders
  <1>6. ASSUME PollReady(th) PROVE TypeOK'
    BY <1>6 DEF PollReady
  <1>7. ASSUME PollPending(th) PROVE TypeOK'
    BY <1>7 DEF PollPending
  <1>8. ASSUME Cleanup(th) PROVE TypeOK'
    BY <1>8 DEF Cleanup, DropWakers
  <1>9. ASSUME NEW p \in Holders, NEW q \in Holders, CloneWaker(th, p, q)
        PROVE  TypeOK'
    BY <1>9 DEF CloneWaker
  <1>10. ASSUME NEW b \in Boxes, Wake(th, b) PROVE TypeOK'
    <2>1. PICK p : held' = [held EXCEPT ![p] = @ \ {b}]
      BY <1>10 DEF Wake
    <2>2. held' \in [Holders -> SUBSET Boxes]
      BY <2>1
    <2> QED
      BY <1>10, <2>2 DEF Wake
  <1>11. ASSUME NEW b \in Boxes, DropWaker(th, b) PROVE TypeOK'
    <2>1. PICK p : held' = [held EXCEPT ![p] = @ \ {b}]
      BY <1>11 DEF DropWaker
    <2>2. held' \in [Holders -> SUBSET Boxes]
      BY <2>1
    <2> QED
      BY <1>11, <2>2 DEF DropWaker, ReleaseQueue
  <1>12. ASSUME DropRuntime(th) PROVE TypeOK'
    BY <1>12 DEF DropRuntime, ReleaseQueue
  <1> QED
    BY <1>1, <1>2, <1>3, <1>4, <1>5, <1>6, <1>7, <1>8, <1>9, <1>10, <1>11,
       <1>12 DEF ThreadStep
-----------------------------------------------------------------------------
(* Hands.                                                                  *)

(* What user code does with Wakers concerns none that a poll made.         *)
LEMMA ReachIsNoThread ==
  ASSUME TypeOK, Hands, NEW th \in Threads, NEW p \in Reach(th)
  PROVE  p \notin Threads /\ p \in Holders
  BY MemoryAssumption DEF TypeOK, Hands, Reach, Holders

LEMMA HandsStep ==
  ASSUME TypeOK, Hands, NEW th \in Threads, ThreadStep(th)
  PROVE  Hands'
  <1> USE MemoryAssumption DEF TypeOK, Hands, memory, Goto
  <1>0. \A t \in Threads : t \in Holders /\ t \notin Tasks
    BY DEF Holders
  <1>1. ASSUME NEW u \in Tasks, Spawn(th, u) PROVE Hands'
    BY <1>0, <1>1 DEF Spawn
  <1>2. ASSUME Push(th) PROVE Hands'
    BY <1>2 DEF Push, Back
  <1>3. ASSUME Reject(th) PROVE Hands'
    BY <1>0, <1>3 DEF Reject, Back, DropWakers
  <1>4. ASSUME CallBack(th) PROVE Hands'
    BY <1>4 DEF CallBack
  <1>5. ASSUME PopTask(th) PROVE Hands'
    BY <1>0, <1>5 DEF PopTask
  <1>6. ASSUME PollReady(th) PROVE Hands'
    BY <1>6 DEF PollReady
  <1>7. ASSUME PollPending(th) PROVE Hands'
    BY <1>7 DEF PollPending
  <1>8. ASSUME Cleanup(th) PROVE Hands'
    BY <1>0, <1>8 DEF Cleanup, DropWakers
  <1>9. ASSUME NEW p \in Holders, NEW q \in Holders, CloneWaker(th, p, q)
        PROVE  Hands'
    BY <1>9, ReachIsNoThread DEF CloneWaker
  <1>10. ASSUME NEW b \in Boxes, Wake(th, b) PROVE Hands'
    BY <1>10, ReachIsNoThread DEF Wake
  <1>11. ASSUME NEW b \in Boxes, DropWaker(th, b) PROVE Hands'
    BY <1>11, ReachIsNoThread DEF DropWaker
  <1>12. ASSUME DropRuntime(th) PROVE Hands'
    BY <1>12 DEF DropRuntime
  <1> QED
    BY <1>1, <1>2, <1>3, <1>4, <1>5, <1>6, <1>7, <1>8, <1>9, <1>10, <1>11,
       <1>12 DEF ThreadStep

-----------------------------------------------------------------------------
(* Wakers and what they point at.                                          *)

Sound == WakersAreSound /\ OnlyWakeLeaks

(* Dropping all the Wakers at some holders frees what they own.            *)
LEMMA DropWakersIsSound ==
  ASSUME TypeOK, Sound, NEW holders, DropWakers(holders), woken' = woken
  PROVE  Sound'
  <1> DEFINE D == UNION {held[p] : p \in holders \cap Holders}
  <1>1. heap' = heap \ D /\ \A p \in Holders :
          held'[p] = IF p \in holders THEN {} ELSE held[p]
    BY DEF DropWakers
  <1>2. \A b : b \in D <=> \E p \in holders \cap Holders : b \in held[p]
    OBVIOUS
  <1> HIDE DEF D
  <1>3. WakersAreSound'
    BY <1>1, <1>2 DEF WakersAreSound, Sound
  <1>4. ASSUME NEW b PROVE Leaked(b)' <=> b \in woken'
    <2>1. Leaked(b) <=> b \in woken
      BY LeakedIsWoken DEF Sound
    <2>2. Leaked(b)' <=> Leaked(b)
      BY <1>1, <1>2 DEF Leaked, Sound, WakersAreSound
    <2> QED
      BY <2>1, <2>2
  <1>5. OnlyWakeLeaks'
    BY <1>4 DEF OnlyWakeLeaks, Leaked
  <1> QED
    BY <1>3, <1>5 DEF Sound

(* A Waker made on an address that was free.                               *)
LEMMA NewWakerIsSound ==
  ASSUME TypeOK, Sound, NEW q \in Holders, NEW b \in Boxes \ heap,
         heap' = heap \cup {b}, held' = [held EXCEPT ![q] = @ \cup {b}],
         woken' = woken
  PROVE  Sound'
  <1>1. \A p \in Holders :
          held'[p] = IF p = q THEN held[p] \cup {b} ELSE held[p]
    BY DEF TypeOK
  <1>2. WakersAreSound'
    BY <1>1 DEF WakersAreSound, Sound
  <1>3. ASSUME NEW x PROVE Leaked(x)' <=> x \in woken'
    <2>1. Leaked(x) <=> x \in woken
      BY LeakedIsWoken DEF Sound
    <2>2. Leaked(x)' <=> Leaked(x)
      BY <1>1 DEF Leaked, Sound, WakersAreSound
    <2> QED
      BY <2>1, <2>2
  <1>4. OnlyWakeLeaks'
    BY <1>3 DEF OnlyWakeLeaks, Leaked
  <1> QED
    BY <1>2, <1>4 DEF Sound

(* A Waker that leaves its holder: freed, or consumed by wake.             *)
LEMMA WakerLeaves ==
  ASSUME TypeOK, Sound, NEW q \in Holders, NEW b \in held[q],
         held' = [held EXCEPT ![q] = @ \ {b}],
         \/ heap' = heap \ {b} /\ woken' = woken
         \/ heap' = heap /\ woken' = woken \cup {b}
  PROVE  Sound'
  <1>1. \A p \in Holders :
          held'[p] = IF p = q THEN held[p] \ {b} ELSE held[p]
    BY DEF TypeOK
  <1>2. WakersAreSound'
    BY <1>1 DEF WakersAreSound, Sound
  <1>3. ASSUME NEW x PROVE Leaked(x)' <=> x \in woken'
    <2>1. Leaked(x) <=> x \in woken
      BY LeakedIsWoken DEF Sound
    <2>2. CASE x # b
      BY <1>1, <2>1, <2>2 DEF Leaked
    <2>3. CASE x = b
      BY <1>1, <2>1, <2>3 DEF Leaked, Sound, WakersAreSound
    <2> QED
      BY <2>2, <2>3
  <1>4. OnlyWakeLeaks'
    BY <1>3 DEF OnlyWakeLeaks, Leaked
  <1> QED
    BY <1>2, <1>4 DEF Sound

LEMMA SoundIsKept ==
  ASSUME Sound, UNCHANGED <<heap, held, woken>>
  PROVE  Sound'
  BY DEF Sound, WakersAreSound, OnlyWakeLeaks

LEMMA SoundStep ==
  ASSUME TypeOK, Hands, Sound, NEW th \in Threads, ThreadStep(th)
  PROVE  Sound'
  <1>1. ASSUME NEW u \in Tasks, Spawn(th, u) PROVE Sound'
    BY <1>1, SoundIsKept DEF Spawn
  <1>2. ASSUME Push(th) PROVE Sound'
    BY <1>2, SoundIsKept DEF Push, memory
  <1>3. ASSUME Reject(th) PROVE Sound'
    BY <1>3, DropWakersIsSound DEF Reject
  <1>4. ASSUME CallBack(th) PROVE Sound'
    BY <1>4, SoundIsKept DEF CallBack, memory
  <1>5. ASSUME PopTask(th) PROVE Sound'
    <2>1. PICK b \in Boxes \ heap :
            heap' = heap \cup {b} /\ held' = [held EXCEPT ![th] = {b}]
      BY <1>5 DEF PopTask
    <2>2. held[th] = {} /\ th \in Holders
      BY <1>5 DEF PopTask, Hands, Holders
    <2>3. held' = [held EXCEPT ![th] = @ \cup {b}]
      BY <2>1, <2>2 DEF TypeOK
    <2> QED
      BY <1>5, <2>1, <2>2, <2>3, NewWakerIsSound DEF PopTask
  <1>6. ASSUME PollReady(th) PROVE Sound'
    BY <1>6, SoundIsKept DEF PollReady, memory
  <1>7. ASSUME PollPending(th) PROVE Sound'
    BY <1>7, SoundIsKept DEF PollPending, memory
  <1>8. ASSUME Cleanup(th) PROVE Sound'
    BY <1>8, DropWakersIsSound DEF Cleanup
  <1>9. ASSUME NEW p \in Holders, NEW q \in Holders, CloneWaker(th, p, q)
        PROVE  Sound'
    <2>1. PICK b \in Boxes \ heap :
            heap' = heap \cup {b} /\ held' = [held EXCEPT ![q] = @ \cup {b}]
      BY <1>9 DEF CloneWaker
    <2> QED
      BY <1>9, <2>1, NewWakerIsSound DEF CloneWaker
  <1>10. ASSUME NEW b \in Boxes, Wake(th, b) PROVE Sound'
    <2>1. PICK p \in Reach(th) :
            b \in held[p] /\ held' = [held EXCEPT ![p] = @ \ {b}]
      BY <1>10 DEF Wake
    <2>2. p \in Holders
      BY ReachIsNoThread
    <2> QED
      BY <1>10, <2>1, <2>2, WakerLeaves DEF Wake
  <1>11. ASSUME NEW b \in Boxes, DropWaker(th, b) PROVE Sound'
    <2>1. PICK p \in Reach(th) :
            b \in held[p] /\ held' = [held EXCEPT ![p] = @ \ {b}]
      BY <1>11 DEF DropWaker
    <2>2. p \in Holders
      BY ReachIsNoThread
    <2> QED
      BY <1>11, <2>1, <2>2, WakerLeaves DEF DropWaker
  <1>12. ASSUME DropRuntime(th) PROVE Sound'
    BY <1>12, SoundIsKept DEF DropRuntime
  <1> QED
    BY <1>1, <1>2, <1>3, <1>4, <1>5, <1>6, <1>7, <1>8, <1>9, <1>10, <1>11,
       <1>12 DEF ThreadStep

-----------------------------------------------------------------------------
(* The lock, and the shares of the queue.                                  *)

LEMMA LockStep ==
  ASSUME TypeOK, Hands, LockedOnlyToReject, NEW th \in Threads, ThreadStep(th)
  PROVE  LockedOnlyToReject'
  <1> USE MemoryAssumption DEF TypeOK, LockedOnlyToReject, memory, Goto
  <1>1. ASSUME NEW u \in Tasks, Spawn(th, u) PROVE LockedOnlyToReject'
    BY <1>1 DEF Spawn
  <1>2. ASSUME Push(th) PROVE LockedOnlyToReject'
    BY <1>2 DEF Push, HasRoom
  <1>3. ASSUME Reject(th) PROVE LockedOnlyToReject'
    BY <1>3 DEF Reject
  <1>4. ASSUME CallBack(th) PROVE LockedOnlyToReject'
    BY <1>4 DEF CallBack
  <1>5. ASSUME PopTask(th) PROVE LockedOnlyToReject'
    BY <1>5 DEF PopTask, Unlock
  <1>6. ASSUME PollReady(th) PROVE LockedOnlyToReject'
    BY <1>6 DEF PollReady
  <1>7. ASSUME PollPending(th) PROVE LockedOnlyToReject'
    BY <1>7 DEF PollPending
  <1>8. ASSUME Cleanup(th) PROVE LockedOnlyToReject'
    BY <1>8 DEF Cleanup
  <1>9. ASSUME NEW p \in Holders, NEW q \in Holders, CloneWaker(th, p, q)
        PROVE  LockedOnlyToReject'
    BY <1>9 DEF CloneWaker
  <1>10. ASSUME NEW b \in Boxes, Wake(th, b) PROVE LockedOnlyToReject'
    BY <1>10 DEF Wake
  <1>11. ASSUME NEW b \in Boxes, DropWaker(th, b) PROVE LockedOnlyToReject'
    BY <1>11 DEF DropWaker, ReleaseQueue, Hands
  <1>12. ASSUME DropRuntime(th) PROVE LockedOnlyToReject'
    BY <1>12 DEF DropRuntime, ReleaseQueue, Hands
  <1> QED
    BY <1>1, <1>2, <1>3, <1>4, <1>5, <1>6, <1>7, <1>8, <1>9, <1>10, <1>11,
       <1>12 DEF ThreadStep

LEMMA QueueStep ==
  ASSUME TypeOK, Hands, QueueIsOwned, NEW th \in Threads, ThreadStep(th)
  PROVE  QueueIsOwned'
  <1> USE MemoryAssumption DEF TypeOK, Hands, QueueIsOwned, memory, Goto
  <1>1. ASSUME NEW u \in Tasks, Spawn(th, u) PROVE QueueIsOwned'
    BY <1>1 DEF Spawn
  <1>2. ASSUME Push(th) PROVE QueueIsOwned'
    BY <1>2 DEF Push
  <1>3. ASSUME Reject(th) PROVE QueueIsOwned'
    BY <1>3 DEF Reject, DropWakers
  <1>4. ASSUME CallBack(th) PROVE QueueIsOwned'
    BY <1>4 DEF CallBack
  <1>5. ASSUME PopTask(th) PROVE QueueIsOwned'
    BY <1>5 DEF PopTask
  <1>6. ASSUME PollReady(th) PROVE QueueIsOwned'
    BY <1>6 DEF PollReady
  <1>7. ASSUME PollPending(th) PROVE QueueIsOwned'
    BY <1>7 DEF PollPending
  <1>8. ASSUME Cleanup(th) PROVE QueueIsOwned'
    BY <1>8 DEF Cleanup, DropWakers
  <1>9. ASSUME NEW p \in Holders, NEW q \in Holders, CloneWaker(th, p, q)
        PROVE  QueueIsOwned'
    BY <1>9 DEF CloneWaker
  <1>10. ASSUME NEW b \in Boxes, Wake(th, b) PROVE QueueIsOwned'
    BY <1>10 DEF Wake
  <1>11. ASSUME NEW b \in Boxes, DropWaker(th, b) PROVE QueueIsOwned'
    BY <1>11 DEF DropWaker, ReleaseQueue
  <1>12. ASSUME DropRuntime(th) PROVE QueueIsOwned'
    BY <1>12 DEF DropRuntime, ReleaseQueue
  <1> QED
    BY <1>1, <1>2, <1>3, <1>4, <1>5, <1>6, <1>7, <1>8, <1>9, <1>10, <1>11,
       <1>12 DEF ThreadStep

-----------------------------------------------------------------------------
(* What a dead task owns.                                                  *)

LEMMA DeadStep ==
  ASSUME MInv, NEW th \in Threads, ThreadStep(th), Sound'
  PROVE  DeadOwnNothing'
  <1> USE MemoryAssumption
          DEF MInv, TypeOK, Hands, DeadOwnNothing, Alive, memory, Goto
  <1>1. ASSUME NEW u \in Tasks, Spawn(th, u) PROVE DeadOwnNothing'
    BY <1>1 DEF Spawn
  <1>2. ASSUME Push(th) PROVE DeadOwnNothing'
    <2>1. arg[th] \in Tasks
      BY <1>2 DEF Push
    <2>2. ToSet(Append(queue, arg[th])) = ToSet(queue) \cup {arg[th]}
      BY <2>1, AppendLemma
    <2>3. ASSUME NEW u \in Tasks, Alive(u) PROVE Alive(u)'
      <3>1. CASE HasRoom
        <4>1. ToSet(queue') = ToSet(queue) \cup {arg[th]} /\ hand' = hand
          BY <1>2, <2>2, <3>1 DEF Push
        <4>2. \A t \in Threads : t # th => arg'[t] = arg[t]
          BY <1>2, <3>1 DEF Push
        <4> QED
          BY <2>3, <4>1, <4>2
      <3>2. CASE ~HasRoom
        BY <1>2, <2>3, <3>2 DEF Push
      <3> QED
        BY <3>1, <3>2
    <2> QED
      BY <1>2, <2>3 DEF Push
  <1>3. ASSUME Reject(th) PROVE DeadOwnNothing'
    <2>1. arg[th] \in Tasks /\ arg[th] \notin owners
      BY <1>3 DEF Reject
    <2>2. ASSUME NEW u \in Tasks, u # arg[th], Alive(u) PROVE Alive(u)'
      BY <1>3, <2>2 DEF Reject
    <2> QED
      BY <1>3, <2>1, <2>2 DEF Reject, DropWakers, Holders
  <1>4. ASSUME CallBack(th) PROVE DeadOwnNothing'
    BY <1>4 DEF CallBack
  <1>5. ASSUME PopTask(th) PROVE DeadOwnNothing'
    <2>1. ToSet(queue) = {Head(queue)} \cup ToSet(Tail(queue))
      BY <1>5, TailLemma DEF PopTask
    <2>2. ASSUME NEW u \in Tasks, Alive(u) PROVE Alive(u)'
      BY <1>5, <2>1, <2>2 DEF PopTask
    <2>3. \A u \in Tasks : held'[u] = held[u]
      BY <1>5 DEF PopTask
    <2> QED
      BY <1>5, <2>2, <2>3 DEF PopTask
  <1>6. ASSUME PollReady(th) PROVE DeadOwnNothing'
    BY <1>6 DEF PollReady
  <1>7. ASSUME PollPending(th) PROVE DeadOwnNothing'
    BY <1>7 DEF PollPending
  <1>8. ASSUME Cleanup(th) PROVE DeadOwnNothing'
    BY <1>8 DEF Cleanup, DropWakers, Holders
  <1>9. ASSUME NEW p \in Holders, NEW q \in Holders, CloneWaker(th, p, q)
        PROVE  DeadOwnNothing'
    <2>1. q \in Tasks => Alive(q)'
      BY <1>9 DEF CloneWaker, Reach
    <2>2. \A u \in Tasks : u # q => held'[u] = held[u]
      BY <1>9 DEF CloneWaker
    <2> QED
      BY <1>9, <2>1, <2>2 DEF CloneWaker
  <1>10. ASSUME NEW b \in Boxes, Wake(th, b) PROVE DeadOwnNothing'
    BY <1>10 DEF Wake
  <1>11. ASSUME NEW b \in Boxes, DropWaker(th, b) PROVE DeadOwnNothing'
    BY <1>11 DEF DropWaker, ReleaseQueue, Sound, WakersAreSound, Holders
  <1>12. ASSUME DropRuntime(th) PROVE DeadOwnNothing'
    BY <1>12 DEF DropRuntime, ReleaseQueue, Sound, WakersAreSound, Holders
  <1> QED
    BY <1>1, <1>2, <1>3, <1>4, <1>5, <1>6, <1>7, <1>8, <1>9, <1>10, <1>11,
       <1>12 DEF ThreadStep

-----------------------------------------------------------------------------
(* MInv is inductive.                                                      *)

LEMMA NextMemory == MInv /\ [Next]_vars => MInv'
  <1> SUFFICES ASSUME MInv, [Next]_vars PROVE MInv'
    OBVIOUS
  <1>1. CASE UNCHANGED vars
    BY <1>1 DEF MInv, TypeOK, Hands, WakersAreSound, OnlyWakeLeaks,
       DeadOwnNothing, Alive, QueueIsOwned, LockedOnlyToReject, vars, memory
  <1>2. ASSUME NEW th \in Threads, ThreadStep(th) PROVE MInv'
    <2>1. TypeOK' /\ Hands' /\ QueueIsOwned' /\ LockedOnlyToReject'
      BY <1>2, TypesStep, HandsStep, QueueStep, LockStep DEF MInv
    <2>2. Sound'
      BY <1>2, SoundStep DEF MInv, Sound
    <2>3. DeadOwnNothing'
      BY <1>2, <2>2, DeadStep
    <2> QED
      BY <2>1, <2>2, <2>3 DEF MInv, Sound
  <1> QED
    BY <1>1, <1>2 DEF Next

LEMMA AlwaysMemory == Spec => []MInv
  BY InitMemory, NextMemory, PTL DEF Spec

(* Every variable stays in its range.                                      *)
THEOREM TypeCorrect == Spec => []TypeOK
  <1>1. MInv => TypeOK
    BY DEF MInv
  <1> QED
    BY <1>1, AlwaysMemory, PTL

(* No WakerData is freed while a Waker points at it, or freed twice.       *)
THEOREM WakersStaySound == Spec => []WakersAreSound
  <1>1. MInv => WakersAreSound
    BY DEF MInv
  <1> QED
    BY <1>1, AlwaysMemory, PTL

(* Exactly the Wakers that were given to wake are leaked.                  *)
THEOREM WakeLeaks == Spec => []OnlyWakeLeaks
  <1>1. MInv => OnlyWakeLeaks
    BY DEF MInv
  <1> QED
    BY <1>1, AlwaysMemory, PTL

(* A destroyed task has given up its wakers and its clone of the Runtime.  *)
THEOREM DeadTasksOwnNothing == Spec => []DeadOwnNothing
  <1>1. MInv => DeadOwnNothing
    BY DEF MInv
  <1> QED
    BY <1>1, AlwaysMemory, PTL

(* The lock of the queue is held only to destroy what was rejected.        *)
THEOREM LockIsShort == Spec => []LockedOnlyToReject
  <1>1. MInv => LockedOnlyToReject
    BY DEF MInv
  <1> QED
    BY <1>1, AlwaysMemory, PTL

(* Tasks outlive the executor only in the hands of a waker.                *)
THEOREM WakersKeepLeftovers == Spec => []LeftoversNeedWaker
  <1>1. ASSUME MInv, owners = {}, queue # <<>>
        PROVE  \/ woken # {} \/ held[Outside] # {}
               \/ \E u \in ToSet(queue) : held[u] # {}
    <2>1. PICK b : b \in heap
      BY <1>1 DEF MInv, QueueIsOwned
    <2>2. \A th \in Threads :
            hand[th] = NoTask /\ arg[th] = NoTask /\ held[th] = {}
      BY <1>1 DEF MInv, Hands
    <2>3. CASE \A p \in Holders : b \notin held[p]
      BY <1>1, <2>1, <2>3 DEF MInv, OnlyWakeLeaks
    <2>4. ASSUME NEW u \in Tasks, b \in held[u] PROVE u \in ToSet(queue)
      BY <1>1, <2>2, <2>4, MemoryAssumption DEF MInv, DeadOwnNothing, Alive
    <2> QED
      BY <2>2, <2>3, <2>4 DEF Holders
  <1>2. MInv => LeftoversNeedWaker
    BY <1>1 DEF LeftoversNeedWaker
  <1> QED
    BY <1>2, AlwaysMemory, PTL
=============================================================================
