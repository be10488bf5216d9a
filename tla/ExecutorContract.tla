-------------------------- MODULE ExecutorContract --------------------------
(***************************************************************************)
(* The std executor implements TaskContract: the proof, for every program, *)
(* every number of threads and every size of the batches.                  *)
(*                                                                         *)
(* The first part classifies the steps by what they do to the channels,    *)
(* the modes and the stacks, the three things the mapping looks at.  The   *)
(* second shows the invariant each kind of step keeps, and the third that  *)
(* each kind of step is a step of the contract, or none.                   *)
(***************************************************************************)
EXTENDS ExecutorBooks

-----------------------------------------------------------------------------
(* What the mapping needs to know of the executor.                         *)

(* A user's thread has its own code at the bottom of its stack, and that   *)
(* code is nowhere else.                                                   *)
CallersHome ==
  /\ \A th \in Callers : stack[th] # <<>> => Head(stack[th]) = th
  /\ \A th \in Threads, c \in Callers : Polled(th, c) => th = c

(* What lies under another poll is in block_on.                            *)
BlockedBelow ==
  \A th \in Threads, x \in Code :
    Polled(th, x) /\ x # Last(stack[th]) => mode[x] = "blocked"

(* A channel is filled when its task sends, closed when it is destroyed.   *)
ChannelsFollow ==
  \A u \in Tasks :
    /\ chan[u] \in {"value", "received"} <=> mode[u] \in {"ready", "done"}
    /\ chan[u] = "closed" <=> mode[u] = "dropped"

(* A task that waits in a queue is at an operation of its script.          *)
QueuedInCode ==
  \A u \in Tasks :
    mode[u] \in {"blocked", "pending", "finished", "ready"}
      => \E th \in Threads : Polled(th, u)

(* A thread that unwinds, or is inside the drop, has sent no result for    *)
(* the task it is in: the task can still be destroyed.                     *)
StopsUnsent ==
  \A th \in unwinding \cup joining :
    stack[th] # <<>> /\ Last(stack[th]) \in Tasks
      => mode[Last(stack[th])] # "ready"

(* A worker leaves its loop, and the drop begins, only after a fault.      *)
FaultsFirst ==
  /\ joining # {} => shutdown
  /\ \A w \in Workers : pc[w] \in {"leaving", "released", "exited"}
                          => shutdown \/ w \in unwinding

StackInv == CallersHome /\ BlockedBelow

LifeInv == ChannelsFollow /\ QueuedInCode

CInv == BInv /\ StackInv /\ LifeInv /\ StopsUnsent /\ FaultsFirst

-----------------------------------------------------------------------------
(* The kinds of steps.                                                     *)

Quiet == UNCHANGED <<chan, mode, stack>> /\ (faultedBar => faultedBar')

(* A task is spawned, by code that may go on to wait for it.               *)
Spawns(th, c, u) ==
  /\ Running(th, c) /\ mode[c] = "code"
  /\ chan[u] = "none" /\ chan' = [chan EXCEPT ![u] = "open"]
  /\ mode' \in {mode, [mode EXCEPT ![c] = "blocked"]}
  /\ UNCHANGED stack /\ (faultedBar' <=> faultedBar)

(* Code stops at an operation, or at its end.                              *)
Stops(th, c, m) ==
  /\ Running(th, c) /\ mode[c] = "code"
  /\ m \in {"pending", "finished"} \/ (m = "ready" /\ c \in Callers)
  /\ mode' = [mode EXCEPT ![c] = m]
  /\ UNCHANGED <<chan, stack>> /\ (faultedBar => faultedBar')

(* A result is taken out of its channel.                                   *)
Takes(th, c, v) ==
  /\ Running(th, c) /\ mode[c] \in {"code", "blocked"}
  /\ chan[v] = "value" /\ chan' = [chan EXCEPT ![v] = "received"]
  /\ mode' = [mode EXCEPT ![c] = "code"]
  /\ UNCHANGED stack /\ (faultedBar' <=> faultedBar)

Sends(th, c) ==
  /\ Running(th, c) /\ mode[c] = "finished"
  /\ chan' = [chan EXCEPT ![c] = "value"]
  /\ mode' = [mode EXCEPT ![c] = "ready"]
  /\ UNCHANGED stack /\ (faultedBar' <=> faultedBar)

(* A task that waited in a queue or a deque is polled.                     *)
Polls(th, u) ==
  /\ InFlight(u) /\ \A t \in Threads : ~Polled(t, u)
  /\ stack[th] # <<>> => mode[Last(stack[th])] = "blocked"
  /\ th \in Callers => stack[th] # <<>>
  /\ Poll(th, u)
  /\ UNCHANGED <<chan, mode>> /\ (faultedBar' <=> faultedBar)

(* A poll ends.                                                            *)
Returns(th, c, m) ==
  /\ Running(th, c) /\ Return(th)
  /\ \/ mode[c] = "ready" /\ m = "done"
     \/ mode[c] = "pending" /\ m = "code"
  /\ mode' = [mode EXCEPT ![c] = m]
  /\ UNCHANGED chan /\ (faultedBar' <=> faultedBar)

(* Tasks are destroyed in the queues they wait in.                         *)
Discards(S) ==
  /\ \A u \in S : u \in Tasks /\ InFlight(u) /\ \A t \in Threads : ~Polled(t, u)
  /\ Destroy(S)
  /\ UNCHANGED stack /\ faultedBar /\ faultedBar'

(* A poll ends in a panic.                                                 *)
Unwinds(th, c) ==
  /\ th \in unwinding /\ stack[th] # <<>> /\ c = Last(stack[th])
  /\ Return(th) /\ Destroy({c})
  /\ faultedBar /\ faultedBar'

Kinds ==
  \/ Quiet
  \/ \E th \in Threads, c \in Code :
       \/ \E u \in Tasks : Spawns(th, c, u)
       \/ \E m \in Modes : Stops(th, c, m) \/ Returns(th, c, m)
       \/ \E v : Takes(th, c, v)
       \/ Sends(th, c)
       \/ Unwinds(th, c)
  \/ \E th \in Threads, u \in Tasks : Polls(th, u)
  \/ \E S : Discards(S)

(* Faults are not forgotten.                                               *)
LEMMA DropRuntimeFault ==
  ASSUME NEW th, NEW S, DropRuntime(th, S), UNCHANGED unwinding
  PROVE  faultedBar => faultedBar'
  BY DEF DropRuntime, LastOwners, faultedBar

(* The steps of a piece of code.                                           *)
LEMMA CodeStepKind ==
  ASSUME CInv, NEW th \in Threads, NEW c \in Code, CodeStep(th, c)
  PROVE  Kinds
  <1> USE DEF dropVars, panicVars, userVars, faultedBar, Modes
  <1>1. CASE DoSpawn(th, c)
    <2>1. Operand(c) \in Tasks
      BY <1>1, OperandIsTask DEF DoSpawn, AtOp, CInv, BInv, TInv
    <2>2. Spawns(th, c, Operand(c))
      BY <1>1 DEF DoSpawn, SpawnTask, AtOp, Owns, Spawns
    <2> QED
      BY <2>1, <2>2 DEF Kinds
  <1>2. CASE DoBlockOn(th, c)
    <2>1. Operand(c) \in Tasks
      BY <1>2, OperandIsTask DEF DoBlockOn, AtOp, CInv, BInv, TInv
    <2>2. Spawns(th, c, Operand(c))
      BY <1>2 DEF DoBlockOn, SpawnTask, AtOp, Owns, Spawns
    <2> QED
      BY <2>1, <2>2 DEF Kinds
  <1>3. CASE DoAwait(th, c)
    <2>1. CASE Answers(Operand(c))
      <3>1. /\ chan' = [chan EXCEPT ![Operand(c)] = "received"]
            /\ UNCHANGED mode
        BY <1>3, <2>1 DEF DoAwait
      <3>2. mode[c] = "code" /\ mode' = [mode EXCEPT ![c] = "code"]
        BY <1>3, <3>1 DEF DoAwait, AtOp, CInv, BInv, TInv, TypeOK
      <3>3. Takes(th, c, Operand(c))
        BY <1>3, <2>1, <3>1, <3>2 DEF DoAwait, AtOp, Answers, Takes
      <3> QED
        BY <3>3 DEF Kinds
    <2>2. CASE ~Answers(Operand(c))
      <3>1. Stops(th, c, "pending")
        BY <1>3, <2>2 DEF DoAwait, AtOp, Stops
      <3> QED
        BY <3>1 DEF Kinds
    <2> QED
      BY <2>1, <2>2
  <1>4. CASE DoYield(th, c)
    <2>1. Stops(th, c, "pending")
      BY <1>4 DEF DoYield, Wake, AtOp, Stops
    <2> QED
      BY <2>1 DEF Kinds
  <1>5. CASE DoPanic(th, c)
    BY <1>5 DEF DoPanic, Kinds, Quiet
  <1>6. CASE DoRun(th, c)
    BY <1>6 DEF DoRun, Kinds, Quiet
  <1>7. CASE Finish(th, c)
    <2> DEFINE m == IF c \in Tasks THEN "finished" ELSE "ready"
    <2>1. DropRuntime(th, {c}) /\ UNCHANGED unwinding
      BY <1>7 DEF Finish
    <2>2. faultedBar => faultedBar'
      BY <2>1, DropRuntimeFault
    <2>3. Stops(th, c, m)
      <3>1. m \in {"pending", "finished"} \/ (m = "ready" /\ c \in Callers)
        BY DEF Code
      <3>2. Running(th, c) /\ mode[c] = "code" /\ UNCHANGED <<chan, stack>>
        BY <1>7 DEF Finish
      <3>3. mode' = [mode EXCEPT ![c] = m]
        BY <1>7 DEF Finish
      <3> HIDE DEF m, faultedBar
      <3> QED
        BY <2>2, <3>1, <3>2, <3>3 DEF Stops
    <2>4. m \in Modes
      OBVIOUS
    <2> QED
      BY <2>3, <2>4 DEF Kinds
  <1>8. CASE Send(th, c)
    <2>1. Sends(th, c)
      BY <1>8 DEF Send, Sends
    <2> QED
      BY <2>1 DEF Kinds
  <1>9. CASE ReturnReady(th, c)
    <2>1. Returns(th, c, "done")
      BY <1>9 DEF ReturnReady, Returns
    <2> QED
      BY <2>1 DEF Kinds
  <1>10. CASE ReturnPending(th, c)
    <2>1. Returns(th, c, "code")
      BY <1>10 DEF ReturnPending, Returns
    <2> QED
      BY <2>1 DEF Kinds
  <1> QED
    BY <1>1, <1>2, <1>3, <1>4, <1>5, <1>6, <1>7, <1>8, <1>9, <1>10 DEF CodeStep

(* A task in a queue or a deque is not polled by anybody.                  *)
LEMMA WaitingIsApart ==
  ASSUME BInv, NEW u \in Tasks, Queued(u) \/ \E w \in Workers : InDeque(w, u)
  PROVE  InFlight(u) /\ \A t \in Threads : ~Polled(t, u)
  BY Apart DEF BInv, Books, NothingMislaid

(* The head of a queue.                                                    *)
LEMMA HeadWaits ==
  ASSUME BInv
  PROVE  /\ globalQ # <<>> => Head(globalQ) \in Tasks /\ Queued(Head(globalQ))
         /\ \A w \in Workers : localQ[w] # <<>> =>
              Head(localQ[w]) \in Tasks /\ InDeque(w, Head(localQ[w]))
  BY QueueFacts, TailLemma DEF Queued, InDeque

(* The steps of the loop of block_on.                                      *)
LEMMA BlockOnStepKind ==
  ASSUME CInv, NEW th \in Threads, NEW c \in Code, BlockOnStep(th, c)
  PROVE  Kinds
  <1> USE DEF dropVars, panicVars, userVars, faultedBar, Modes
  <1>1. CASE RecvOk(th, c)
    <2>1. Takes(th, c, Operand(c))
      BY <1>1 DEF RecvOk, Looking, Answers, Takes
    <2> QED
      BY <2>1 DEF Kinds
  <1>2. CASE \/ RecvEmpty(th, c) \/ RecvDisconnected(th, c)
             \/ HelpEmpty(th, c) \/ HelpRetry(th, c)
    BY <1>2 DEF RecvEmpty, RecvDisconnected, HelpEmpty, HelpRetry, Kinds, Quiet
  <1>3. CASE HelpSteal(th, c)
    <2> DEFINE u == Head(globalQ)
    <2>1. /\ u \in Tasks /\ InFlight(u) /\ \A t \in Threads : ~Polled(t, u)
      BY <1>3, HeadWaits, WaitingIsApart DEF HelpSteal, CInv
    <2>2. /\ Poll(th, u) /\ UNCHANGED <<chan, mode>> /\ (faultedBar' <=> faultedBar)
          /\ stack[th] # <<>> /\ mode[Last(stack[th])] = "blocked"
      BY <1>3 DEF HelpSteal, Helping, Running
    <2> HIDE DEF u, faultedBar
    <2>3. Polls(th, u)
      BY <2>1, <2>2 DEF Polls
    <2> QED
      BY <2>1, <2>3 DEF Kinds
  <1> QED
    BY <1>1, <1>2, <1>3 DEF BlockOnStep

(* The steps of a worker.                                                  *)
LEMMA WorkerStepKind ==
  ASSUME CInv, NEW w \in Workers, WorkerStep(w)
  PROVE  Kinds
  <1> USE DEF dropVars, panicVars, userVars, faultedBar
  <1>1. w \in Threads /\ w \notin Callers
    BY ExecutorAssumption DEF Threads
  <1>2. ASSUME NEW u \in Tasks, Queued(u) \/ \E v \in Workers : InDeque(v, u),
               stack[w] = <<>>, Poll(w, u),
               UNCHANGED <<chan, mode, shutdown, unwinding>>
        PROVE  Kinds
    <2>1. Polls(w, u)
      BY <1>1, <1>2, WaitingIsApart DEF Polls, CInv
    <2> QED
      BY <1>1, <2>1 DEF Kinds
  <1>3. CASE PopLocal(w)
    BY <1>2, <1>3, HeadWaits DEF PopLocal, AtPlace, CInv
  <1>4. CASE StealBatch(w)
    BY <1>2, <1>4, HeadWaits DEF StealBatch, AtPlace, CInv
  <1>5. CASE StealOne(w)
    BY <1>2, <1>5, HeadWaits DEF StealOne, AtPlace, CInv
  <1>6. PeerAt(w) \in Workers
    BY PeerIsWorker DEF CInv, BInv, TInv
  <1>7. CASE StealPeer(w)
    BY <1>2, <1>6, <1>7, HeadWaits DEF StealPeer, AtPeer, AtPlace, CInv
  <1>8. CASE StealPeerOne(w)
    BY <1>2, <1>6, <1>8, HeadWaits DEF StealPeerOne, AtPeer, AtPlace, CInv
  <1>9. CASE Leave(w)
    <2>1. PICK S : /\ Destroy(S) /\ DropRuntime(w, S) /\ UNCHANGED <<stack, unwinding>>
                   /\ S \subseteq (UNION {ToSet(localQ[j]) : j \in Workers})
                                    \cup ToSet(globalQ)
      BY <1>9 DEF Leave
    <2>2. \A u \in S : u \in Tasks /\ (Queued(u) \/ \E j \in Workers : InDeque(j, u))
      <3>1. /\ ToSet(globalQ) \subseteq Tasks
            /\ \A j \in Workers : ToSet(localQ[j]) \subseteq Tasks
        BY QueueFacts, MembersLemma DEF CInv
      <3> QED
        BY <2>1, <3>1 DEF Queued, InDeque
    <2>3. \A u \in S : InFlight(u) /\ \A t \in Threads : ~Polled(t, u)
      BY <2>2, WaitingIsApart DEF CInv
    <2>4. faultedBar
      BY <1>9 DEF Leave, CInv, FaultsFirst
    <2>5. faultedBar'
      BY <2>1, <2>4, DropRuntimeFault
    <2>6. Discards(S)
      BY <2>1, <2>2, <2>3, <2>4, <2>5 DEF Discards
    <2> QED
      BY <2>6 DEF Kinds
  <1>10. CASE \/ CheckShutdown(w) \/ LocalEmpty(w) \/ GlobalRetry(w)
              \/ GlobalMissed(w) \/ PeerRetry(w) \/ NextPeer(w)
              \/ NoWork(w) \/ Exit(w)
    BY <1>10
       DEF CheckShutdown, LocalEmpty, GlobalRetry, GlobalMissed, PeerRetry,
           NextPeer, NoWork, Exit, Kinds, Quiet
  <1> QED
    BY <1>3, <1>4, <1>5, <1>7, <1>8, <1>9, <1>10 DEF WorkerStep

(* A panic unwinds a frame, or the drop of the executor goes on.           *)
LEMMA EndStepKind ==
  ASSUME CInv, NEW th \in Threads,
         Unwind(th) \/ JoinNext(th) \/ JoinSelf(th) \/ DropDone(th)
  PROVE  Kinds
  <1> USE DEF dropVars, panicVars, userVars, faultedBar
  <1>1. CASE Unwind(th)
    <2> DEFINE c == Last(stack[th])
    <2>1. c \in Code
      BY <1>1, ReturnFacts DEF Unwind, CInv
    <2>2. faultedBar /\ faultedBar'
      BY <1>1 DEF Unwind
    <2>3. Unwinds(th, c)
      BY <1>1, <2>2 DEF Unwind, Unwinds
    <2> QED
      BY <2>1, <2>3 DEF Kinds
  <1>2. CASE JoinNext(th) \/ JoinSelf(th)
    BY <1>2 DEF JoinNext, JoinSelf, Kinds, Quiet
  <1>3. CASE DropDone(th)
    <2>1. ToSet(globalQ) \subseteq Tasks
      BY QueueFacts, MembersLemma DEF CInv
    <2>2. \A u \in ToSet(globalQ) : /\ u \in Tasks /\ InFlight(u)
                                    /\ \A t \in Threads : ~Polled(t, u)
      BY <2>1, WaitingIsApart DEF CInv, Queued
    <2>3. shutdown /\ shutdown'
      BY <1>3 DEF DropDone, CInv, FaultsFirst
    <2>4. Discards(ToSet(globalQ))
      BY <1>3, <2>2, <2>3 DEF DropDone, Discards
    <2> QED
      BY <2>4 DEF Kinds
  <1> QED
    BY <1>1, <1>2, <1>3

(* Every step is of one of these kinds.                                    *)
LEMMA NextKind ==
  ASSUME CInv, [Next]_vars
  PROVE  Kinds
  <1>1. CASE UNCHANGED vars
    BY <1>1 DEF vars, userVars, dropVars, panicVars, Kinds, Quiet, faultedBar
  <1>2. ASSUME NEW th \in Threads, ThreadStep(th)
        PROVE  Kinds
    BY <1>2, CodeStepKind, BlockOnStepKind, WorkerStepKind, EndStepKind
       DEF ThreadStep
  <1>3. ASSUME NEW w \in Workers, JoinSelf(w)
        PROVE  Kinds
    BY <1>3, EndStepKind DEF Threads
  <1> QED
    BY <1>1, <1>2, <1>3 DEF Next

-----------------------------------------------------------------------------
(* The stacks.                                                             *)

(* No piece of code is polled by two threads.                              *)
LEMMA Alone ==
  ASSUME BInv, CallersHome, NEW x \in Code, NEW s \in Threads, NEW t \in Threads,
         Polled(s, x), Polled(t, x)
  PROVE  s = t
  BY Apart DEF CallersHome, Code

(* The top and the bottom of a stack on which a poll begins.               *)
LEMMA PollEnds ==
  ASSUME BInv, NEW th \in Threads, NEW u \in Tasks, Poll(th, u)
  PROVE  /\ Last(stack'[th]) = u /\ stack'[th] # <<>>
         /\ Head(stack'[th]) = IF stack[th] = <<>> THEN u ELSE Head(stack[th])
  <1> DEFINE s == stack[th]
             t == Append(s, u)
  <1>1. stack'[th] = t /\ s \in Seq(Code) /\ u \in Code
    BY DEF Poll, BInv, TInv, TypeOK, Code
  <1> HIDE DEF s
  <1>2. t \in Seq(Code) /\ Len(t) = Len(s) + 1 /\ t[Len(t)] = u /\ t # <<>>
    BY <1>1
  <1>3. Last(t) = u
    BY <1>2, FramesLemma
  <1>4. s # <<>> => Len(s) > 0 /\ t[1] = s[1]
    BY <1>1
  <1>5. s = <<>> => t[1] = u
    BY <1>1
  <1> QED
    BY <1>1, <1>2, <1>3, <1>4, <1>5 DEF s

(* The bottom of a stack from which a poll goes.                           *)
LEMMA ReturnBottom ==
  ASSUME BInv, NEW th \in Threads, stack[th] # <<>>, Return(th), stack'[th] # <<>>
  PROVE  Head(stack'[th]) = Head(stack[th]) /\ Head(stack[th]) # Last(stack[th])
  <1> DEFINE s == stack[th]
             t == Front(s)
  <1>1. stack'[th] = t /\ s \in Seq(Code) /\ s # <<>> /\ IsInjective(s)
    BY QueueFacts DEF Return, BInv, TInv, TypeOK
  <1> HIDE DEF s
  <1>2. /\ t \in Seq(Code) /\ t # <<>> /\ Len(t) = Len(s) - 1 /\ Len(s) \in Nat
        /\ \A i \in 1 .. Len(s) - 1 : t[i] = s[i]
        /\ Last(s) = s[Len(s)]
    BY <1>1, FramesLemma
  <1>3. Len(t) > 0 /\ Len(t) \in Nat
    BY <1>2, FramesLemma
  <1>4. 1 \in 1 .. Len(s) - 1 /\ 1 \in 1 .. Len(s) /\ Len(s) \in 1 .. Len(s) /\ Len(s) # 1
    BY <1>2, <1>3
  <1>5. t[1] = s[1] /\ s[1] # s[Len(s)]
    BY <1>1, <1>2, <1>4, DistinctLemma
  <1>6. Head(t) = t[1] /\ Head(s) = s[1]
    BY <1>1, <1>2
  <1> QED
    BY <1>1, <1>2, <1>5, <1>6 DEF s

(* The code that runs is on top of one stack, and on no other.             *)
LEMMA TopFacts ==
  ASSUME CInv, NEW th \in Threads, NEW c \in Code, Running(th, c)
  PROVE  /\ stack[th] # <<>> /\ c = Last(stack[th]) /\ Polled(th, c)
         /\ \A t \in Threads : Polled(t, c) => t = th
         /\ c \in Tasks => InFlight(c)
  BY RunningIsPolled, Alone DEF CInv, StackInv, InFlight

(* The mode of what lies under another poll does not change while the code *)
(* that runs changes its own.                                              *)
LEMMA TopChanges ==
  ASSUME CInv, NEW th \in Threads, NEW c \in Code, Running(th, c), NEW m,
         mode' = [mode EXCEPT ![c] = m], UNCHANGED stack
  PROVE  StackInv'
  <1>1. \A x \in Code : x # c => mode'[x] = mode[x]
    BY DEF CInv, BInv, TInv, TypeOK
  <1>2. \A t \in Threads, x \in Code :
          Polled(t, x) /\ x # Last(stack[t]) => x # c
    BY TopFacts
  <1>3. BlockedBelow'
    BY <1>1, <1>2 DEF CInv, StackInv, BlockedBelow, Polled
  <1>4. CallersHome'
    BY DEF CInv, StackInv, CallersHome, Polled
  <1> QED
    BY <1>3, <1>4 DEF StackInv

(* A poll begins.                                                          *)
LEMMA PollStack ==
  ASSUME CInv, NEW th \in Threads, NEW u \in Tasks, Polls(th, u)
  PROVE  StackInv'
  <1>1. /\ ToSet(stack'[th]) = ToSet(stack[th]) \cup {u}
        /\ \A t \in Threads \ {th} : stack'[t] = stack[t]
    BY PollFacts DEF CInv, Polls
  <1>2. /\ Last(stack'[th]) = u /\ stack'[th] # <<>>
        /\ Head(stack'[th]) = IF stack[th] = <<>> THEN u ELSE Head(stack[th])
    BY PollEnds DEF CInv, Polls
  <1>3. u \notin Callers
    BY ExecutorAssumption
  <1>4. CallersHome'
    <2>1. \A t \in Callers : stack'[t] # <<>> => Head(stack'[t]) = t
      BY <1>1, <1>2 DEF CInv, StackInv, CallersHome, Polls, Threads
    <2>2. \A t \in Threads, c \in Callers : Polled(t, c)' => t = c
      BY <1>1, <1>3 DEF CInv, StackInv, CallersHome, Polled
    <2> QED
      BY <2>1, <2>2 DEF CallersHome
  <1>5. BlockedBelow'
    <2>1. \A x \in Code : Polled(th, x) => mode[x] = "blocked"
      <3>1. stack[th] = <<>> => \A x : ~Polled(th, x)
        BY EmptyLemma DEF Polled
      <3> QED
        BY <3>1 DEF CInv, StackInv, BlockedBelow, Polls
    <2> QED
      BY <1>1, <1>2, <2>1 DEF CInv, StackInv, BlockedBelow, Polls, Polled
  <1> QED
    BY <1>4, <1>5 DEF StackInv

(* A poll ends, whatever becomes of its task.                              *)
LEMMA ReturnStack ==
  ASSUME CInv, NEW th \in Threads, NEW c \in Code, stack[th] # <<>>,
         c = Last(stack[th]), Return(th),
         \A x \in Code : x # c => mode'[x] = mode[x]
  PROVE  StackInv'
  <1>1. /\ ToSet(stack[th]) = {c} \cup ToSet(stack'[th])
        /\ c \notin ToSet(stack'[th])
        /\ \A t \in Threads \ {th} : stack'[t] = stack[t]
    BY ReturnFacts DEF CInv
  <1>2. Polled(th, c) /\ \A t \in Threads : Polled(t, c) => t = th
    BY <1>1, Alone DEF CInv, StackInv, Polled
  <1>3. stack'[th] # <<>> => Head(stack'[th]) = Head(stack[th])
    BY ReturnBottom DEF CInv
  <1>4. CallersHome'
    <2>1. \A t \in Callers : stack'[t] # <<>> => Head(stack'[t]) = t
      <3> SUFFICES ASSUME NEW t \in Callers, stack'[t] # <<>>
                   PROVE  Head(stack'[t]) = t
        OBVIOUS
      <3>1. CASE t = th
        BY <1>3, <3>1 DEF CInv, StackInv, CallersHome
      <3>2. CASE t # th
        BY <1>1, <3>2 DEF CInv, StackInv, CallersHome, Threads
      <3> QED
        BY <3>1, <3>2
    <2>2. \A t \in Threads, x \in Callers : Polled(t, x)' => t = x
      BY <1>1 DEF CInv, StackInv, CallersHome, Polled
    <2> QED
      BY <2>1, <2>2 DEF CallersHome
  <1>5. BlockedBelow'
    <2>1. \A t \in Threads, x \in Code : Polled(t, x)' => Polled(t, x) /\ x # c
      BY <1>1, <1>2 DEF Polled
    <2>2. \A x \in Code : Polled(th, x)' => mode[x] = "blocked"
      BY <1>1, <2>1 DEF CInv, StackInv, BlockedBelow, Polled
    <2> QED
      BY <1>1, <2>1, <2>2 DEF CInv, StackInv, BlockedBelow
  <1> QED
    BY <1>4, <1>5 DEF StackInv

(* Tasks that nobody polls are destroyed.                                  *)
LEMMA DiscardStack ==
  ASSUME CInv, NEW S, Discards(S)
  PROVE  StackInv'
  <1>1. \A x \in Code : mode'[x] = IF x \in S THEN "dropped" ELSE mode[x]
    BY DEF Discards, Destroy
  <1> QED
    BY <1>1 DEF Discards, CInv, StackInv, CallersHome, BlockedBelow, Polled

(* The stacks stay in order.                                               *)
LEMMA NextStack ==
  ASSUME CInv, Kinds
  PROVE  StackInv'
  <1>1. CASE Quiet
    BY <1>1 DEF Quiet, CInv, StackInv, CallersHome, BlockedBelow, Polled
  <1>2. ASSUME NEW th \in Threads, NEW c \in Code, NEW u \in Tasks, Spawns(th, c, u)
        PROVE  StackInv'
    <2>1. CASE mode' = mode
      BY <1>2, <2>1
         DEF Spawns, CInv, StackInv, CallersHome, BlockedBelow, Polled
    <2>2. CASE mode' = [mode EXCEPT ![c] = "blocked"]
      BY <1>2, <2>2, TopChanges DEF Spawns
    <2> QED
      BY <1>2, <2>1, <2>2 DEF Spawns
  <1>3. ASSUME NEW th \in Threads, NEW c \in Code, NEW m, Stops(th, c, m)
        PROVE  StackInv'
    BY <1>3, TopChanges DEF Stops
  <1>4. ASSUME NEW th \in Threads, NEW c \in Code, NEW v, Takes(th, c, v)
        PROVE  StackInv'
    BY <1>4, TopChanges DEF Takes
  <1>5. ASSUME NEW th \in Threads, NEW c \in Code, Sends(th, c)
        PROVE  StackInv'
    BY <1>5, TopChanges DEF Sends
  <1>6. ASSUME NEW th \in Threads, NEW c \in Code, NEW m, Returns(th, c, m)
        PROVE  StackInv'
    <2>1. \A x \in Code : x # c => mode'[x] = mode[x]
      BY <1>6 DEF Returns, CInv, BInv, TInv, TypeOK
    <2> QED
      BY <1>6, <2>1, ReturnStack, TopFacts DEF Returns
  <1>7. ASSUME NEW th \in Threads, NEW c \in Code, Unwinds(th, c)
        PROVE  StackInv'
    <2>1. \A x \in Code : x # c => mode'[x] = mode[x]
      BY <1>7 DEF Unwinds, Destroy
    <2> QED
      BY <1>7, <2>1, ReturnStack DEF Unwinds
  <1> QED
    BY <1>1, <1>2, <1>3, <1>4, <1>5, <1>6, <1>7, PollStack, DiscardStack
       DEF Kinds

-----------------------------------------------------------------------------
(* Channels, modes and the places of tasks.                                *)

(* What the two invariants say of a task that runs.                        *)
LEMMA RunningLife ==
  ASSUME CInv, NEW th \in Threads, NEW c \in Code, Running(th, c)
  PROVE  /\ c \in Tasks => chan[c] # "none"
         /\ c \in Tasks /\ mode[c] # "ready" => chan[c] = "open"
  <1>1. c \in Tasks => InFlight(c) /\ chan[c] \in ChannelStates
    BY TopFacts DEF CInv, BInv, TInv, TypeOK
  <1> QED
    BY <1>1 DEF CInv, LifeInv, ChannelsFollow, InFlight, ChannelStates

(* The stacks are the same, and the code that runs goes to another mode.   *)
LEMMA TopKeepsLife ==
  ASSUME CInv, NEW th \in Threads, NEW c \in Code, Running(th, c), NEW m,
         mode' = [mode EXCEPT ![c] = m], UNCHANGED stack
  PROVE  QueuedInCode'
  <1>1. \A u \in Tasks : u # c => mode'[u] = mode[u]
    BY DEF CInv, BInv, TInv, TypeOK, Code
  <1>2. Polled(th, c)'
    BY TopFacts DEF Polled
  <1> QED
    BY <1>1, <1>2 DEF CInv, LifeInv, QueuedInCode, Polled

(* Tasks are destroyed: their channels are closed.                         *)
LEMMA DestroyFollows ==
  ASSUME CInv, NEW S, Destroy(S)
  PROVE  ChannelsFollow'
  <1>1. \A u \in Tasks : /\ chan'[u] = IF u \in S THEN "closed" ELSE chan[u]
                         /\ mode'[u] = IF u \in S THEN "dropped" ELSE mode[u]
    BY DEF Destroy, Code
  <1> QED
    BY <1>1 DEF CInv, LifeInv, ChannelsFollow

(* A poll ends: the other polls go on.                                     *)
LEMMA OthersPolled ==
  ASSUME CInv, NEW th \in Threads, stack[th] # <<>>, Return(th)
  PROVE  \A u \in Tasks, t \in Threads :
           u # Last(stack[th]) /\ Polled(t, u) => Polled(t, u)'
  BY ReturnFacts DEF CInv, Polled

(* Channels follow modes, and a task in a queue is in its code.            *)
LEMMA NextLife ==
  ASSUME CInv, Kinds
  PROVE  LifeInv'
  <1> USE DEF Code
  <1>0. mode \in [Code -> Modes] /\ chan \in [Tasks -> ChannelStates]
    BY DEF CInv, BInv, TInv, TypeOK
  <1>1. CASE Quiet
    BY <1>1 DEF Quiet, CInv, LifeInv, ChannelsFollow, QueuedInCode, Polled
  <1>2. ASSUME NEW th \in Threads, NEW c \in Code, NEW u \in Tasks, Spawns(th, c, u)
        PROVE  LifeInv'
    <2>1. /\ \A v \in Tasks : chan'[v] = IF v = u THEN "open" ELSE chan[v]
          /\ chan[u] = "none" /\ mode[u] = "code" /\ mode[c] = "code"
      BY <1>0, <1>2 DEF Spawns, CInv, BInv, Fresh
    <2>2. c \in Tasks => chan[c] = "open"
      BY <1>2, <2>1, RunningLife DEF Spawns
    <2>3. \A v \in Tasks : mode'[v] = mode[v] \/ (v = c /\ mode'[v] = "blocked")
      BY <1>0, <1>2 DEF Spawns
    <2>4. ChannelsFollow'
      BY <2>1, <2>2, <2>3 DEF CInv, LifeInv, ChannelsFollow
    <2>5. Polled(th, c)'
      BY <1>2, TopFacts DEF Spawns, Polled
    <2>6. QueuedInCode'
      BY <1>2, <2>3, <2>5 DEF Spawns, CInv, LifeInv, QueuedInCode, Polled
    <2> QED
      BY <2>4, <2>6 DEF LifeInv
  <1>3. ASSUME NEW th \in Threads, NEW c \in Code, NEW m, Stops(th, c, m)
        PROVE  LifeInv'
    <2>1. \A v \in Tasks : mode'[v] = IF v = c THEN m ELSE mode[v]
      BY <1>0, <1>3 DEF Stops
    <2>2. c \in Tasks => chan[c] = "open" /\ m \in {"pending", "finished"}
      BY <1>3, RunningLife, ExecutorAssumption DEF Stops
    <2>3. ChannelsFollow'
      BY <1>3, <2>1, <2>2 DEF Stops, CInv, LifeInv, ChannelsFollow
    <2>4. QueuedInCode'
      BY <1>3, TopKeepsLife DEF Stops
    <2> QED
      BY <2>3, <2>4 DEF LifeInv
  <1>4. ASSUME NEW th \in Threads, NEW c \in Code, NEW v, Takes(th, c, v)
        PROVE  LifeInv'
    <2>1. \A x \in Tasks : mode'[x] = IF x = c THEN "code" ELSE mode[x]
      BY <1>0, <1>4 DEF Takes
    <2>2. /\ \A x \in Tasks : chan'[x] = IF x = v THEN "received" ELSE chan[x]
          /\ v \in Tasks => chan[v] = "value"
      BY <1>0, <1>4 DEF Takes
    <2>3. c \in Tasks => chan[c] = "open"
      BY <1>4, RunningLife DEF Takes
    <2>4. ChannelsFollow'
      BY <2>1, <2>2, <2>3 DEF CInv, LifeInv, ChannelsFollow
    <2>5. QueuedInCode'
      BY <1>4, TopKeepsLife DEF Takes
    <2> QED
      BY <2>4, <2>5 DEF LifeInv
  <1>5. ASSUME NEW th \in Threads, NEW c \in Code, Sends(th, c)
        PROVE  LifeInv'
    <2>1. \A x \in Tasks : mode'[x] = IF x = c THEN "ready" ELSE mode[x]
      BY <1>0, <1>5 DEF Sends
    <2>2. \A x \in Tasks : chan'[x] = IF x = c THEN "value" ELSE chan[x]
      BY <1>0, <1>5 DEF Sends
    <2>3. ChannelsFollow'
      BY <2>1, <2>2 DEF CInv, LifeInv, ChannelsFollow
    <2>4. QueuedInCode'
      BY <1>5, TopKeepsLife DEF Sends
    <2> QED
      BY <2>3, <2>4 DEF LifeInv
  <1>6. ASSUME NEW th \in Threads, NEW u \in Tasks, Polls(th, u)
        PROVE  LifeInv'
    <2>1. \A t \in Threads, x \in Tasks : Polled(t, x) => Polled(t, x)'
      BY <1>6, PollFacts DEF CInv, Polls, Polled
    <2> QED
      BY <1>6, <2>1 DEF Polls, CInv, LifeInv, ChannelsFollow, QueuedInCode
  <1>7. ASSUME NEW th \in Threads, NEW c \in Code, NEW m, Returns(th, c, m)
        PROVE  LifeInv'
    <2>1. \A x \in Tasks : mode'[x] = IF x = c THEN m ELSE mode[x]
      BY <1>0, <1>7 DEF Returns
    <2>2. \A x \in Tasks, t \in Threads : x # c /\ Polled(t, x) => Polled(t, x)'
      BY <1>7, TopFacts, OthersPolled DEF Returns
    <2>3. ChannelsFollow'
      BY <1>7, <2>1 DEF Returns, CInv, LifeInv, ChannelsFollow
    <2>4. QueuedInCode'
      BY <1>7, <2>1, <2>2 DEF Returns, CInv, LifeInv, QueuedInCode
    <2> QED
      BY <2>3, <2>4 DEF LifeInv
  <1>8. ASSUME NEW S, Discards(S)
        PROVE  LifeInv'
    <2>1. \A x \in Tasks : mode'[x] = IF x \in S THEN "dropped" ELSE mode[x]
      BY <1>8 DEF Discards, Destroy
    <2>2. QueuedInCode'
      BY <1>8, <2>1 DEF Discards, CInv, LifeInv, QueuedInCode, Polled
    <2> QED
      BY <1>8, <2>2, DestroyFollows DEF Discards, LifeInv
  <1>9. ASSUME NEW th \in Threads, NEW c \in Code, Unwinds(th, c)
        PROVE  LifeInv'
    <2>1. \A x \in Tasks : mode'[x] = IF x = c THEN "dropped" ELSE mode[x]
      BY <1>9 DEF Unwinds, Destroy
    <2>2. \A x \in Tasks, t \in Threads : x # c /\ Polled(t, x) => Polled(t, x)'
      BY <1>9, OthersPolled DEF Unwinds
    <2>3. QueuedInCode'
      BY <2>1, <2>2 DEF CInv, LifeInv, QueuedInCode
    <2> QED
      BY <1>9, <2>3, DestroyFollows DEF Unwinds, LifeInv
  <1> QED
    BY <1>1, <1>2, <1>3, <1>4, <1>5, <1>6, <1>7, <1>8, <1>9 DEF Kinds

-----------------------------------------------------------------------------
(* Faults.                                                                 *)

(* A clone of the Runtime is dropped.                                      *)
LEMMA DropRuntimeFaults ==
  ASSUME CInv, NEW th \in Threads, NEW S, DropRuntime(th, S)
  PROVE  /\ shutdown => shutdown'
         /\ joining' # {} => shutdown'
         /\ joining' \subseteq joining \cup {th}
  BY DEF DropRuntime, LastOwners, CInv, FaultsFirst

(* The flag and the panics stay, the drop begins with the flag raised, and *)
(* a worker leaves when it sees the flag or unwinds.                       *)
LEMMA NextFaults ==
  ASSUME CInv, [Next]_vars
  PROVE  FaultsFirst'
  <1> DEFINE Out == {"leaving", "released", "exited"}
  <1>1. ASSUME shutdown => shutdown', unwinding \subseteq unwinding',
               joining' # {} => shutdown',
               \A w \in Workers : pc'[w] \in Out =>
                 pc[w] \in Out \/ shutdown \/ w \in unwinding
        PROVE  FaultsFirst'
    BY <1>1 DEF CInv, FaultsFirst
  <1>2. ASSUME UNCHANGED <<owners, shutdown, joining, joined, pc>>,
               unwinding \subseteq unwinding'
        PROVE  FaultsFirst'
    BY <1>2 DEF CInv, FaultsFirst
  <1> USE DEF dropVars, panicVars, loopVars
  <1>3. ASSUME NEW th \in Threads, NEW c \in Code, CodeStep(th, c)
        PROVE  FaultsFirst'
    <2>1. CASE Finish(th, c)
      BY <1>1, <1>3, <2>1, DropRuntimeFaults DEF Finish
    <2>2. CASE ~Finish(th, c)
      <3>1. UNCHANGED <<shutdown, joining, pc>> /\ unwinding \subseteq unwinding'
        BY <1>3, <2>2
           DEF CodeStep, DoSpawn, DoBlockOn, SpawnTask, Owns, DoAwait, DoYield,
               DoPanic, DoRun, Send, ReturnReady, ReturnPending
      <3> QED
        BY <3>1 DEF CInv, FaultsFirst
    <2> QED
      BY <2>1, <2>2
  <1>4. ASSUME NEW th \in Threads, NEW c \in Code, BlockOnStep(th, c)
        PROVE  FaultsFirst'
    BY <1>2, <1>4
       DEF BlockOnStep, RecvOk, RecvEmpty, RecvDisconnected, HelpSteal,
           HelpEmpty, HelpRetry
  <1>5. ASSUME NEW w \in Workers, WorkerStep(w)
        PROVE  FaultsFirst'
    <2>0. w \in Threads /\ pc \in [Workers -> Places]
      BY DEF Threads, CInv, BInv, TInv, TypeOK
    <2>1. CASE Leave(w)
      <3>1. \E S : DropRuntime(w, S)
        BY <2>1 DEF Leave
      <3>2. pc[w] = "leaving" /\ Goto(w, "released") /\ UNCHANGED unwinding
        BY <2>1 DEF Leave
      <3> QED
        BY <1>1, <2>0, <3>1, <3>2, DropRuntimeFaults DEF Goto
    <2>2. CASE ~Leave(w)
      <3>1. UNCHANGED <<shutdown, joining, unwinding>>
        BY <1>5, <2>2
           DEF WorkerStep, CheckShutdown, PopLocal, LocalEmpty, StealBatch,
               GlobalRetry, StealOne, GlobalMissed, StealPeer, PeerRetry,
               StealPeerOne, NextPeer, NoWork, Exit
      <3>2. \A v \in Workers : pc'[v] \in Out =>
              pc[v] \in Out \/ shutdown \/ v \in unwinding
        BY <1>5, <2>0, <2>2
           DEF WorkerStep, CheckShutdown, PopLocal, LocalEmpty, StealBatch,
               GlobalRetry, StealOne, GlobalMissed, StealPeer, PeerRetry,
               StealPeerOne, NextPeer, NoWork, Exit, Goto, EndLoop, AfterCheck,
               AfterPop
      <3> QED
        BY <1>1, <3>1, <3>2 DEF CInv, FaultsFirst
    <2> QED
      BY <2>1, <2>2
  <1>6. ASSUME NEW th \in Threads,
               Unwind(th) \/ JoinNext(th) \/ JoinSelf(th) \/ DropDone(th)
        PROVE  FaultsFirst'
    <2>1. CASE Unwind(th)
      <3>1. DropRuntime(th, {Last(stack[th])}) /\ th \in unwinding /\ UNCHANGED unwinding
        BY <2>1 DEF Unwind
      <3>2. \A v \in Workers : pc'[v] \in Out => pc[v] \in Out \/ v \in unwinding
        BY <2>1 DEF Unwind, CInv, BInv, TInv, TypeOK
      <3> QED
        BY <1>1, <3>1, <3>2, DropRuntimeFaults
    <2>2. CASE JoinNext(th) \/ JoinSelf(th) \/ DropDone(th)
      BY <2>2 DEF JoinNext, JoinSelf, DropDone, CInv, FaultsFirst
    <2> QED
      BY <1>6, <2>1, <2>2
  <1>7. CASE UNCHANGED vars
    BY <1>7 DEF vars, CInv, FaultsFirst
  <1> QED
    BY <1>3, <1>4, <1>5, <1>6, <1>7 DEF Next, ThreadStep, Threads

(* Whoever starts to unwind, or to drop the executor, has sent no result.  *)
StopsFresh ==
  \A t \in (unwinding' \cup joining') \ (unwinding \cup joining) :
    stack'[t] # <<>> /\ Last(stack'[t]) \in Tasks
      => mode'[Last(stack'[t])] # "ready"

(* A step that starts an unwinding or a drop leaves the code at the top of *)
(* its thread without a result.                                            *)
LEMMA NextStops ==
  ASSUME CInv, [Next]_vars
  PROVE  StopsFresh
  <1> USE DEF dropVars, panicVars, loopVars, userVars, StopsFresh
  <1>1. ASSUME unwinding' \cup joining' \subseteq unwinding \cup joining
        PROVE  StopsFresh
    BY <1>1
  <1>2. ASSUME NEW th \in Threads, NEW c \in Code, CodeStep(th, c)
        PROVE  StopsFresh
    <2>1. CASE DoPanic(th, c)
      BY <2>1 DEF DoPanic, AtOp, Running
    <2>2. CASE Finish(th, c)
      <3>1. joining' \subseteq joining \cup {th}
        BY <2>2, DropRuntimeFaults DEF Finish
      <3>2. /\ UNCHANGED <<stack, unwinding>> /\ c = Last(stack[th])
            /\ c \in Tasks => mode'[c] = "finished"
        BY <2>2 DEF Finish, Running, CInv, BInv, TInv, TypeOK
      <3> QED
        BY <3>1, <3>2
    <2>3. CASE ~DoPanic(th, c) /\ ~Finish(th, c)
      BY <1>1, <1>2, <2>3
         DEF CodeStep, DoSpawn, DoBlockOn, SpawnTask, Owns, DoAwait, DoYield,
             DoRun, Send, ReturnReady, ReturnPending
    <2> QED
      BY <2>1, <2>2, <2>3
  <1>3. ASSUME NEW th \in Threads, NEW c \in Code, BlockOnStep(th, c)
        PROVE  StopsFresh
    <2>1. CASE RecvDisconnected(th, c)
      BY <2>1 DEF RecvDisconnected, Looking, Running
    <2>2. CASE ~RecvDisconnected(th, c)
      BY <1>1, <1>3, <2>2
         DEF BlockOnStep, RecvOk, RecvEmpty, HelpSteal, HelpEmpty, HelpRetry
    <2> QED
      BY <2>1, <2>2
  <1>4. ASSUME NEW w \in Workers, WorkerStep(w)
        PROVE  StopsFresh
    <2>1. CASE Leave(w)
      <3>1. PICK S : DropRuntime(w, S)
        BY <2>1 DEF Leave
      <3>2. joining' \subseteq joining \cup {w}
        BY <3>1, DropRuntimeFaults DEF Threads
      <3>3. stack'[w] = <<>> /\ unwinding' = unwinding
        BY <2>1 DEF Leave
      <3> QED
        BY <3>2, <3>3
    <2>2. CASE ~Leave(w)
      BY <1>1, <1>4, <2>2
         DEF WorkerStep, CheckShutdown, PopLocal, LocalEmpty, StealBatch,
             GlobalRetry, StealOne, GlobalMissed, StealPeer, PeerRetry,
             StealPeerOne, NextPeer, NoWork, Exit
    <2> QED
      BY <2>1, <2>2
  <1>5. ASSUME NEW th \in Threads,
               Unwind(th) \/ JoinNext(th) \/ JoinSelf(th) \/ DropDone(th)
        PROVE  StopsFresh
    <2>1. CASE Unwind(th)
      <3>1. joining' \subseteq joining \cup {th}
        BY <2>1, DropRuntimeFaults DEF Unwind
      <3> QED
        BY <1>1, <2>1, <3>1 DEF Unwind
    <2>2. CASE JoinNext(th) \/ JoinSelf(th) \/ DropDone(th)
      BY <1>1, <2>2 DEF JoinNext, JoinSelf, DropDone
    <2> QED
      BY <1>5, <2>1, <2>2
  <1>6. CASE UNCHANGED vars
    BY <1>1, <1>6 DEF vars
  <1> QED
    BY <1>2, <1>3, <1>4, <1>5, <1>6 DEF Next, ThreadStep, Threads

(* The top of a stack on which nothing runs.                               *)
LEMMA NextUnsent ==
  ASSUME CInv, [Next]_vars
  PROVE  StopsUnsent'
  <1> SUFFICES ASSUME NEW t \in (unwinding \cup joining)',
                      stack'[t] # <<>>, Last(stack'[t]) \in Tasks
               PROVE  mode'[Last(stack'[t])] # "ready"
    BY DEF StopsUnsent
  <1>1. CASE t \notin unwinding \cup joining
    BY <1>1, NextStops DEF StopsFresh
  <1>2. CASE t \in unwinding \cup joining
    <2>0. /\ t \in Threads /\ mode \in [Code -> Modes]
          /\ \A r \in Threads : stack[r] \in Seq(Code)
      BY <1>2 DEF CInv, BInv, TInv, TypeOK
    <2>1. ASSUME stack'[t] = stack[t]
          PROVE  Polled(t, Last(stack[t])) /\ mode[Last(stack[t])] # "ready"
      BY <1>2, <2>0, <2>1, FrontLemma DEF CInv, StopsUnsent, Polled
    <2>2. ASSUME NEW th \in Threads, NEW c \in Code, Running(th, c), stack'[t] = stack[t],
                 \A x \in Tasks : x # c => mode'[x] = mode[x]
          PROVE  mode'[Last(stack'[t])] # "ready"
      <3>1. t # th
        BY <1>2, <2>2 DEF Running
      <3>2. Last(stack[t]) # c
        BY <2>0, <2>1, <2>2, <3>1, TopFacts
      <3> QED
        BY <2>1, <2>2, <3>2
    <2>3. CASE Quiet
      BY <2>1, <2>3 DEF Quiet
    <2>4. ASSUME NEW th \in Threads, NEW c \in Code, NEW m,
                 Running(th, c), mode' = [mode EXCEPT ![c] = m], stack'[t] = stack[t]
          PROVE  mode'[Last(stack'[t])] # "ready"
      BY <2>0, <2>2, <2>4 DEF Code
    <2>5. ASSUME NEW th \in Threads, NEW c \in Code, NEW u \in Tasks, Spawns(th, c, u)
          PROVE  mode'[Last(stack'[t])] # "ready"
      BY <2>1, <2>4, <2>5 DEF Spawns
    <2>6. ASSUME NEW th \in Threads, NEW c \in Code, NEW m, Stops(th, c, m)
          PROVE  mode'[Last(stack'[t])] # "ready"
      BY <2>4, <2>6 DEF Stops
    <2>7. ASSUME NEW th \in Threads, NEW c \in Code, NEW v, Takes(th, c, v)
          PROVE  mode'[Last(stack'[t])] # "ready"
      BY <2>4, <2>7 DEF Takes
    <2>8. ASSUME NEW th \in Threads, NEW c \in Code, Sends(th, c)
          PROVE  mode'[Last(stack'[t])] # "ready"
      BY <2>4, <2>8 DEF Sends
    <2>9. ASSUME NEW th \in Threads, NEW u \in Tasks, Polls(th, u)
          PROVE  mode'[Last(stack'[t])] # "ready"
      <3>1. CASE t = th
        <4>1. Last(stack'[th]) = u
          BY <2>9, PollEnds DEF CInv, Polls
        <4>2. mode'[u] = mode[u] /\ mode[u] # "ready"
          BY <2>9 DEF Polls, CInv, LifeInv, QueuedInCode
        <4> QED
          BY <3>1, <4>1, <4>2
      <3>2. CASE t # th
        BY <2>0, <2>1, <2>9, <3>2, PollFacts DEF CInv, Polls
      <3> QED
        BY <3>1, <3>2
    <2>10. ASSUME NEW th \in Threads, NEW c \in Code, NEW m, Returns(th, c, m)
           PROVE  mode'[Last(stack'[t])] # "ready"
      <3>1. t # th
        BY <1>2, <2>10 DEF Returns, Running
      <3>2. stack'[t] = stack[t]
        BY <2>0, <2>10, <3>1, TopFacts, ReturnFacts DEF Returns, CInv
      <3> QED
        BY <2>4, <2>10, <3>2 DEF Returns
    <2>11. ASSUME NEW S, Discards(S)
           PROVE  mode'[Last(stack'[t])] # "ready"
      BY <2>1, <2>11 DEF Discards, Destroy, Code
    <2>12. ASSUME NEW th \in Threads, NEW c \in Code, Unwinds(th, c)
           PROVE  mode'[Last(stack'[t])] # "ready"
      <3>1. \A x \in Code : mode'[x] = IF x = c THEN "dropped" ELSE mode[x]
        BY <2>12 DEF Unwinds, Destroy
      <3>2. \A r \in Threads \ {th} : stack'[r] = stack[r]
        BY <2>12, ReturnFacts DEF Unwinds, CInv
      <3>3. CASE t # th
        BY <2>0, <2>1, <3>1, <3>2, <3>3 DEF Code
      <3>4. CASE t = th
        <4> DEFINE x == Last(stack'[th])
        <4>1. /\ ToSet(stack[th]) = {c} \cup ToSet(stack'[th])
              /\ c \notin ToSet(stack'[th])
          BY <2>12, ReturnFacts DEF Unwinds, CInv
        <4>2. stack'[th] \in Seq(Code)
          BY <2>12, ReturnType DEF Unwinds, CInv, BInv, TInv, TypeOK
        <4>3. x \in ToSet(stack'[th]) /\ x \in Code
          BY <3>4, <4>2, FrontLemma
        <4>4. Polled(th, x) /\ x # c
          BY <4>1, <4>3 DEF Polled
        <4>5. mode[x] = "blocked"
          BY <2>12, <4>3, <4>4 DEF Unwinds, CInv, StackInv, BlockedBelow
        <4> QED
          BY <3>1, <3>4, <4>3, <4>4, <4>5
      <3> QED
        BY <3>3, <3>4
    <2> QED
      BY <2>3, <2>5, <2>6, <2>7, <2>8, <2>9, <2>10, <2>11, <2>12, NextKind
         DEF Kinds
  <1> QED
    BY <1>1, <1>2

(* At the start.                                                           *)
LEMMA InitContract ==
  ASSUME Init
  PROVE  CInv
  <1>1. BInv
    BY InitBooks
  <1>2. \A th \in Threads :
          IF th \in Workers THEN stack[th] = <<>> ELSE stack[th] = <<th>>
    BY DEF Init
  <1>3. \A th \in Threads : \A x : Polled(th, x) =>
          x = th /\ th \notin Workers /\ x = Last(stack[th])
    <2> SUFFICES ASSUME NEW th \in Threads, NEW x, Polled(th, x)
                 PROVE  x = th /\ th \notin Workers /\ x = Last(stack[th])
      OBVIOUS
    <2>1. th \notin Workers /\ stack[th] = <<th>>
      BY <1>2, EmptyLemma DEF Polled
    <2>2. x = th
      BY <2>1, SingletonLemma DEF Polled
    <2>3. Last(<<th>>) = th
      BY DEF Last
    <2> QED
      BY <2>1, <2>2, <2>3
  <1>4. CallersHome
    <2>1. \A th \in Callers : stack[th] = <<th>> /\ Head(<<th>>) = th
      BY <1>2, ExecutorAssumption DEF Threads
    <2> QED
      BY <1>3, <2>1 DEF CallersHome
  <1>5. BlockedBelow
    BY <1>3 DEF BlockedBelow
  <1>6. LifeInv
    BY DEF Init, LifeInv, ChannelsFollow, QueuedInCode, Code
  <1>7. StopsUnsent /\ FaultsFirst
    BY DEF Init, StopsUnsent, FaultsFirst
  <1> QED
    BY <1>1, <1>4, <1>5, <1>6, <1>7 DEF CInv, StackInv

(* The invariant is inductive.                                             *)
LEMMA NextContract ==
  ASSUME CInv, [Next]_vars
  PROVE  CInv'
  <1>1. BInv'
    BY NextBooks DEF CInv
  <1> QED
    BY <1>1, NextKind, NextStack, NextLife, NextUnsent, NextFaults DEF CInv

-----------------------------------------------------------------------------
(* The mapping.                                                            *)

(* Where a task stands: the arms of statusBar exclude each other.          *)
LEMMA Standing ==
  ASSUME BInv
  PROVE  \A u \in Tasks :
           /\ chan[u] = "none" => statusBar[u] = "unborn"
           /\ mode[u] = "done" => statusBar[u] = "done"
           /\ mode[u] = "dropped" => statusBar[u] = "lost"
           /\ (\E th \in Threads : Polled(th, u)) => statusBar[u] = "running"
           /\ InFlight(u) /\ (\A th \in Threads : ~Polled(th, u))
                => statusBar[u] = "queued"
  <1> SUFFICES ASSUME NEW u \in Tasks
               PROVE  /\ chan[u] = "none" => statusBar[u] = "unborn"
                      /\ mode[u] = "done" => statusBar[u] = "done"
                      /\ mode[u] = "dropped" => statusBar[u] = "lost"
                      /\ (\E th \in Threads : Polled(th, u)) => statusBar[u] = "running"
                      /\ InFlight(u) /\ (\A th \in Threads : ~Polled(th, u))
                           => statusBar[u] = "queued"
    OBVIOUS
  <1>1. /\ (\E th \in Threads : Polled(th, u)) => InFlight(u)
        /\ chan[u] = "none" => mode[u] = "code"
    BY DEF BInv, Books, NothingMislaid, Fresh
  <1> QED
    BY <1>1 DEF statusBar, InFlight

(* And after a step.                                                       *)
LEMMA StandingNext ==
  ASSUME BInv'
  PROVE  \A u \in Tasks :
           /\ chan'[u] = "none" => statusBar'[u] = "unborn"
           /\ mode'[u] = "done" => statusBar'[u] = "done"
           /\ mode'[u] = "dropped" => statusBar'[u] = "lost"
           /\ (\E th \in Threads : Polled(th, u)') => statusBar'[u] = "running"
           /\ InFlight(u)' /\ (\A th \in Threads : ~Polled(th, u)')
                => statusBar'[u] = "queued"
  <1> SUFFICES ASSUME NEW u \in Tasks
               PROVE  /\ chan'[u] = "none" => statusBar'[u] = "unborn"
                      /\ mode'[u] = "done" => statusBar'[u] = "done"
                      /\ mode'[u] = "dropped" => statusBar'[u] = "lost"
                      /\ (\E th \in Threads : Polled(th, u)') => statusBar'[u] = "running"
                      /\ InFlight(u)' /\ (\A th \in Threads : ~Polled(th, u)')
                           => statusBar'[u] = "queued"
    OBVIOUS
  <1>1. /\ (\E th \in Threads : Polled(th, u)') => InFlight(u)'
        /\ chan'[u] = "none" => mode'[u] = "code"
    BY DEF BInv, Books, NothingMislaid, Fresh
  <1> QED
    BY <1>1 DEF statusBar, InFlight

(* A task stays where it stands if its channel is in use as before, its    *)
(* mode is no other end, and it is polled as before.                       *)
LEMMA SameStanding ==
  ASSUME NEW u \in Tasks,
         chan'[u] = "none" <=> chan[u] = "none",
         mode'[u] = "done" <=> mode[u] = "done",
         mode'[u] = "dropped" <=> mode[u] = "dropped",
         \A th \in Threads : Polled(th, u)' <=> Polled(th, u)
  PROVE  statusBar'[u] = statusBar[u]
  BY DEF statusBar

(* Two mappings that agree on every task are equal.                        *)
LEMMA SameStatus ==
  ASSUME \A u \in Tasks : statusBar'[u] = statusBar[u]
  PROVE  statusBar' = statusBar
  <1>1. statusBar = [u \in Tasks |-> statusBar[u]]
    BY DEF statusBar
  <1>2. statusBar' = [u \in Tasks |-> statusBar'[u]]
    BY DEF statusBar
  <1> QED
    BY <1>1, <1>2

(* One task changes its status in the contract.                            *)
LEMMA StatusMoves ==
  ASSUME NEW c \in Tasks, \A u \in Tasks \ {c} : statusBar'[u] = statusBar[u]
  PROVE  statusBar' = [statusBar EXCEPT ![c] = statusBar'[c]]
  <1>1. statusBar = [u \in Tasks |-> statusBar[u]]
    BY DEF statusBar
  <1>2. statusBar' = [u \in Tasks |-> statusBar'[u]]
    BY DEF statusBar
  <1> QED
    BY <1>1, <1>2

(* A result stays where it is while its channel is neither filled nor      *)
(* emptied.                                                                *)
LEMMA SameResult ==
  ASSUME \A u \in Tasks : /\ chan'[u] = "value" <=> chan[u] = "value"
                          /\ chan'[u] = "received" <=> chan[u] = "received"
  PROVE  resultBar' = resultBar
  BY DEF resultBar

(* One channel changes its state in the contract.                          *)
LEMMA ResultMoves ==
  ASSUME NEW c \in Tasks, chan \in [Tasks -> ChannelStates],
         NEW s \in {"value", "received"}, chan' = [chan EXCEPT ![c] = s]
  PROVE  resultBar' = [resultBar EXCEPT ![c] = IF s = "value" THEN "ready" ELSE "taken"]
  <1>1. \A u \in Tasks : chan'[u] = IF u = c THEN s ELSE chan[u]
    OBVIOUS
  <1> QED
    BY <1>1 DEF resultBar

(* A fault that costs no task.                                             *)
LEMMA FaultOnly ==
  ASSUME faultedBar => faultedBar', statusBar' = statusBar, resultBar' = resultBar
  PROVE  [Contract!Next]_Contract!vars
  <1>1. faultedBar \in BOOLEAN /\ faultedBar' \in BOOLEAN
    BY DEF faultedBar
  <1>2. CASE faultedBar' = faultedBar
    BY <1>2 DEF Contract!vars
  <1>3. CASE faultedBar' = TRUE
    <2>1. Contract!Lose({})
      <3>1. statusBar' = [u \in Tasks |-> IF u \in {} THEN "lost" ELSE statusBar[u]]
        BY DEF statusBar
      <3> QED
        BY <1>3, <3>1 DEF Contract!Lose
    <2> QED
      BY <2>1 DEF Contract!Next
  <1> QED
    BY <1>1, <1>2, <1>3

(* A poll begins or ends: every other task is polled as before.            *)
LEMMA PollOthers ==
  ASSUME CInv, NEW th \in Threads, NEW u \in Tasks, Polls(th, u)
  PROVE  /\ Polled(th, u)'
         /\ \A v \in Tasks \ {u}, t \in Threads : Polled(t, v)' <=> Polled(t, v)
  BY PollFacts DEF CInv, Polls, Polled

(* When a poll ends its code is on no stack, and all others stay where     *)
(* they are.                                                               *)
LEMMA ReturnOthers ==
  ASSUME CInv, NEW th \in Threads, NEW c \in Code, stack[th] # <<>>,
         c = Last(stack[th]), Return(th)
  PROVE  /\ \A t \in Threads : ~Polled(t, c)'
         /\ \A v \in Tasks \ {c}, t \in Threads : Polled(t, v)' <=> Polled(t, v)
  <1>1. /\ ToSet(stack[th]) = {c} \cup ToSet(stack'[th])
        /\ c \notin ToSet(stack'[th])
        /\ \A t \in Threads \ {th} : stack'[t] = stack[t]
    BY ReturnFacts DEF CInv
  <1>2. \A t \in Threads : Polled(t, c) => t = th
    BY <1>1, Alone DEF CInv, StackInv, Polled
  <1> QED
    BY <1>1, <1>2 DEF Polled

(* A task whose channel is open has no result.                             *)
LEMMA NoResult ==
  ASSUME NEW u \in Tasks, chan[u] = "open"
  PROVE  resultBar[u] = "none"
  BY DEF resultBar

(* Tasks are lost.                                                         *)
LEMMA Loses ==
  ASSUME CInv, BInv', NEW S, S \subseteq Tasks, Destroy(S),
         \A u \in S : statusBar[u] \in {"queued", "running"} /\ chan[u] = "open",
         \A v \in Tasks \ S, t \in Threads : Polled(t, v)' <=> Polled(t, v),
         faultedBar, faultedBar'
  PROVE  Contract!Next
  <1>1. \A u \in Tasks : /\ chan'[u] = IF u \in S THEN "closed" ELSE chan[u]
                         /\ mode'[u] = IF u \in S THEN "dropped" ELSE mode[u]
    BY DEF Destroy, Code
  <1>2. \A u \in S : statusBar'[u] = "lost"
    BY <1>1, StandingNext
  <1>3. \A u \in Tasks : u \notin S => statusBar'[u] = statusBar[u]
    BY <1>1, SameStanding
  <1>4. statusBar' = [u \in Tasks |-> IF u \in S THEN "lost" ELSE statusBar[u]]
    <2>1. statusBar' = [u \in Tasks |-> statusBar'[u]]
      BY DEF statusBar
    <2> QED
      BY <1>2, <1>3, <2>1
  <1>5. resultBar' = resultBar
    BY <1>1, SameResult
  <1>6. \A u \in S : resultBar[u] = "none"
    BY NoResult
  <1>7. faultedBar' = TRUE
    BY DEF faultedBar
  <1>8. Contract!Lose(S)
    BY <1>4, <1>5, <1>6, <1>7 DEF Contract!Lose
  <1> QED
    BY <1>8 DEF Contract!Next

(* Every kind of step is a step of the contract, or none.                  *)
LEMMA KindsKeepContract ==
  ASSUME CInv, BInv', Kinds
  PROVE  [Contract!Next]_Contract!vars
  <1> USE DEF Code
  <1>0. /\ mode \in [Code -> Modes] /\ chan \in [Tasks -> ChannelStates]
        /\ faultedBar \in BOOLEAN /\ faultedBar' \in BOOLEAN
    BY DEF CInv, BInv, TInv, TypeOK, faultedBar
  <1>1. CASE Quiet
    <2>1. \A u \in Tasks : statusBar'[u] = statusBar[u]
      BY <1>1, SameStanding DEF Quiet, Polled
    <2> QED
      BY <1>1, <2>1, SameStatus, SameResult, FaultOnly DEF Quiet
  <1>2. ASSUME NEW th \in Threads, NEW c \in Code, NEW u \in Tasks, Spawns(th, c, u)
        PROVE  [Contract!Next]_Contract!vars
    <2>1. /\ \A v \in Tasks : chan'[v] = IF v = u THEN "open" ELSE chan[v]
          /\ chan[u] = "none" /\ mode[u] = "code" /\ mode[c] = "code"
      BY <1>0, <1>2 DEF Spawns, CInv, BInv, Fresh
    <2>2. c \in Tasks => chan[c] = "open"
      BY <1>2, <2>1, RunningLife DEF Spawns
    <2>3. \A v \in Tasks : mode'[v] = mode[v] \/ (v = c /\ mode'[v] = "blocked")
      BY <1>0, <1>2 DEF Spawns
    <2>4. \A v \in Tasks, t \in Threads : Polled(t, v)' <=> Polled(t, v)
      BY <1>2 DEF Spawns, Polled
    <2>5. \A v \in Tasks \ {u} : statusBar'[v] = statusBar[v]
      BY <2>1, <2>3, <2>4, SameStanding
    <2>6. statusBar[u] = "unborn"
      BY <2>1, Standing DEF CInv
    <2>7. statusBar'[u] = "queued"
      <3>1. \A t \in Threads : ~Polled(t, u)
        BY <2>1 DEF CInv, BInv, Books, NothingMislaid, InFlight
      <3>2. InFlight(u)'
        BY <2>1, <2>2, <2>3 DEF InFlight
      <3> QED
        BY <2>4, <3>1, <3>2, StandingNext
    <2>8. statusBar' = [statusBar EXCEPT ![u] = "queued"]
      BY <2>5, <2>7, StatusMoves
    <2>9. resultBar' = resultBar
      BY <2>1, SameResult
    <2>10. Contract!Spawn(u)
      BY <1>0, <1>2, <2>6, <2>8, <2>9 DEF Contract!Spawn, Contract!Moves, Spawns
    <2> QED
      BY <2>10 DEF Contract!Next
  <1>3. ASSUME NEW th \in Threads, NEW c \in Code, NEW m, Stops(th, c, m)
        PROVE  [Contract!Next]_Contract!vars
    <2>1. \A v \in Tasks : mode'[v] = IF v = c THEN m ELSE mode[v]
      BY <1>0, <1>3 DEF Stops
    <2>2. \A v \in Tasks : statusBar'[v] = statusBar[v]
      <3> SUFFICES ASSUME NEW v \in Tasks
                   PROVE  statusBar'[v] = statusBar[v]
        OBVIOUS
      <3>1. \A t \in Threads : Polled(t, v)' <=> Polled(t, v)
        BY <1>3 DEF Stops, Polled
      <3> QED
        BY <1>3, <2>1, <3>1, SameStanding DEF Stops
    <2> QED
      BY <1>3, <2>2, SameStatus, SameResult, FaultOnly DEF Stops
  <1>4. ASSUME NEW th \in Threads, NEW c \in Code, NEW v, Takes(th, c, v)
        PROVE  [Contract!Next]_Contract!vars
    <2>1. \A x \in Tasks : mode'[x] = IF x = c THEN "code" ELSE mode[x]
      BY <1>0, <1>4 DEF Takes
    <2>2. \A x \in Tasks : chan'[x] = IF x = v THEN "received" ELSE chan[x]
      BY <1>0, <1>4 DEF Takes
    <2>3. \A x \in Tasks : statusBar'[x] = statusBar[x]
      <3> SUFFICES ASSUME NEW x \in Tasks
                   PROVE  statusBar'[x] = statusBar[x]
        OBVIOUS
      <3>1. \A t \in Threads : Polled(t, x)' <=> Polled(t, x)
        BY <1>4 DEF Takes, Polled
      <3> QED
        BY <1>4, <2>1, <2>2, <3>1, SameStanding DEF Takes
    <2>4. statusBar' = statusBar
      BY <2>3, SameStatus
    <2>5. CASE v \in Tasks
      <3>1. resultBar' = [resultBar EXCEPT ![v] = "taken"]
        BY <1>0, <1>4, <2>5, ResultMoves DEF Takes
      <3>2. resultBar[v] = "ready"
        BY <1>4, <2>5 DEF Takes, resultBar
      <3>3. Contract!Take(v)
        BY <1>0, <1>4, <2>4, <3>1, <3>2 DEF Contract!Take, Takes
      <3> QED
        BY <2>5, <3>3 DEF Contract!Next
    <2>6. CASE v \notin Tasks
      BY <1>4, <2>2, <2>4, <2>6, SameResult, FaultOnly DEF Takes
    <2> QED
      BY <2>5, <2>6
  <1>5. ASSUME NEW th \in Threads, NEW c \in Code, Sends(th, c)
        PROVE  [Contract!Next]_Contract!vars
    <2>1. \A x \in Tasks : mode'[x] = IF x = c THEN "ready" ELSE mode[x]
      BY <1>0, <1>5 DEF Sends
    <2>2. \A x \in Tasks : chan'[x] = IF x = c THEN "value" ELSE chan[x]
      BY <1>0, <1>5 DEF Sends
    <2>3. c \in Tasks => chan[c] = "open"
      BY <1>5, RunningLife DEF Sends
    <2>4. \A x \in Tasks : statusBar'[x] = statusBar[x]
      <3> SUFFICES ASSUME NEW x \in Tasks
                   PROVE  statusBar'[x] = statusBar[x]
        OBVIOUS
      <3>1. \A t \in Threads : Polled(t, x)' <=> Polled(t, x)
        BY <1>5 DEF Sends, Polled
      <3> QED
        BY <1>5, <2>1, <2>2, <2>3, <3>1, SameStanding DEF Sends
    <2>5. statusBar' = statusBar
      BY <2>4, SameStatus
    <2>6. CASE c \in Tasks
      <3>1. resultBar' = [resultBar EXCEPT ![c] = "ready"]
        BY <1>0, <1>5, <2>6, ResultMoves DEF Sends
      <3>2. statusBar[c] = "running" /\ resultBar[c] = "none"
        BY <1>5, <2>3, <2>6, TopFacts, Standing, NoResult DEF Sends, CInv
      <3>3. Contract!Complete(c)
        BY <1>0, <1>5, <2>5, <3>1, <3>2 DEF Contract!Complete, Sends
      <3> QED
        BY <2>6, <3>3 DEF Contract!Next
    <2>7. CASE c \notin Tasks
      BY <1>5, <2>2, <2>5, <2>7, SameResult, FaultOnly DEF Sends
    <2> QED
      BY <2>6, <2>7
  <1>6. ASSUME NEW th \in Threads, NEW u \in Tasks, Polls(th, u)
        PROVE  [Contract!Next]_Contract!vars
    <2>1. statusBar[u] = "queued"
      BY <1>6, Standing DEF CInv, Polls
    <2>2. statusBar'[u] = "running"
      BY <1>6, PollOthers, StandingNext
    <2>3. \A v \in Tasks \ {u} : statusBar'[v] = statusBar[v]
      BY <1>6, PollOthers, SameStanding DEF Polls
    <2>4. statusBar' = [statusBar EXCEPT ![u] = "running"]
      BY <2>2, <2>3, StatusMoves
    <2>5. resultBar' = resultBar
      BY <1>6, SameResult DEF Polls
    <2>6. Contract!Start(u)
      BY <1>0, <1>6, <2>1, <2>4, <2>5 DEF Contract!Start, Contract!Moves, Polls
    <2> QED
      BY <2>6 DEF Contract!Next
  <1>7. ASSUME NEW th \in Threads, NEW c \in Code, NEW m, Returns(th, c, m)
        PROVE  [Contract!Next]_Contract!vars
    <2>1. \A x \in Tasks : mode'[x] = IF x = c THEN m ELSE mode[x]
      BY <1>0, <1>7 DEF Returns
    <2>2. /\ \A t \in Threads : ~Polled(t, c)'
          /\ \A v \in Tasks \ {c}, t \in Threads : Polled(t, v)' <=> Polled(t, v)
      BY <1>7, TopFacts, ReturnOthers DEF Returns
    <2>3. \A v \in Tasks \ {c} : statusBar'[v] = statusBar[v]
      BY <1>7, <2>1, <2>2, SameStanding DEF Returns
    <2>4. resultBar' = resultBar
      BY <1>7, SameResult DEF Returns
    <2>5. CASE c \in Tasks
      <3>1. statusBar[c] = "running" /\ chan[c] # "none"
        BY <1>7, <2>5, TopFacts, RunningLife, Standing DEF Returns, CInv
      <3>2. statusBar' = [statusBar EXCEPT ![c] = statusBar'[c]]
        BY <2>3, <2>5, StatusMoves
      <3>3. CASE mode[c] = "ready" /\ m = "done"
        <4>1. statusBar'[c] = "done"
          BY <2>1, <2>5, <3>3, StandingNext
        <4>2. resultBar[c] # "none"
          BY <2>5, <3>3 DEF CInv, LifeInv, ChannelsFollow, resultBar
        <4>3. Contract!Retire(c)
          BY <1>0, <1>7, <2>4, <3>1, <3>2, <4>1, <4>2
             DEF Contract!Retire, Contract!Moves, Returns
        <4> QED
          BY <2>5, <4>3 DEF Contract!Next
      <3>4. CASE mode[c] = "pending" /\ m = "code"
        <4>1. InFlight(c)'
          BY <1>7, <2>1, <2>5, <3>1, <3>4 DEF Returns, InFlight
        <4>2. statusBar'[c] = "queued"
          BY <2>2, <2>5, <4>1, StandingNext
        <4>3. resultBar[c] = "none"
          BY <1>7, <2>5, <3>4, RunningLife, NoResult DEF Returns
        <4>4. Contract!Suspend(c)
          BY <1>0, <1>7, <2>4, <3>1, <3>2, <4>2, <4>3
             DEF Contract!Suspend, Contract!Moves, Returns
        <4> QED
          BY <2>5, <4>4 DEF Contract!Next
      <3> QED
        BY <1>7, <3>3, <3>4 DEF Returns
    <2>6. CASE c \notin Tasks
      <3>1. \A v \in Tasks : statusBar'[v] = statusBar[v]
        BY <2>3, <2>6
      <3> QED
        BY <1>7, <2>4, <3>1, SameStatus, FaultOnly DEF Returns
    <2> QED
      BY <2>5, <2>6
  <1>8. ASSUME NEW S, Discards(S)
        PROVE  [Contract!Next]_Contract!vars
    <2>1. S \subseteq Tasks
      BY <1>8 DEF Discards
    <2>2. \A u \in S : statusBar[u] = "queued"
      BY <1>8, Standing DEF Discards, CInv
    <2>3. \A u \in S : chan[u] = "open"
      <3>1. \A u \in S : /\ mode[u] \in Modes /\ mode[u] \notin {"done", "dropped"}
                         /\ chan[u] \in ChannelStates /\ chan[u] # "none"
                         /\ mode[u] \notin {"blocked", "pending", "finished", "ready"}
        BY <1>0, <1>8, <2>1 DEF Discards, InFlight, CInv, LifeInv, QueuedInCode
      <3> QED
        BY <2>1, <3>1 DEF CInv, LifeInv, ChannelsFollow, ChannelStates
    <2>4. \A v \in Tasks, t \in Threads : Polled(t, v)' <=> Polled(t, v)
      BY <1>8 DEF Discards, Polled
    <2> QED
      BY <1>8, <2>1, <2>2, <2>3, <2>4, Loses DEF Discards
  <1>9. ASSUME NEW th \in Threads, NEW c \in Code, Unwinds(th, c)
        PROVE  [Contract!Next]_Contract!vars
    <2>1. /\ \A t \in Threads : ~Polled(t, c)'
          /\ \A v \in Tasks \ {c}, t \in Threads : Polled(t, v)' <=> Polled(t, v)
      BY <1>9, ReturnOthers DEF Unwinds
    <2>2. CASE c \in Tasks
      <3>1. Polled(th, c)
        BY <1>9, ReturnFacts DEF Unwinds, Polled, CInv
      <3>2. statusBar[c] = "running" /\ InFlight(c)
        BY <2>2, <3>1, Standing DEF CInv, BInv, Books, NothingMislaid
      <3>3. mode[c] # "ready"
        BY <1>9, <2>2 DEF Unwinds, CInv, StopsUnsent
      <3>4. chan[c] = "open"
        BY <1>0, <2>2, <3>2, <3>3
           DEF CInv, LifeInv, ChannelsFollow, InFlight, ChannelStates
      <3> QED
        BY <1>9, <2>1, <2>2, <3>2, <3>4, Loses DEF Unwinds
    <2>3. CASE c \notin Tasks
      <3>1. \A u \in Tasks : chan'[u] = chan[u] /\ mode'[u] = mode[u]
        BY <1>9, <2>3 DEF Unwinds, Destroy
      <3>2. \A u \in Tasks : statusBar'[u] = statusBar[u]
        BY <2>1, <2>3, <3>1, SameStanding
      <3> QED
        BY <1>9, <3>1, <3>2, SameStatus, SameResult, FaultOnly DEF Unwinds
    <2> QED
      BY <2>2, <2>3
  <1> QED
    BY <1>1, <1>2, <1>3, <1>4, <1>5, <1>6, <1>7, <1>8, <1>9 DEF Kinds

(* At the start no task is spawned.                                        *)
LEMMA InitMaps ==
  ASSUME Init
  PROVE  Contract!Init
  <1>1. \A u \in Tasks : statusBar[u] = "unborn"
    BY InitBooks, Standing DEF Init
  <1>2. statusBar = [u \in Tasks |-> "unborn"]
    BY <1>1 DEF statusBar
  <1>3. resultBar = [u \in Tasks |-> "none"]
    BY DEF Init, resultBar
  <1>4. faultedBar = FALSE
    BY DEF Init, faultedBar
  <1> QED
    BY <1>2, <1>3, <1>4 DEF Contract!Init

(***************************************************************************)
(* The executor implements TaskContract: whatever the workers steal, the   *)
(* callers help with, the panics destroy and the drop leaves behind, a     *)
(* task is polled by one thread at a time, polled again after Pending,     *)
(* completed once, its result taken once, and lost only after a fault.     *)
(***************************************************************************)
THEOREM ImplementsContract == Spec => KeepsContract
  <1>1. Init => CInv /\ Contract!Init
    BY InitContract, InitMaps
  <1>2. CInv /\ [Next]_vars => CInv'
    BY NextContract
  <1>3. CInv /\ [Next]_vars => [Contract!Next]_Contract!vars
    <2> SUFFICES ASSUME CInv, [Next]_vars
                 PROVE  [Contract!Next]_Contract!vars
      OBVIOUS
    <2>1. BInv'
      BY NextBooks DEF CInv
    <2> QED
      BY <2>1, NextKind, KindsKeepContract
  <1> QED
    BY <1>1, <1>2, <1>3, PTL DEF Spec, KeepsContract, Contract!Spec
=============================================================================
