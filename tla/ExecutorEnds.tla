---------------------------- MODULE ExecutorEnds ----------------------------
(***************************************************************************)
(* How a worker looks for work, what it counts, and how the std executor   *)
(* ends: the proofs, for every program and every number of threads.        *)
(***************************************************************************)
EXTENDS ExecutorContract

-----------------------------------------------------------------------------
(* Stealing.                                                               *)

(* A worker polls only while it is in the loop that drains its deque, or   *)
(* just before it reads the flag; and once it looks elsewhere nobody else  *)
(* puts a task into its deque.                                             *)
WorkersDry ==
  \A w \in Workers :
    /\ stack[w] # <<>> => pc[w] \in {"check", "popMore"}
    /\ pc[w] \in {"batch", "retry", "peer", "peerRetry"} => localQ[w] = <<>>

(* A poll begins or ends on a thread: the other threads' stacks.           *)
LEMMA OtherStacks ==
  ASSUME TypeOK, NEW th \in Threads,
         Return(th) \/ \E u \in Tasks : Poll(th, u)
  PROVE  \A t \in Threads \ {th} : stack'[t] = stack[t]
  BY DEF Return, Poll, TypeOK

(* Code runs on a stack that is not empty, so its worker is where it was.  *)
LEMMA CodeStaysDry ==
  ASSUME CInv, WorkersDry, NEW th \in Threads, stack[th] # <<>>,
         UNCHANGED <<pc, localQ>>,
         \A t \in Threads \ {th} : stack'[t] = stack[t]
  PROVE  WorkersDry'
  BY DEF WorkersDry, Threads

(* The actions of a worker's loop.                                         *)
LEMMA WorkerStaysDry ==
  ASSUME CInv, WorkersDry, NEW w \in Workers, WorkerStep(w)
  PROVE  WorkersDry'
  <1> DEFINE Away == {"batch", "retry", "peer", "peerRetry"}
  <1> USE DEF queueVars, loopVars
  <1>0. /\ w \in Threads /\ pc \in [Workers -> Places] /\ Workers \subseteq Threads
        /\ localQ \in [Workers -> Seq(Tasks)]
    BY DEF Threads, CInv, BInv, TInv, TypeOK
  <1>1. ASSUME NEW place, Goto(w, place), stack[w] = <<>>, UNCHANGED <<stack, localQ>>,
               place \in Away => localQ[w] = <<>>
        PROVE  WorkersDry'
    BY <1>0, <1>1 DEF Goto, WorkersDry
  <1>2. ASSUME NEW place \in {"check", "popMore"}, Goto(w, place),
               \A t \in Threads \ {w} : stack'[t] = stack[t],
               \A v \in Workers \ {w} : localQ[v] = <<>> => localQ'[v] = <<>>
        PROVE  WorkersDry'
    BY <1>0, <1>2 DEF Goto, WorkersDry
  <1>3. CASE CheckShutdown(w)
    <2>1. Goto(w, AfterCheck) /\ stack[w] = <<>> /\ UNCHANGED <<stack, localQ>>
      BY <1>3 DEF CheckShutdown, AtPlace
    <2>2. AfterCheck \notin Away
      BY DEF AfterCheck
    <2> QED
      BY <1>1, <2>1, <2>2
  <1>4. CASE LocalEmpty(w)
    BY <1>1, <1>4 DEF LocalEmpty, AtPlace
  <1>5. CASE GlobalRetry(w) \/ GlobalMissed(w) \/ PeerRetry(w) \/ NextPeer(w)
    <2>1. pc[w] \in Away /\ stack[w] = <<>> /\ UNCHANGED <<stack, localQ>>
      BY <1>5
         DEF GlobalRetry, GlobalMissed, PeerRetry, NextPeer, AtPeer, AtPlace
    <2>2. \E place : Goto(w, place)
      BY <1>5 DEF GlobalRetry, GlobalMissed, PeerRetry, NextPeer
    <2> QED
      BY <1>1, <2>1, <2>2 DEF WorkersDry
  <1>6. CASE NoWork(w)
    BY <1>1, <1>6 DEF NoWork, EndLoop, AtPlace
  <1>7. CASE Exit(w)
    <2>1. Goto(w, "exited") /\ UNCHANGED <<stack, localQ>> /\ pc[w] = "released"
      BY <1>7 DEF Exit
    <2> QED
      BY <1>1, <2>1 DEF WorkersDry
  <1>8. CASE Leave(w)
    <2>1. /\ Goto(w, "released") /\ UNCHANGED stack /\ stack[w] = <<>>
          /\ \A v \in Workers : localQ'[v] \in {<<>>, localQ[v]}
      BY <1>8 DEF Leave
    <2> QED
      BY <1>0, <2>1 DEF Goto, WorkersDry
  <1>9. ASSUME NEW u \in Tasks, Poll(w, u)
        PROVE  \A t \in Threads \ {w} : stack'[t] = stack[t]
    BY <1>0, <1>9, OtherStacks DEF CInv, BInv, TInv
  <1>10. CASE PopLocal(w)
    <2>1. \A t \in Threads \ {w} : stack'[t] = stack[t]
      BY <1>9, <1>10, HeadWaits DEF PopLocal, CInv
    <2>2. \A v \in Workers \ {w} : localQ'[v] = localQ[v]
      BY <1>0, <1>10 DEF PopLocal
    <2> QED
      BY <1>2, <1>10, <2>1, <2>2 DEF PopLocal
  <1>11. CASE StealBatch(w) \/ StealOne(w)
    <2>1. \A t \in Threads \ {w} : stack'[t] = stack[t]
      BY <1>9, <1>11, HeadWaits DEF StealBatch, StealOne, CInv
    <2>2. \A v \in Workers \ {w} : localQ'[v] = localQ[v]
      BY <1>0, <1>11 DEF StealBatch, StealOne
    <2> QED
      BY <1>2, <1>11, <2>1, <2>2 DEF StealBatch, StealOne
  <1>12. CASE StealPeer(w) \/ StealPeerOne(w)
    <2> DEFINE p == PeerAt(w)
    <2>1. p \in Workers
      BY PeerIsWorker DEF CInv, BInv, TInv
    <2>2. localQ[p] # <<>> /\ Poll(w, Head(localQ[p])) /\ Goto(w, "check")
      BY <1>12 DEF StealPeer, StealPeerOne, EndLoop
    <2>3. \A v \in Workers \ {w, p} : localQ'[v] = localQ[v]
      BY <1>0, <1>12 DEF StealPeer, StealPeerOne
    <2> HIDE DEF p
    <2>4. \A t \in Threads \ {w} : stack'[t] = stack[t]
      BY <1>9, <2>1, <2>2, HeadWaits DEF CInv
    <2>5. \A v \in Workers \ {w} : localQ[v] = <<>> => localQ'[v] = <<>>
      BY <2>2, <2>3
    <2> QED
      BY <1>2, <2>2, <2>4, <2>5
  <1> QED
    BY <1>3, <1>4, <1>5, <1>6, <1>7, <1>8, <1>10, <1>11, <1>12 DEF WorkerStep

(* Nothing else disturbs it.                                               *)
LEMMA NextDry ==
  ASSUME CInv, WorkersDry, [Next]_vars
  PROVE  WorkersDry'
  <1> USE DEF queueVars, loopVars
  <1>0. TypeOK
    BY DEF CInv, BInv, TInv
  <1>1. ASSUME UNCHANGED <<pc, localQ, stack>>
        PROVE  WorkersDry'
    BY <1>1 DEF WorkersDry
  <1>2. ASSUME NEW th \in Threads, NEW c \in Code, CodeStep(th, c)
        PROVE  WorkersDry'
    <2>1. CASE ReturnReady(th, c) \/ ReturnPending(th, c)
      <3>1. stack[th] # <<>> /\ Return(th) /\ UNCHANGED <<pc, localQ>>
        BY <2>1 DEF ReturnReady, ReturnPending, Running
      <3> QED
        BY <1>0, <3>1, OtherStacks, CodeStaysDry
    <2>2. CASE ~(ReturnReady(th, c) \/ ReturnPending(th, c))
      BY <1>1, <1>2, <2>2
         DEF CodeStep, DoSpawn, DoBlockOn, SpawnTask, Owns, DoAwait, DoYield,
             DoPanic, DoRun, Finish, Send
    <2> QED
      BY <2>1, <2>2
  <1>3. ASSUME NEW th \in Threads, NEW c \in Code, BlockOnStep(th, c)
        PROVE  WorkersDry'
    <2>1. CASE HelpSteal(th, c)
      <3>1. /\ stack[th] # <<>> /\ UNCHANGED <<pc, localQ>>
            /\ globalQ # <<>> /\ Poll(th, Head(globalQ))
        BY <2>1 DEF HelpSteal, Helping, Running
      <3> QED
        BY <1>0, <3>1, HeadWaits, OtherStacks, CodeStaysDry DEF CInv
    <2>2. CASE ~HelpSteal(th, c)
      BY <1>1, <1>3, <2>2
         DEF BlockOnStep, RecvOk, RecvEmpty, RecvDisconnected, HelpEmpty,
             HelpRetry
    <2> QED
      BY <2>1, <2>2
  <1>4. ASSUME NEW th \in Threads,
               Unwind(th) \/ JoinNext(th) \/ JoinSelf(th) \/ DropDone(th)
        PROVE  WorkersDry'
    <2>1. CASE Unwind(th)
      <3>1. /\ stack[th] # <<>> /\ Return(th) /\ UNCHANGED localQ
            /\ pc' = IF th \in Workers /\ Len(stack[th]) = 1
                       THEN [pc EXCEPT ![th] = "leaving"]
                       ELSE pc
        BY <2>1 DEF Unwind
      <3>2. \A t \in Threads \ {th} : stack'[t] = stack[t]
        BY <1>0, <3>1, OtherStacks
      <3>3. CASE th \in Workers /\ Len(stack[th]) = 1
        <4>1. stack'[th] = <<>>
          <5>1. stack'[th] = Front(stack[th]) /\ stack[th] \in Seq(Code)
            BY <1>0, <3>1 DEF Return, TypeOK
          <5>2. stack'[th] \in Seq(Code) /\ Len(stack'[th]) = 0
            BY <3>1, <3>3, <5>1, FramesLemma
          <5> QED
            BY <5>2
        <4>2. \A v \in Workers : pc'[v] = IF v = th THEN "leaving" ELSE pc[v]
          BY <1>0, <3>1, <3>3 DEF TypeOK
        <4> QED
          BY <3>1, <3>2, <4>1, <4>2 DEF WorkersDry, Threads
      <3>4. CASE ~(th \in Workers /\ Len(stack[th]) = 1)
        BY <3>1, <3>2, <3>4, CodeStaysDry
      <3> QED
        BY <3>3, <3>4
    <2>2. CASE JoinNext(th) \/ JoinSelf(th) \/ DropDone(th)
      BY <1>1, <2>2 DEF JoinNext, JoinSelf, DropDone
    <2> QED
      BY <1>4, <2>1, <2>2
  <1>5. CASE UNCHANGED vars
    BY <1>1, <1>5 DEF vars
  <1> QED
    BY <1>2, <1>3, <1>4, <1>5, WorkerStaysDry DEF Next, ThreadStep, Threads

(* At the start all deques and stacks are empty.                           *)
LEMMA InitDry ==
  ASSUME Init
  PROVE  WorkersDry
  BY DEF Init, WorkersDry, Threads

(***************************************************************************)
(* A worker looks outside its deque only when the deque is empty, and it   *)
(* stays empty while the worker looks: nobody else pushes into it.         *)
(***************************************************************************)
THEOREM StealsWhenDry == Spec => []StealsOnlyWhenDry
  <1>1. Init => CInv /\ WorkersDry
    BY InitContract, InitDry
  <1>2. CInv /\ WorkersDry /\ [Next]_vars => CInv' /\ WorkersDry'
    BY NextContract, NextDry
  <1>3. CInv /\ WorkersDry => StealsOnlyWhenDry
    BY DEF WorkersDry, StealsOnlyWhenDry
  <1> QED
    BY <1>1, <1>2, <1>3, PTL DEF Spec

(* push: nothing moves, and the element pushed is the last.                *)
LEMMA OrderAppend ==
  ASSUME NEW S, NEW s \in Seq(S), NEW x \in S
  PROVE  KeepsOrder(s, Append(s, x)) /\ GoesBehind(s, Append(s, x))
  <1> DEFINE t == Append(s, x)
             n == Len(s)
  <1>1. /\ n \in Nat /\ Len(t) = n + 1 /\ t[n + 1] = x
        /\ \A i \in 1 .. n : t[i] = s[i]
    OBVIOUS
  <1>2. \A u : u \in ToSet(s) <=> \E i \in 1 .. n : s[i] = u
    BY ElementsLemma
  <1>3. ToSet(t) = ToSet(s) \cup {x}
    BY AppendLemma
  <1> HIDE DEF t
  <1>4. KeepsOrder(s, t)
    BY <1>1 DEF KeepsOrder, Precedes
  <1> HIDE DEF n
  <1>5. GoesBehind(s, t)
    <2> SUFFICES ASSUME NEW u \in ToSet(s)
                 PROVE  Precedes(t, u, x)
      BY <1>3 DEF GoesBehind
    <2>1. PICK i \in 1 .. n : s[i] = u
      BY <1>2
    <2>2. i \in 1 .. Len(t) /\ n + 1 \in 1 .. Len(t) /\ i < n + 1
      BY <1>1
    <2> QED
      BY <1>1, <2>1, <2>2 DEF Precedes
  <1> QED
    BY <1>4, <1>5 DEF t

(* A batch is appended: nothing moves.                                     *)
LEMMA OrderConcat ==
  ASSUME NEW S, NEW s \in Seq(S), NEW t \in Seq(S)
  PROVE  KeepsOrder(s, s \o t)
  <1>1. \A i \in 1 .. Len(s) : i \in 1 .. Len(s \o t) /\ (s \o t)[i] = s[i]
    OBVIOUS
  <1> QED
    BY <1>1 DEF KeepsOrder, Precedes

(* Elements are taken at the head: those that stay keep their order.       *)
LEMMA OrderBehind ==
  ASSUME NEW S, NEW s \in Seq(S), NEW t \in Seq(S), NEW k \in 1 .. Len(s),
         IsInjective(s), Len(t) = Len(s) - k,
         \A i \in 1 .. Len(s) - k : t[i] = s[i + k]
  PROVE  KeepsOrder(s, t)
  <1> SUFFICES ASSUME NEW u \in ToSet(t), NEW v, Precedes(s, u, v)
               PROVE  Precedes(t, u, v)
    BY DEF KeepsOrder
  <1>1. Len(s) \in Nat /\ k \in Nat
    OBVIOUS
  <1>2. PICK i \in 1 .. Len(s), j \in 1 .. Len(s) : i < j /\ s[i] = u /\ s[j] = v
    BY DEF Precedes
  <1>3. PICK h \in 1 .. Len(s) - k : t[h] = u
    BY ElementsLemma
  <1>4. h + k \in 1 .. Len(s) /\ s[h + k] = u
    BY <1>1, <1>3
  <1>5. i = h + k
    BY <1>2, <1>4, DistinctLemma
  <1>6. j - k \in 1 .. Len(s) - k /\ h < j - k /\ (j - k) + k = j
    <2> DEFINE n == Len(s)
    <2>1. n \in Nat /\ j \in 1 .. n /\ h \in 1 .. n - k /\ h + k < j
      BY <1>1, <1>2, <1>5
    <2> HIDE DEF n
    <2> QED
      BY <1>1, <2>1 DEF n
  <1>7. t[j - k] = v
    BY <1>2, <1>6
  <1> QED
    BY <1>3, <1>6, <1>7 DEF Precedes

(* pop, and the end of a queue from which a batch was taken.               *)
LEMMA OrderTail ==
  ASSUME NEW S, NEW s \in Seq(S), s # <<>>, IsInjective(s)
  PROVE  KeepsOrder(s, Tail(s)) /\ ToSet(Tail(s)) \subseteq ToSet(s)
  <1>1. /\ Tail(s) \in Seq(S) /\ 1 \in 1 .. Len(s) /\ Len(Tail(s)) = Len(s) - 1
        /\ \A i \in 1 .. Len(s) - 1 : Tail(s)[i] = s[i + 1]
    OBVIOUS
  <1>2. KeepsOrder(s, Tail(s))
    BY <1>1, OrderBehind
  <1> QED
    BY <1>2, TailLemma

LEMMA OrderRest ==
  ASSUME NEW S, NEW s \in Seq(S), s # <<>>, IsInjective(s),
         NEW k \in 1 .. Len(s)
  PROVE  /\ KeepsOrder(s, SubSeq(s, k + 1, Len(s)))
         /\ ToSet(SubSeq(s, k + 1, Len(s))) \subseteq ToSet(s)
  <1> DEFINE rest == SubSeq(s, k + 1, Len(s))
  <1>1. /\ rest \in Seq(S) /\ Len(rest) = Len(s) - k
        /\ \A i \in 1 .. Len(s) - k : rest[i] = s[i + k]
    <2>1. \A i \in k + 1 .. Len(s) : i \in 1 .. Len(s)
      OBVIOUS
    <2>2. Len(s) \in Nat
      OBVIOUS
    <2> QED
      BY <2>1, <2>2, SubSeqProperties
  <1>2. ToSet(rest) \subseteq ToSet(s)
    BY BatchLemma
  <1> HIDE DEF rest
  <1>3. KeepsOrder(s, rest)
    BY <1>1, OrderBehind
  <1> QED
    BY <1>2, <1>3 DEF rest

(* A queue that only loses elements, or stays as it is.                    *)
LEMMA OrderTrivial ==
  ASSUME NEW q, NEW r
  PROVE  /\ r \in {q, <<>>} => KeepsOrder(q, r) /\ ToSet(r) \subseteq ToSet(q)
         /\ ToSet(r) \subseteq ToSet(q) => GoesBehind(q, r)
  BY EmptyLemma DEF KeepsOrder, GoesBehind

(* What a step may do to the deque of w.                                   *)
DequeIsKept(w) ==
  /\ KeepsOrder(localQ[w], localQ'[w])
  /\ \A u \in ToSet(localQ'[w]) : InLine(u)

(* Steps fill a deque from the global queue or another deque only, behind  *)
(* what is in it, and empty it from the head.                              *)
LEMMA DequesAreKept ==
  ASSUME BInv, [Next]_vars, NEW w \in Workers
  PROVE  DequeIsKept(w)
  <1> USE DEF queueVars
  <1>0. /\ localQ \in [Workers -> Seq(Tasks)]
        /\ \A v \in Workers : localQ[v] \in Seq(Tasks) /\ IsInjective(localQ[v])
        /\ globalQ \in Seq(Tasks)
    BY QueueFacts DEF BInv, TInv, TypeOK
  <1>1. ASSUME KeepsOrder(localQ[w], localQ'[w]),
               ToSet(localQ'[w]) \subseteq ToSet(localQ[w])
        PROVE  DequeIsKept(w)
    BY <1>1 DEF DequeIsKept, InLine, InDeque
  <1>2. ASSUME localQ'[w] \in {localQ[w], <<>>}
        PROVE  DequeIsKept(w)
    BY <1>1, <1>2, OrderTrivial
  <1>3. ASSUME NEW batch \in Seq(Tasks), \A u \in ToSet(batch) : InLine(u),
               localQ'[w] = localQ[w] \o batch
        PROVE  DequeIsKept(w)
    <2>1. ToSet(localQ'[w]) = ToSet(localQ[w]) \cup ToSet(batch)
      BY <1>0, <1>3, ConcatLemma
    <2>2. KeepsOrder(localQ[w], localQ'[w])
      BY <1>0, <1>3, OrderConcat
    <2> QED
      BY <1>3, <2>1, <2>2 DEF DequeIsKept, InLine, InDeque
  <1>4. ASSUME NEW x \in Workers, WorkerStep(x)
        PROVE  DequeIsKept(w)
    <2>1. CASE PopLocal(x)
      <3>1. /\ localQ[x] # <<>>
            /\ localQ'[w] = IF w = x THEN Tail(localQ[x]) ELSE localQ[w]
        BY <1>0, <2>1 DEF PopLocal
      <3>2. KeepsOrder(localQ[x], Tail(localQ[x]))
            /\ ToSet(Tail(localQ[x])) \subseteq ToSet(localQ[x])
        BY <1>0, <3>1, OrderTail
      <3> QED
        BY <1>1, <1>2, <3>1, <3>2
    <2>2. CASE StealBatch(x)
      <3>1. globalQ # <<>>
        BY <2>2 DEF StealBatch
      <3>2. PICK k \in 1 .. Len(globalQ) :
              localQ' = [localQ EXCEPT ![x] = @ \o SubSeq(globalQ, 2, k)]
        BY <2>2 DEF StealBatch
      <3> DEFINE batch == SubSeq(globalQ, 2, k)
      <3>3. batch \in Seq(Tasks) /\ ToSet(batch) \subseteq ToSet(globalQ)
        BY <1>0, <3>1, BatchLemma
      <3>4. localQ'[w] = IF w = x THEN localQ[x] \o batch ELSE localQ[w]
        BY <1>0, <3>2
      <3> HIDE DEF batch
      <3>5. \A u \in ToSet(batch) : InLine(u)
        BY <3>3 DEF InLine, Queued
      <3> QED
        BY <1>2, <1>3, <3>3, <3>4, <3>5
    <2>3. CASE StealPeer(x)
      <3> DEFINE p == PeerAt(x)
      <3>1. p \in Workers /\ p # x /\ localQ[p] # <<>>
        BY <2>3, PeerIsWorker DEF StealPeer, AtPeer, BInv, TInv
      <3>2. PICK k \in 1 .. Len(localQ[p]) :
              localQ' = [localQ EXCEPT ![x] = @ \o SubSeq(localQ[p], 2, k),
                                       ![p] = SubSeq(@, k + 1, Len(@))]
        BY <2>3 DEF StealPeer
      <3> HIDE DEF p
      <3> DEFINE batch == SubSeq(localQ[p], 2, k)
                 rest == SubSeq(localQ[p], k + 1, Len(localQ[p]))
      <3>3. batch \in Seq(Tasks) /\ ToSet(batch) \subseteq ToSet(localQ[p])
        BY <1>0, <3>1, BatchLemma
      <3>4. KeepsOrder(localQ[p], rest) /\ ToSet(rest) \subseteq ToSet(localQ[p])
        BY <1>0, <3>1, OrderRest
      <3>5. localQ'[w] = IF w = x THEN localQ[x] \o batch
                         ELSE IF w = p THEN rest ELSE localQ[w]
        BY <1>0, <3>1, <3>2
      <3> HIDE DEF batch, rest
      <3>6. \A u \in ToSet(batch) : InLine(u)
        BY <3>1, <3>3 DEF InLine, InDeque
      <3> QED
        BY <1>1, <1>2, <1>3, <3>3, <3>4, <3>5, <3>6
    <2>4. CASE StealPeerOne(x)
      <3> DEFINE p == PeerAt(x)
      <3>1. p \in Workers /\ localQ[p] # <<>>
        BY <2>4, PeerIsWorker DEF StealPeerOne, BInv, TInv
      <3>2. localQ' = [localQ EXCEPT ![p] = Tail(@)]
        BY <2>4 DEF StealPeerOne
      <3> HIDE DEF p
      <3>3. localQ'[w] = IF w = p THEN Tail(localQ[p]) ELSE localQ[w]
        BY <1>0, <3>1, <3>2
      <3>4. KeepsOrder(localQ[p], Tail(localQ[p]))
            /\ ToSet(Tail(localQ[p])) \subseteq ToSet(localQ[p])
        BY <1>0, <3>1, OrderTail
      <3> QED
        BY <1>1, <1>2, <3>3, <3>4
    <2>5. CASE Leave(x)
      BY <1>2, <2>5 DEF Leave
    <2>6. CASE UNCHANGED localQ
      BY <1>2, <2>6
    <2> QED
      BY <1>4, <2>1, <2>2, <2>3, <2>4, <2>5, <2>6
         DEF WorkerStep, CheckShutdown, LocalEmpty, GlobalRetry, StealOne,
             GlobalMissed, PeerRetry, NextPeer, NoWork, Exit
  <1>5. ASSUME NEW th \in Threads, NEW c \in Code, CodeStep(th, c) \/ BlockOnStep(th, c)
        PROVE  DequeIsKept(w)
    <2>1. UNCHANGED localQ
      BY <1>5
         DEF CodeStep, DoSpawn, DoBlockOn, SpawnTask, Owns, DoAwait, DoYield,
             DoPanic, DoRun, Finish, Send, ReturnReady, ReturnPending,
             BlockOnStep, RecvOk, RecvEmpty, RecvDisconnected, HelpSteal,
             HelpEmpty, HelpRetry
    <2> QED
      BY <1>2, <2>1
  <1>6. ASSUME NEW th \in Threads,
               Unwind(th) \/ JoinNext(th) \/ JoinSelf(th) \/ DropDone(th)
        PROVE  DequeIsKept(w)
    BY <1>2, <1>6 DEF Unwind, JoinNext, JoinSelf, DropDone
  <1>7. CASE UNCHANGED vars
    BY <1>2, <1>7 DEF vars
  <1> QED
    BY <1>4, <1>5, <1>6, <1>7 DEF Next, ThreadStep, Threads

(* What a step may do to the global queue.                                 *)
LineIsKept == KeepsOrder(globalQ, globalQ') /\ GoesBehind(globalQ, globalQ')

(* Steps fill the global queue at its end and empty it from the head.      *)
LEMMA QueueIsKept ==
  ASSUME BInv, [Next]_vars
  PROVE  LineIsKept
  <1> USE DEF queueVars
  <1>0. globalQ \in Seq(Tasks) /\ IsInjective(globalQ)
    BY QueueFacts
  <1>1. ASSUME globalQ' \in {globalQ, <<>>}
        PROVE  LineIsKept
    BY <1>1, OrderTrivial DEF LineIsKept
  <1>2. ASSUME NEW x \in Tasks, globalQ' = Append(globalQ, x)
        PROVE  LineIsKept
    BY <1>0, <1>2, OrderAppend DEF LineIsKept
  <1>3. ASSUME globalQ # <<>>, globalQ' = Tail(globalQ)
        PROVE  LineIsKept
    BY <1>0, <1>3, OrderTail, OrderTrivial DEF LineIsKept
  <1>4. ASSUME NEW th \in Threads, NEW c \in Code, CodeStep(th, c)
        PROVE  LineIsKept
    <2>1. CASE DoSpawn(th, c) \/ DoBlockOn(th, c)
      <3>1. Operand(c) \in Tasks
        BY <2>1, OperandIsTask DEF DoSpawn, DoBlockOn, AtOp, BInv, TInv
      <3>2. globalQ' = Append(globalQ, Operand(c))
        BY <2>1 DEF DoSpawn, DoBlockOn, SpawnTask
      <3> QED
        BY <1>2, <3>1, <3>2
    <2>2. CASE ReturnPending(th, c)
      <3>1. c \in Tasks /\ globalQ' = Append(globalQ, c)
        BY <2>2 DEF ReturnPending, BInv, TInv, OnlyTasksPend
      <3> QED
        BY <1>2, <3>1
    <2>3. CASE UNCHANGED globalQ
      BY <1>1, <2>3
    <2> QED
      BY <1>4, <2>1, <2>2, <2>3
         DEF CodeStep, DoAwait, DoYield, Wake, DoPanic, DoRun, Finish, Send,
             ReturnReady
  <1>5. ASSUME NEW th \in Threads, NEW c \in Code, BlockOnStep(th, c)
        PROVE  LineIsKept
    BY <1>1, <1>3, <1>5
       DEF BlockOnStep, RecvOk, RecvEmpty, RecvDisconnected, HelpSteal,
           HelpEmpty, HelpRetry
  <1>6. ASSUME NEW x \in Workers, WorkerStep(x)
        PROVE  LineIsKept
    <2>1. CASE StealBatch(x)
      <3>1. globalQ # <<>>
        BY <2>1 DEF StealBatch
      <3>2. PICK k \in 1 .. Len(globalQ) :
              globalQ' = SubSeq(globalQ, k + 1, Len(globalQ))
        BY <2>1 DEF StealBatch
      <3>3. KeepsOrder(globalQ, globalQ') /\ ToSet(globalQ') \subseteq ToSet(globalQ)
        BY <1>0, <3>1, <3>2, OrderRest
      <3> QED
        BY <3>3, OrderTrivial DEF LineIsKept
    <2>2. CASE StealOne(x)
      BY <1>3, <2>2 DEF StealOne
    <2>3. CASE Leave(x)
      BY <1>1, <2>3 DEF Leave
    <2>4. CASE UNCHANGED globalQ
      BY <1>1, <2>4
    <2> QED
      BY <1>6, <2>1, <2>2, <2>3, <2>4
         DEF WorkerStep, CheckShutdown, PopLocal, LocalEmpty, GlobalRetry,
             GlobalMissed, StealPeer, PeerRetry, StealPeerOne, NextPeer,
             NoWork, Exit
  <1>7. ASSUME NEW th \in Threads,
               Unwind(th) \/ JoinNext(th) \/ JoinSelf(th) \/ DropDone(th)
        PROVE  LineIsKept
    BY <1>1, <1>7 DEF Unwind, JoinNext, JoinSelf, DropDone
  <1>8. CASE UNCHANGED vars
    BY <1>1, <1>8 DEF vars
  <1> QED
    BY <1>4, <1>5, <1>6, <1>7, <1>8 DEF Next, ThreadStep, Threads

(***************************************************************************)
(* Whatever is spawned or pushed back goes behind all others in the global *)
(* queue, and no steal lets a task pass one that is in front of it.        *)
(***************************************************************************)
THEOREM LinesAreKept == Spec => NobodyOvertakes
  <1>1. Init => BInv
    BY InitBooks
  <1>2. BInv /\ [Next]_vars => BInv'
    BY NextBooks
  <1>3. BInv /\ [Next]_vars =>
          [/\ KeepsOrder(globalQ, globalQ') /\ GoesBehind(globalQ, globalQ')
           /\ \A w \in Workers :
                /\ KeepsOrder(localQ[w], localQ'[w])
                /\ \A u \in Tasks : InDeque(w, u)' => InLine(u)]_vars
    BY QueueIsKept, DequesAreKept DEF LineIsKept, DequeIsKept, InDeque
  <1> QED
    BY <1>1, <1>2, <1>3, PTL DEF Spec, NobodyOvertakes

-----------------------------------------------------------------------------
(* Counting.                                                               *)

Completed == {u \in Tasks : mode[u] = "done"}

CountInv == IsFiniteSet(Completed) /\ processed <= Cardinality(Completed)

(* A step completes one task or none, and never undoes it.                 *)
LEMMA CompletedGrows ==
  ASSUME CInv, Kinds
  PROVE  Completed' = Completed \/ \E c \in Code : Completed' = Completed \cup {c}
  <1>0. mode \in [Code -> Modes]
    BY DEF CInv, BInv, TInv, TypeOK
  <1>1. ASSUME \A u \in Tasks : mode'[u] = "done" <=> mode[u] = "done"
        PROVE  Completed' = Completed
    BY <1>1 DEF Completed
  <1>2. ASSUME NEW th \in Threads, NEW c \in Code, Running(th, c),
               NEW m, m # "done", mode' = [mode EXCEPT ![c] = m]
        PROVE  Completed' = Completed
    <2>1. c \in Tasks => mode[c] # "done"
      BY <1>2, TopFacts DEF InFlight
    <2> QED
      BY <1>0, <1>1, <1>2, <2>1 DEF Code
  <1>3. ASSUME NEW S, Destroy(S), \A u \in S \cap Tasks : InFlight(u)
        PROVE  Completed' = Completed
    BY <1>1, <1>3 DEF Destroy, InFlight, Code
  <1>4. CASE Quiet
    BY <1>1, <1>4 DEF Quiet
  <1>5. ASSUME NEW th \in Threads, NEW c \in Code, NEW u \in Tasks, Spawns(th, c, u)
        PROVE  Completed' = Completed
    BY <1>1, <1>2, <1>5 DEF Spawns
  <1>6. ASSUME NEW th \in Threads, NEW c \in Code, NEW m, Stops(th, c, m)
        PROVE  Completed' = Completed
    BY <1>2, <1>6 DEF Stops
  <1>7. ASSUME NEW th \in Threads, NEW c \in Code, NEW v, Takes(th, c, v)
        PROVE  Completed' = Completed
    BY <1>2, <1>7 DEF Takes
  <1>8. ASSUME NEW th \in Threads, NEW c \in Code, Sends(th, c)
        PROVE  Completed' = Completed
    BY <1>2, <1>8 DEF Sends
  <1>9. ASSUME NEW th \in Threads, NEW u \in Tasks, Polls(th, u)
        PROVE  Completed' = Completed
    BY <1>1, <1>9 DEF Polls
  <1>10. ASSUME NEW th \in Threads, NEW c \in Code, NEW m, Returns(th, c, m)
         PROVE  Completed' = Completed \/ Completed' = Completed \cup {c}
    <2>1. CASE m = "done"
      <3>1. \A u \in Tasks : mode'[u] = IF u = c THEN "done" ELSE mode[u]
        BY <1>0, <1>10, <2>1 DEF Returns, Code
      <3>2. CASE c \in Tasks
        BY <3>1, <3>2 DEF Completed
      <3>3. CASE c \notin Tasks
        BY <1>1, <3>1, <3>3
      <3> QED
        BY <3>2, <3>3
    <2>2. CASE m # "done"
      BY <1>2, <1>10, <2>2 DEF Returns
    <2> QED
      BY <2>1, <2>2
  <1>11. ASSUME NEW S, Discards(S)
         PROVE  Completed' = Completed
    BY <1>3, <1>11 DEF Discards
  <1>12. ASSUME NEW th \in Threads, NEW c \in Code, Unwinds(th, c)
         PROVE  Completed' = Completed
    <2>1. Polled(th, c)
      BY <1>12, ReturnFacts DEF Unwinds, CInv, Polled
    <2>2. c \in Tasks => InFlight(c)
      BY <2>1 DEF CInv, BInv, Books, NothingMislaid
    <2> QED
      BY <1>3, <1>12, <2>2 DEF Unwinds
  <1> QED
    BY <1>4, <1>5, <1>6, <1>7, <1>8, <1>9, <1>10, <1>11, <1>12 DEF Kinds

(* Only a poll that returns Ready to a worker's own loop is counted.       *)
LEMMA ProcessedGrows ==
  ASSUME CInv, [Next]_vars
  PROVE  \/ processed' = processed
         \/ /\ processed' = processed + 1
            /\ \E c \in Tasks : /\ mode[c] # "done"
                                /\ Completed' = Completed \cup {c}
  <1> DEFINE Counted == /\ processed' = processed + 1
                        /\ \E c \in Tasks : /\ mode[c] # "done"
                                            /\ Completed' = Completed \cup {c}
  <1>1. ASSUME NEW th \in Threads, NEW c \in Code, CodeStep(th, c)
        PROVE  processed' = processed \/ Counted
    <2>1. CASE ReturnReady(th, c)
      <3>1. CASE th \in Workers /\ Len(stack[th]) = 1
        <4>1. /\ processed' = processed + 1 /\ Running(th, c)
              /\ mode' = [mode EXCEPT ![c] = "done"] /\ mode[c] = "ready"
          BY <2>1, <3>1 DEF ReturnReady
        <4>2. c \in Tasks
          <5>1. c \in Callers => c = th
            BY <4>1, TopFacts DEF CInv, StackInv, CallersHome
          <5> QED
            BY <3>1, <5>1, ExecutorAssumption DEF Code
        <4>3. \A u \in Tasks : mode'[u] = IF u = c THEN "done" ELSE mode[u]
          BY <4>1 DEF CInv, BInv, TInv, TypeOK, Code
        <4>4. Completed' = Completed \cup {c}
          BY <4>2, <4>3 DEF Completed
        <4> QED
          BY <4>1, <4>2, <4>4
      <3>2. CASE ~(th \in Workers /\ Len(stack[th]) = 1)
        BY <2>1, <3>2 DEF ReturnReady
      <3> QED
        BY <3>1, <3>2
    <2>2. CASE ~ReturnReady(th, c)
      <3>1. processed' = processed
        BY <1>1, <2>2
           DEF CodeStep, DoSpawn, DoBlockOn, DoAwait, DoYield, DoPanic, DoRun,
               Finish, Send, ReturnPending
      <3> QED
        BY <3>1
    <2> QED
      BY <2>1, <2>2
  <1>2. ASSUME NEW th \in Threads, NEW c \in Code, BlockOnStep(th, c)
        PROVE  processed' = processed
    BY <1>2
       DEF BlockOnStep, RecvOk, RecvEmpty, RecvDisconnected, HelpSteal,
           HelpEmpty, HelpRetry
  <1>3. ASSUME NEW w \in Workers, WorkerStep(w)
        PROVE  processed' = processed
    BY <1>3
       DEF WorkerStep, CheckShutdown, PopLocal, LocalEmpty, StealBatch,
           GlobalRetry, StealOne, GlobalMissed, StealPeer, PeerRetry,
           StealPeerOne, NextPeer, NoWork, Leave, Exit
  <1>4. ASSUME NEW th \in Threads,
               Unwind(th) \/ JoinNext(th) \/ JoinSelf(th) \/ DropDone(th)
        PROVE  processed' = processed
    BY <1>4 DEF Unwind, JoinNext, JoinSelf, DropDone
  <1>5. CASE UNCHANGED vars
    BY <1>5 DEF vars
  <1> QED
    BY <1>1, <1>2, <1>3, <1>4, <1>5 DEF Next, ThreadStep, Threads

(* Only a completion counts, and each once.                                *)
LEMMA NextCount ==
  ASSUME CInv, CountInv, [Next]_vars
  PROVE  CountInv'
  <1>1. Cardinality(Completed) \in Nat /\ processed \in Nat
    BY FS_CardinalityType DEF CountInv, CInv, BInv, TInv, TypeOK
  <1>2. ASSUME processed' = processed, Completed' = Completed
        PROVE  CountInv'
    BY <1>2 DEF CountInv
  <1>3. ASSUME NEW c, Completed' = Completed \cup {c}
        PROVE  /\ IsFiniteSet(Completed')
               /\ Cardinality(Completed') = IF c \in Completed
                                              THEN Cardinality(Completed)
                                              ELSE Cardinality(Completed) + 1
    BY <1>3, FS_AddElement DEF CountInv
  <1>4. ASSUME NEW c, Completed' = Completed \cup {c}, processed' = processed
        PROVE  CountInv'
    BY <1>1, <1>3, <1>4 DEF CountInv
  <1>5. ASSUME NEW c, mode[c] # "done", Completed' = Completed \cup {c},
               processed' = processed + 1
        PROVE  CountInv'
    <2>1. c \notin Completed
      BY <1>5 DEF Completed
    <2>2. /\ IsFiniteSet(Completed')
          /\ Cardinality(Completed') = Cardinality(Completed) + 1
      BY <1>3, <1>5, <2>1
    <2>3. processed' <= Cardinality(Completed')
      BY <1>1, <1>5, <2>2 DEF CountInv
    <2> QED
      BY <2>2, <2>3 DEF CountInv
  <1> QED
    BY <1>2, <1>4, <1>5, NextKind, CompletedGrows, ProcessedGrows

(* At the start nothing is done and nothing counted.                       *)
LEMMA InitCount ==
  ASSUME Init
  PROVE  CountInv
  <1>1. Completed = {}
    BY DEF Init, Completed, Code
  <1> QED
    BY <1>1, FS_EmptySet DEF Init, CountInv

(***************************************************************************)
(* tasks_processed never runs ahead of the tasks that have completed,      *)
(* whoever polls them and however often.                                   *)
(***************************************************************************)
THEOREM CountsAreSafe == Spec => []CountsNoMoreThanDone
  <1>1. Init => CInv /\ CountInv
    BY InitContract, InitCount
  <1>2. CInv /\ CountInv /\ [Next]_vars => CInv' /\ CountInv'
    BY NextContract, NextCount
  <1>3. CountInv => CountsNoMoreThanDone
    BY DEF CountInv, CountsNoMoreThanDone, Completed, stats
  <1> QED
    BY <1>1, <1>2, <1>3, PTL DEF Spec

-----------------------------------------------------------------------------
(* Who holds the Runtime.                                                  *)

(* Code that has a poll, or a call of block_on, still to return.           *)
Active == {"code", "blocked", "pending"}

Holder(c) ==
  /\ c \in Tasks => chan[c] # "none"
  /\ mode[c] \in Active
  /\ Owns(c)

(* Code that may still call the runtime owns a clone of it, and the flag   *)
(* is raised when the last clone goes.                                     *)
OwnersInv ==
  /\ \A c \in Code : Holder(c) => c \in owners
  /\ shutdown <=> owners = {}

(* Channels are closed after a fault only.                                 *)
ClosedInFault == \A u \in Tasks : chan[u] = "closed" => faultedBar

(* Code that is blocked is in a block_on whose result is still to come.    *)
BlockedAt ==
  \A c \in Code :
    mode[c] = "blocked" =>
      /\ ip[c] \in DOMAIN script[c]
      /\ script[c][ip[c]].do = "block_on"
      /\ chan[Operand(c)] \notin {"none", "received"}

OInv == HandlesMove(script) /\ OwnersInv /\ ClosedInFault /\ BlockedAt

(* What a step does to the clones.                                         *)
KeepsOwners ==
  /\ UNCHANGED <<owners, shutdown>>
  /\ \A c \in Code : Holder(c)' => Holder(c)

AddsOwner ==
  /\ owners # {} /\ owners \subseteq owners' /\ UNCHANGED shutdown
  /\ \A c \in Code : Holder(c)' => Holder(c) \/ c \in owners'

DropsOwners ==
  \E th \in Threads : \E S :
    /\ DropRuntime(th, S)
    /\ \A c \in Code : Holder(c)' => Holder(c) /\ c \notin S

OwnerKinds == KeepsOwners \/ AddsOwner \/ DropsOwners

(* Each kind keeps the books of the owners.                                *)
LEMMA NextOwners ==
  ASSUME OwnersInv, TypeOK, OwnerKinds
  PROVE  OwnersInv'
  <1>0. shutdown \in BOOLEAN
    BY DEF TypeOK
  <1>1. CASE KeepsOwners
    BY <1>1 DEF KeepsOwners, OwnersInv
  <1>2. CASE AddsOwner
    BY <1>2 DEF AddsOwner, OwnersInv
  <1>3. CASE DropsOwners
    <2>0. PICK th \in Threads :
            \E S : /\ DropRuntime(th, S)
                   /\ \A c \in Code : Holder(c)' => Holder(c) /\ c \notin S
      BY <1>3 DEF DropsOwners
    <2>1. PICK S : /\ DropRuntime(th, S)
                   /\ \A c \in Code : Holder(c)' => Holder(c) /\ c \notin S
      BY <2>0
    <2>2. \A c \in Code : Holder(c)' => c \in owners'
      BY <2>1 DEF DropRuntime, OwnersInv
    <2>3. shutdown' <=> owners' = {}
      BY <1>0, <2>1 DEF DropRuntime, LastOwners, OwnersInv
    <2> QED
      BY <2>2, <2>3 DEF OwnersInv
  <1> QED
    BY <1>1, <1>2, <1>3 DEF OwnerKinds

(* Code changes its mode: who holds a clone afterwards.                    *)
LEMMA HolderFrame ==
  ASSUME UNCHANGED script,
         \A c \in Code : mode'[c] \in Active => mode[c] \in Active,
         \A u \in Tasks : chan[u] = "none" => chan'[u] = "none"
  PROVE  \A c \in Code : Holder(c)' => Holder(c)
  BY DEF Holder, Owns

(* Code that calls the runtime owns a clone.                               *)
LEMMA CallerOwns ==
  ASSUME CInv, OwnersInv, NEW th \in Threads, NEW c \in Code,
         AtOp(th, c, "spawn") \/ AtOp(th, c, "block_on")
  PROVE  c \in owners /\ ~shutdown
  <1>1. ip[c] \in DOMAIN script[c]
    BY DEF AtOp, CInv, BInv, TInv, TypeOK
  <1>2. Owns(c)
    BY <1>1 DEF AtOp, Owns, Captures
  <1>3. Running(th, c) /\ mode[c] \in Active
    BY DEF AtOp, Active
  <1>4. c \in Tasks => chan[c] # "none"
    BY <1>3, RunningLife
  <1> QED
    BY <1>2, <1>3, <1>4 DEF OwnersInv, Holder

(* A spawn gives its task a clone.                                         *)
LEMMA SpawnOwners ==
  ASSUME CInv, OwnersInv, NEW th \in Threads, NEW c \in Code, NEW u \in Tasks,
         AtOp(th, c, "spawn") \/ AtOp(th, c, "block_on"),
         SpawnTask(u), UNCHANGED script,
         mode' \in {mode, [mode EXCEPT ![c] = "blocked"]}
  PROVE  AddsOwner
  <1>1. c \in owners
    BY CallerOwns
  <1>2. /\ owners' = IF Owns(u) THEN owners \cup {u} ELSE owners
        /\ UNCHANGED shutdown
        /\ chan' = [chan EXCEPT ![u] = "open"]
    BY DEF SpawnTask
  <1>3. \A v \in Tasks : v # u => chan'[v] = chan[v]
    BY <1>2 DEF CInv, BInv, TInv, TypeOK
  <1>4. \A x \in Code : mode'[x] \in Active => mode[x] \in Active
    <2>1. mode[c] \in Active
      BY DEF AtOp, Active
    <2>2. \A x \in Code : x = c \/ mode'[x] = mode[x]
      BY DEF CInv, BInv, TInv, TypeOK
    <2> QED
      BY <2>1, <2>2
  <1>5. \A x \in Code : Holder(x)' => Holder(x) \/ x \in owners'
    <2> SUFFICES ASSUME NEW x \in Code, Holder(x)'
                 PROVE  Holder(x) \/ x \in owners'
      OBVIOUS
    <2>1. Owns(x) /\ mode[x] \in Active
      BY <1>4 DEF Holder, Owns
    <2>2. CASE x = u
      BY <1>2, <2>1, <2>2
    <2>3. CASE x # u
      BY <1>3, <2>1, <2>3 DEF Holder
    <2> QED
      BY <2>2, <2>3
  <1> QED
    BY <1>1, <1>2, <1>5 DEF AddsOwner

(* Tasks are destroyed, and what they held is dropped or held no longer.   *)
LEMMA DestroyHolders ==
  ASSUME CInv, NEW S, Destroy(S), UNCHANGED script
  PROVE  \A c \in Code : Holder(c)' => Holder(c) /\ c \notin S
  <1>1. \A c \in Code : mode'[c] = IF c \in S THEN "dropped" ELSE mode[c]
    BY DEF Destroy
  <1>2. \A u \in Tasks : u \notin S => chan'[u] = chan[u]
    BY DEF Destroy
  <1> QED
    BY <1>1, <1>2 DEF Holder, Owns, Active

(* Every step is of one of these kinds.                                    *)
LEMMA NextOwnerKind ==
  ASSUME CInv, OwnersInv, [Next]_vars
  PROVE  OwnerKinds
  <1> USE DEF userVars, queueVars, loopVars, dropVars, panicVars
  <1>0. mode \in [Code -> Modes] /\ chan \in [Tasks -> ChannelStates]
    BY DEF CInv, BInv, TInv, TypeOK
  <1>1. ASSUME UNCHANGED <<script, owners, shutdown>>,
               \A c \in Code : mode'[c] \in Active => mode[c] \in Active,
               \A u \in Tasks : chan[u] = "none" => chan'[u] = "none"
        PROVE  OwnerKinds
    BY <1>1, HolderFrame DEF KeepsOwners, OwnerKinds
  <1>2. ASSUME UNCHANGED <<script, owners, shutdown, chan, mode>>
        PROVE  OwnerKinds
    BY <1>1, <1>2
  <1>3. ASSUME NEW c \in Code, NEW m,
               UNCHANGED <<script, owners, shutdown>>,
               mode' = mode \/ mode' = [mode EXCEPT ![c] = m],
               m \in Active => mode[c] \in Active,
               \A u \in Tasks : chan[u] = "none" => chan'[u] = "none"
        PROVE  OwnerKinds
    <2>1. \A x \in Code : mode'[x] = mode[x] \/ (x = c /\ mode'[x] = m)
      BY <1>0, <1>3
    <2> QED
      BY <1>1, <1>3, <2>1
  <1>4. ASSUME NEW v, chan[v] # "none",
               chan' = chan \/ \E s : chan' = [chan EXCEPT ![v] = s]
        PROVE  \A u \in Tasks : chan[u] = "none" => chan'[u] = "none"
    BY <1>0, <1>4
  <1>5. ASSUME NEW th \in Threads, NEW c \in Code, CodeStep(th, c)
        PROVE  OwnerKinds
    <2>1. CASE DoSpawn(th, c) \/ DoBlockOn(th, c)
      <3>1. Operand(c) \in Tasks
        BY <2>1, OperandIsTask DEF DoSpawn, DoBlockOn, AtOp, CInv, BInv, TInv
      <3>2. /\ AtOp(th, c, "spawn") \/ AtOp(th, c, "block_on")
            /\ SpawnTask(Operand(c)) /\ UNCHANGED script
            /\ mode' \in {mode, [mode EXCEPT ![c] = "blocked"]}
        BY <2>1 DEF DoSpawn, DoBlockOn
      <3> QED
        BY <3>1, <3>2, SpawnOwners DEF OwnerKinds
    <2>2. CASE DoAwait(th, c)
      <3>1. mode[c] = "code" /\ UNCHANGED <<script, owners, shutdown>>
        BY <2>2 DEF DoAwait, AtOp
      <3>2. /\ mode' = mode \/ mode' = [mode EXCEPT ![c] = "pending"]
            /\ \/ chan' = chan
               \/ /\ chan[Operand(c)] = "value"
                  /\ chan' = [chan EXCEPT ![Operand(c)] = "received"]
        BY <2>2 DEF DoAwait, Answers
      <3>3. \A u \in Tasks : chan[u] = "none" => chan'[u] = "none"
        BY <1>4, <3>2
      <3> QED
        BY <1>3, <3>1, <3>2, <3>3 DEF Active
    <2>3. CASE DoYield(th, c)
      BY <1>3, <2>3 DEF DoYield, AtOp, Active
    <2>4. CASE DoPanic(th, c) \/ DoRun(th, c)
      BY <1>2, <2>4 DEF DoPanic, DoRun
    <2>5. CASE Finish(th, c)
      <3>1. /\ DropRuntime(th, {c}) /\ mode[c] = "code" /\ UNCHANGED <<script, chan>>
            /\ mode' = [mode EXCEPT ![c] = IF c \in Tasks THEN "finished" ELSE "ready"]
        BY <2>5 DEF Finish
      <3>2. \A x \in Code : IF x = c THEN mode'[x] \in {"finished", "ready"}
                                     ELSE mode'[x] = mode[x]
        BY <1>0, <3>1
      <3>3. \A x \in Code : Holder(x)' => Holder(x) /\ x \notin {c}
        BY <3>1, <3>2 DEF Holder, Owns, Active
      <3> QED
        BY <3>1, <3>3 DEF DropsOwners, OwnerKinds
    <2>6. CASE Send(th, c)
      <3>1. c \in Tasks => chan[c] # "none"
        BY <2>6, RunningLife DEF Send
      <3>2. \A u \in Tasks : chan[u] = "none" => chan'[u] = "none"
        BY <1>0, <2>6, <3>1 DEF Send
      <3> QED
        BY <1>3, <2>6, <3>2 DEF Send, Active
    <2>7. CASE ReturnReady(th, c)
      BY <1>3, <2>7 DEF ReturnReady, Active
    <2>8. CASE ReturnPending(th, c)
      BY <1>3, <2>8 DEF ReturnPending, Active
    <2> QED
      BY <1>5, <2>1, <2>2, <2>3, <2>4, <2>5, <2>6, <2>7, <2>8 DEF CodeStep
  <1>6. ASSUME NEW th \in Threads, NEW c \in Code, BlockOnStep(th, c)
        PROVE  OwnerKinds
    <2>1. CASE RecvOk(th, c)
      <3>1. /\ chan[Operand(c)] = "value"
            /\ chan' = [chan EXCEPT ![Operand(c)] = "received"]
        BY <2>1 DEF RecvOk, Answers
      <3>2. \A u \in Tasks : chan[u] = "none" => chan'[u] = "none"
        BY <1>4, <3>1
      <3> QED
        BY <1>3, <2>1, <3>2 DEF RecvOk, Looking, Active
    <2>2. CASE ~RecvOk(th, c)
      BY <1>2, <1>6, <2>2
         DEF BlockOnStep, RecvEmpty, RecvDisconnected, HelpSteal, HelpEmpty,
             HelpRetry
    <2> QED
      BY <2>1, <2>2
  <1>7. ASSUME NEW w \in Workers, WorkerStep(w)
        PROVE  OwnerKinds
    <2>1. CASE Leave(w)
      <3>1. PICK S : Destroy(S) /\ DropRuntime(w, S) /\ UNCHANGED script
        BY <2>1 DEF Leave
      <3>2. w \in Threads
        BY DEF Threads
      <3> QED
        BY <3>1, <3>2, DestroyHolders DEF DropsOwners, OwnerKinds
    <2>2. CASE ~Leave(w)
      BY <1>2, <1>7, <2>2
         DEF WorkerStep, CheckShutdown, PopLocal, LocalEmpty, StealBatch,
             GlobalRetry, StealOne, GlobalMissed, StealPeer, PeerRetry,
             StealPeerOne, NextPeer, NoWork, Exit
    <2> QED
      BY <2>1, <2>2
  <1>8. ASSUME NEW th \in Threads,
               Unwind(th) \/ JoinNext(th) \/ JoinSelf(th) \/ DropDone(th)
        PROVE  OwnerKinds
    <2>1. CASE Unwind(th)
      <3>1. PICK S : Destroy(S) /\ DropRuntime(th, S) /\ UNCHANGED script
        BY <2>1 DEF Unwind
      <3> QED
        BY <3>1, DestroyHolders DEF DropsOwners, OwnerKinds
    <2>2. CASE DropDone(th)
      <3>1. /\ Destroy(ToSet(globalQ))
            /\ UNCHANGED <<script, owners, shutdown>>
        BY <2>2 DEF DropDone
      <3> QED
        BY <3>1, DestroyHolders DEF KeepsOwners, OwnerKinds
    <2>3. CASE JoinNext(th) \/ JoinSelf(th)
      BY <1>2, <2>3 DEF JoinNext, JoinSelf
    <2> QED
      BY <1>8, <2>1, <2>2, <2>3
  <1>9. CASE UNCHANGED vars
    BY <1>2, <1>9 DEF vars
  <1> QED
    BY <1>5, <1>6, <1>7, <1>8, <1>9 DEF Next, ThreadStep, Threads

(* A channel is closed where a task is destroyed.                          *)
LEMMA NextClosed ==
  ASSUME CInv, ClosedInFault, Kinds
  PROVE  ClosedInFault'
  <1>0. chan \in [Tasks -> ChannelStates]
    BY DEF CInv, BInv, TInv, TypeOK
  <1>1. ASSUME \A u \in Tasks : chan'[u] = "closed" => chan[u] = "closed",
               faultedBar => faultedBar'
        PROVE  ClosedInFault'
    BY <1>1 DEF ClosedInFault
  <1>2. ASSUME NEW u, NEW s, s # "closed",
               chan' = [chan EXCEPT ![u] = s], faultedBar => faultedBar'
        PROVE  ClosedInFault'
    BY <1>0, <1>1, <1>2
  <1>3. ASSUME faultedBar'
        PROVE  ClosedInFault'
    BY <1>3 DEF ClosedInFault
  <1>4. CASE Quiet
    BY <1>1, <1>4 DEF Quiet
  <1>5. ASSUME NEW th \in Threads, NEW c \in Code, NEW u \in Tasks, Spawns(th, c, u)
        PROVE  ClosedInFault'
    BY <1>2, <1>5 DEF Spawns
  <1>6. ASSUME NEW th \in Threads, NEW c \in Code, NEW m,
               Stops(th, c, m) \/ Returns(th, c, m)
        PROVE  ClosedInFault'
    BY <1>1, <1>6 DEF Stops, Returns
  <1>7. ASSUME NEW th \in Threads, NEW c \in Code, NEW v, Takes(th, c, v)
        PROVE  ClosedInFault'
    BY <1>2, <1>7 DEF Takes
  <1>8. ASSUME NEW th \in Threads, NEW c \in Code, Sends(th, c)
        PROVE  ClosedInFault'
    BY <1>2, <1>8 DEF Sends
  <1>9. ASSUME NEW th \in Threads, NEW u \in Tasks, Polls(th, u)
        PROVE  ClosedInFault'
    BY <1>1, <1>9 DEF Polls
  <1>10. ASSUME NEW S, Discards(S)
         PROVE  ClosedInFault'
    BY <1>3, <1>10 DEF Discards
  <1>11. ASSUME NEW th \in Threads, NEW c \in Code, Unwinds(th, c)
         PROVE  ClosedInFault'
    BY <1>3, <1>11 DEF Unwinds
  <1> QED
    BY <1>4, <1>5, <1>6, <1>7, <1>8, <1>9, <1>10, <1>11 DEF Kinds

(* What a step does to the channels and to the code that is blocked.       *)
BlockedFrame ==
  /\ UNCHANGED script
  /\ \A c \in Code : mode'[c] = "blocked" =>
       mode[c] = "blocked" /\ ip'[c] = ip[c]
  /\ \A u \in Tasks : chan'[u] \in {"none", "received"} => chan'[u] = chan[u]

(* block_on begins.                                                        *)
BlockedEnters(th, c) ==
  /\ AtOp(th, c, "block_on")
  /\ UNCHANGED <<script, ip>> /\ mode' = [mode EXCEPT ![c] = "blocked"]
  /\ chan[Operand(c)] = "none"
  /\ chan' = [chan EXCEPT ![Operand(c)] = "open"]

(* A result is taken by the one who holds the handle.                      *)
BlockedTakes(c) ==
  /\ UNCHANGED script
  /\ ip[c] \in DOMAIN script[c]
  /\ script[c][ip[c]].do \in {"await", "block_on"}
  /\ ip' = [ip EXCEPT ![c] = @ + 1]
  /\ mode' = [mode EXCEPT ![c] = "code"]
  /\ chan' = [chan EXCEPT ![Operand(c)] = "received"]

(* What BlockedAt says of one piece of code.                               *)
LEMMA OperandOfBlocked ==
  ASSUME CInv, BlockedAt, NEW c \in Code, mode[c] = "blocked"
  PROVE  /\ ip[c] \in DOMAIN script[c] /\ script[c][ip[c]].do = "block_on"
         /\ Operand(c) \in Tasks /\ chan[Operand(c)] \in {"open", "value", "closed"}
  <1>1. ip[c] \in DOMAIN script[c] /\ script[c][ip[c]].do = "block_on"
    BY DEF BlockedAt
  <1>2. Operand(c) \in Tasks
    BY <1>1, OperandIsTask DEF CInv, BInv, TInv, TypeOK
  <1> QED
    BY <1>1, <1>2 DEF BlockedAt, CInv, BInv, TInv, TypeOK, ChannelStates

(* Nothing happens to those who are blocked but that a result is sent.     *)
LEMMA FrameBlocked ==
  ASSUME CInv, BlockedAt, BlockedFrame
  PROVE  BlockedAt'
  <1> SUFFICES ASSUME NEW c \in Code, mode'[c] = "blocked"
               PROVE  /\ ip'[c] \in DOMAIN script'[c]
                      /\ script'[c][ip'[c]].do = "block_on"
                      /\ chan'[Operand(c)'] \notin {"none", "received"}
    BY DEF BlockedAt
  <1>1. mode[c] = "blocked" /\ ip'[c] = ip[c] /\ script' = script
    BY DEF BlockedFrame
  <1>2. Operand(c)' = Operand(c)
    BY <1>1 DEF Operand
  <1> QED
    BY <1>1, <1>2, OperandOfBlocked DEF BlockedFrame

(* block_on begins: its task has just been spawned.                        *)
LEMMA EnterBlocked ==
  ASSUME CInv, BlockedAt, NEW th \in Threads, NEW c \in Code, BlockedEnters(th, c)
  PROVE  BlockedAt'
  <1> SUFFICES ASSUME NEW z \in Code, mode'[z] = "blocked"
               PROVE  /\ ip[z] \in DOMAIN script[z]
                      /\ script[z][ip[z]].do = "block_on"
                      /\ chan'[Operand(z)] \notin {"none", "received"}
    BY DEF BlockedAt, BlockedEnters, Operand
  <1>1. /\ ip[c] \in DOMAIN script[c] /\ script[c][ip[c]].do = "block_on"
        /\ ip[c] <= Len(script[c])
    BY DEF BlockedEnters, AtOp, CInv, BInv, TInv, TypeOK
  <1>2. Operand(c) \in Tasks
    BY <1>1, OperandIsTask DEF CInv, BInv, TInv
  <1>3. chan'[Operand(c)] = "open"
    BY <1>2 DEF BlockedEnters, CInv, BInv, TInv, TypeOK
  <1>4. CASE z = c
    BY <1>1, <1>3, <1>4
  <1>5. CASE z # c
    <2>1. mode[z] = "blocked"
      BY <1>5 DEF BlockedEnters, CInv, BInv, TInv, TypeOK
    <2>2. Operand(z) # Operand(c)
      BY <2>1, OperandOfBlocked DEF BlockedEnters
    <2>3. chan'[Operand(z)] = chan[Operand(z)]
      BY <2>1, <2>2, OperandOfBlocked
         DEF BlockedEnters, CInv, BInv, TInv, TypeOK
    <2> QED
      BY <2>1, <2>3, OperandOfBlocked
  <1> QED
    BY <1>4, <1>5

(* A result is taken: not one that somebody else's block_on waits for.     *)
LEMMA TakeBlocked ==
  ASSUME CInv, HandlesMove(script), BlockedAt, NEW c \in Code, BlockedTakes(c)
  PROVE  BlockedAt'
  <1>1. \A z \in Code : z # c => mode'[z] = mode[z] /\ ip'[z] = ip[z]
    BY DEF BlockedTakes, CInv, BInv, TInv, TypeOK
  <1>2. mode'[c] = "code"
    BY DEF BlockedTakes, CInv, BInv, TInv, TypeOK
  <1> SUFFICES ASSUME NEW z \in Code, mode'[z] = "blocked"
               PROVE  /\ ip'[z] \in DOMAIN script'[z]
                      /\ script'[z][ip'[z]].do = "block_on"
                      /\ chan'[Operand(z)'] \notin {"none", "received"}
    BY DEF BlockedAt
  <1>3. z # c /\ mode[z] = "blocked" /\ ip'[z] = ip[z] /\ script' = script
    BY <1>1, <1>2 DEF BlockedTakes
  <1>4. Operand(z)' = Operand(z)
    BY <1>3 DEF Operand
  <1>5. Operand(z) # Operand(c)
    <2>1. /\ ip[z] \in DOMAIN script[z] /\ script[z][ip[z]].do = "block_on"
          /\ ip[c] \in DOMAIN script[c]
          /\ script[c][ip[c]].do \in {"await", "block_on"}
      BY <1>3, OperandOfBlocked DEF BlockedTakes
    <2> QED
      BY <1>3, <2>1 DEF HandlesMove, Operand
  <1>6. chan'[Operand(z)] = chan[Operand(z)]
    BY <1>3, <1>5, OperandOfBlocked DEF BlockedTakes, CInv, BInv, TInv, TypeOK
  <1> QED
    BY <1>3, <1>4, <1>6, OperandOfBlocked

(* Code that waits for a result of its own finds it, or keeps waiting.     *)
LEMMA NextBlocked ==
  ASSUME CInv, HandlesMove(script), BlockedAt, [Next]_vars
  PROVE  BlockedAt'
  <1> USE DEF userVars, queueVars, loopVars, dropVars, panicVars
  <1>0. /\ mode \in [Code -> Modes] /\ chan \in [Tasks -> ChannelStates]
        /\ ip \in [Code -> Nat \ {0}]
    BY DEF CInv, BInv, TInv, TypeOK
  <1>1. ASSUME UNCHANGED <<script, ip, mode, chan>>
        PROVE  BlockedAt'
    BY <1>1, FrameBlocked DEF BlockedFrame
  <1>2. ASSUME NEW c \in Code, NEW m, m # "blocked",
               UNCHANGED <<script, chan>>, mode' = [mode EXCEPT ![c] = m],
               ip' = ip \/ ip' = [ip EXCEPT ![c] = @ + 1]
        PROVE  BlockedAt'
    <2>1. \A x \in Code : IF x = c THEN mode'[x] = m
                                   ELSE mode'[x] = mode[x] /\ ip'[x] = ip[x]
      BY <1>0, <1>2
    <2> QED
      BY <1>2, <2>1, FrameBlocked DEF BlockedFrame
  <1>3. ASSUME NEW c \in Code, mode[c] # "blocked",
               UNCHANGED <<script, mode>>, ip' = [ip EXCEPT ![c] = @ + 1],
               \A u \in Tasks : chan'[u] \in {"none", "received"} => chan'[u] = chan[u]
        PROVE  BlockedAt'
    <2>1. \A x \in Code : x # c => ip'[x] = ip[x]
      BY <1>0, <1>3
    <2> QED
      BY <1>3, <2>1, FrameBlocked DEF BlockedFrame
  <1>4. ASSUME NEW S, Destroy(S), UNCHANGED <<script, ip>>
        PROVE  BlockedAt'
    <2>1. /\ \A c \in Code : mode'[c] = IF c \in S THEN "dropped" ELSE mode[c]
          /\ \A u \in Tasks : chan'[u] = IF u \in S THEN "closed" ELSE chan[u]
      BY <1>4 DEF Destroy
    <2> QED
      BY <1>4, <2>1, FrameBlocked DEF BlockedFrame
  <1>5. ASSUME NEW th \in Threads, NEW c \in Code, CodeStep(th, c)
        PROVE  BlockedAt'
    <2>1. CASE DoSpawn(th, c)
      <3>1. \A u \in Tasks : chan'[u] \in {"none", "received"} => chan'[u] = chan[u]
        BY <1>0, <2>1 DEF DoSpawn, SpawnTask
      <3> QED
        BY <1>3, <2>1, <3>1 DEF DoSpawn, AtOp
    <2>2. CASE DoBlockOn(th, c)
      BY <2>2, EnterBlocked DEF DoBlockOn, SpawnTask, BlockedEnters
    <2>3. CASE DoAwait(th, c)
      <3>1. CASE Answers(Operand(c))
        <4>1. /\ chan' = [chan EXCEPT ![Operand(c)] = "received"]
              /\ UNCHANGED <<mode, script>> /\ ip' = [ip EXCEPT ![c] = @ + 1]
              /\ AtOp(th, c, "await")
          BY <2>3, <3>1 DEF DoAwait
        <4>2. mode' = [mode EXCEPT ![c] = "code"]
          BY <1>0, <4>1 DEF AtOp
        <4>3. ip[c] \in DOMAIN script[c]
          BY <4>1 DEF AtOp, CInv, BInv, TInv, TypeOK
        <4> QED
          BY <4>1, <4>2, <4>3, TakeBlocked DEF BlockedTakes, AtOp
      <3>2. CASE ~Answers(Operand(c))
        BY <1>2, <2>3, <3>2 DEF DoAwait
      <3> QED
        BY <3>1, <3>2
    <2>4. CASE DoYield(th, c)
      BY <1>2, <2>4 DEF DoYield
    <2>5. CASE DoPanic(th, c)
      BY <1>1, <2>5 DEF DoPanic
    <2>6. CASE DoRun(th, c)
      BY <1>3, <2>6 DEF DoRun, AtOp
    <2>7. CASE Finish(th, c)
      BY <1>2, <2>7 DEF Finish
    <2>8. CASE Send(th, c)
      <3>1. \A x \in Code : IF x = c THEN mode'[x] = "ready"
                                     ELSE mode'[x] = mode[x]
        BY <1>0, <2>8 DEF Send
      <3>2. \A u \in Tasks : chan'[u] \in {"none", "received"} => chan'[u] = chan[u]
        BY <1>0, <2>8 DEF Send
      <3> QED
        BY <2>8, <3>1, <3>2, FrameBlocked DEF Send, BlockedFrame
    <2>9. CASE ReturnReady(th, c)
      BY <1>2, <2>9 DEF ReturnReady
    <2>10. CASE ReturnPending(th, c)
      BY <1>2, <2>10 DEF ReturnPending
    <2> QED
      BY <1>5, <2>1, <2>2, <2>3, <2>4, <2>5, <2>6, <2>7, <2>8, <2>9, <2>10
         DEF CodeStep
  <1>6. ASSUME NEW th \in Threads, NEW c \in Code, BlockOnStep(th, c)
        PROVE  BlockedAt'
    <2>1. CASE RecvOk(th, c)
      BY <2>1, OperandOfBlocked, TakeBlocked DEF RecvOk, Looking, BlockedTakes
    <2>2. CASE ~RecvOk(th, c)
      BY <1>1, <1>6, <2>2
         DEF BlockOnStep, RecvEmpty, RecvDisconnected, HelpSteal, HelpEmpty,
             HelpRetry
    <2> QED
      BY <2>1, <2>2
  <1>7. ASSUME NEW w \in Workers, WorkerStep(w)
        PROVE  BlockedAt'
    <2>1. CASE Leave(w)
      <3>1. PICK S : Destroy(S) /\ UNCHANGED <<script, ip>>
        BY <2>1 DEF Leave
      <3> QED
        BY <1>4, <3>1
    <2>2. CASE ~Leave(w)
      BY <1>1, <1>7, <2>2
         DEF WorkerStep, CheckShutdown, PopLocal, LocalEmpty, StealBatch,
             GlobalRetry, StealOne, GlobalMissed, StealPeer, PeerRetry,
             StealPeerOne, NextPeer, NoWork, Exit
    <2> QED
      BY <2>1, <2>2
  <1>8. ASSUME NEW th \in Threads,
               Unwind(th) \/ JoinNext(th) \/ JoinSelf(th) \/ DropDone(th)
        PROVE  BlockedAt'
    <2>1. CASE Unwind(th) \/ DropDone(th)
      BY <1>4, <2>1 DEF Unwind, DropDone
    <2>2. CASE JoinNext(th) \/ JoinSelf(th)
      BY <1>1, <2>2 DEF JoinNext, JoinSelf
    <2> QED
      BY <1>8, <2>1, <2>2
  <1>9. CASE UNCHANGED vars
    BY <1>1, <1>9 DEF vars
  <1> QED
    BY <1>5, <1>6, <1>7, <1>8, <1>9 DEF Next, ThreadStep, Threads

(* No step changes the program.                                            *)
LEMMA SameScript ==
  ASSUME [Next]_vars
  PROVE  script' = script
  <1> USE DEF userVars
  <1>1. ASSUME NEW th \in Threads, NEW c \in Code, CodeStep(th, c) \/ BlockOnStep(th, c)
        PROVE  script' = script
    BY <1>1
       DEF CodeStep, DoSpawn, DoBlockOn, DoAwait, DoYield, DoPanic, DoRun,
           Finish, Send, ReturnReady, ReturnPending, BlockOnStep, RecvOk,
           RecvEmpty, RecvDisconnected, HelpSteal, HelpEmpty, HelpRetry
  <1>2. ASSUME NEW w \in Workers, WorkerStep(w)
        PROVE  script' = script
    BY <1>2
       DEF WorkerStep, CheckShutdown, PopLocal, LocalEmpty, StealBatch,
           GlobalRetry, StealOne, GlobalMissed, StealPeer, PeerRetry,
           StealPeerOne, NextPeer, NoWork, Leave, Exit
  <1>3. ASSUME NEW th \in Threads,
               Unwind(th) \/ JoinNext(th) \/ JoinSelf(th) \/ DropDone(th)
        PROVE  script' = script
    BY <1>3 DEF Unwind, JoinNext, JoinSelf, DropDone
  <1>4. CASE UNCHANGED vars
    BY <1>4 DEF vars
  <1> QED
    BY <1>1, <1>2, <1>3, <1>4 DEF Next, ThreadStep, Threads

(* At the start each user thread holds a clone and no code is blocked.     *)
LEMMA InitOwned ==
  ASSUME Init
  PROVE  OInv
  <1>1. HandlesMove(script)
    BY HandleAssumption DEF Init
  <1>2. OwnersInv
    BY ExecutorAssumption DEF Init, OwnersInv, Holder, Code
  <1>3. ClosedInFault /\ BlockedAt
    BY DEF Init, ClosedInFault, BlockedAt
  <1> QED
    BY <1>1, <1>2, <1>3 DEF OInv

(* The handles stay where they are, clones go with the code that holds     *)
(* them, and channels with the faults.                                     *)
LEMMA NextOwned ==
  ASSUME CInv, OInv, [Next]_vars
  PROVE  OInv'
  <1>1. HandlesMove(script)'
    BY SameScript DEF OInv, HandlesMove
  <1>2. OwnersInv'
    BY NextOwnerKind, NextOwners DEF OInv, CInv, BInv, TInv
  <1>3. ClosedInFault'
    BY NextClosed, NextKind DEF OInv
  <1>4. BlockedAt'
    BY NextBlocked DEF OInv
  <1> QED
    BY <1>1, <1>2, <1>3, <1>4 DEF OInv

(* What the owners of the Runtime keep alive is not destroyed.             *)
LEMMA ClosedMeansOver ==
  ASSUME OInv, unwinding = {}, NEW u \in Tasks, chan[u] = "closed"
  PROVE  owners = {} /\ shutdown
  BY DEF OInv, ClosedInFault, OwnersInv, faultedBar

(* Code that waits in block_on holds the Runtime.                          *)
LEMMA BlockedOwns ==
  ASSUME CInv, OInv, NEW c \in Code, mode[c] = "blocked"
  PROVE  c \in owners
  <1>1. ip[c] \in DOMAIN script[c] /\ script[c][ip[c]].do = "block_on"
    BY OperandOfBlocked DEF OInv
  <1>2. Owns(c)
    BY <1>1 DEF Owns, Captures
  <1>3. c \in Tasks => chan[c] # "none"
    BY DEF CInv, BInv, Fresh
  <1> QED
    BY <1>2, <1>3 DEF OInv, OwnersInv, Holder, Active

(***************************************************************************)
(* No task is destroyed before it completes while somebody holds the       *)
(* Runtime, unless a panic was raised.                                     *)
(***************************************************************************)
THEOREM HeldMeansAlive == Spec => []OnlyShutdownDestroys
  <1>1. Init => CInv /\ OInv
    BY InitContract, InitOwned
  <1>2. CInv /\ OInv /\ [Next]_vars => CInv' /\ OInv'
    BY NextContract, NextOwned
  <1>3. OInv => OnlyShutdownDestroys
    BY ClosedMeansOver DEF OnlyShutdownDestroys
  <1> QED
    BY <1>1, <1>2, <1>3, PTL DEF Spec

(***************************************************************************)
(* Whoever waits in block_on finds its channel open or filled, whatever    *)
(* the program and however the threads race: "channel disconnected" needs  *)
(* a panic.                                                                *)
(***************************************************************************)
THEOREM BlockOnStaysConnected == Spec => []BlockOnIsSafe
  <1>1. Init => CInv /\ OInv
    BY InitContract, InitOwned
  <1>2. CInv /\ OInv /\ [Next]_vars => CInv' /\ OInv'
    BY NextContract, NextOwned
  <1>3. ASSUME CInv, OInv
        PROVE  BlockOnIsSafe
    <2> SUFFICES ASSUME unwinding = {}, NEW c \in Code, mode[c] = "blocked"
                 PROVE  chan[Operand(c)] \in {"open", "value"}
      BY DEF BlockOnIsSafe
    <2>1. Operand(c) \in Tasks /\ chan[Operand(c)] \in {"open", "value", "closed"}
      BY <1>3, OperandOfBlocked DEF OInv
    <2>2. c \in owners
      BY <1>3, BlockedOwns
    <2> QED
      BY <1>3, <2>1, <2>2, ClosedMeansOver
  <1> QED
    BY <1>1, <1>2, <1>3, PTL DEF Spec

-----------------------------------------------------------------------------
(* The drop.                                                               *)

(* Nobody can reach deque j any more.                                      *)
Unreachable(j) == \A k \in Workers : k >= j => HasReleased(k)

(* What cannot be reached was destroyed with its last holder.              *)
DequesEmptied == \A j \in Workers : Unreachable(j) => localQ[j] = <<>>

QueueEmptied == Freed /\ (\A k \in Workers : HasReleased(k)) => globalQ = <<>>

(* The handles that were joined are those of threads that have exited.     *)
JoinedExited == \A j \in Workers : j < joined => pc[j] = "exited"

(* A worker that drops the executor after it left its loop unwinds: its    *)
(* own handle cannot be passed by without ending the process.              *)
DropperUnwinds ==
  \A w \in Workers : w \in joining /\ HasReleased(w) => w \in unwinding

DropInv == DequesEmptied /\ QueueEmptied /\ JoinedExited /\ DropperUnwinds

(* What every step but a worker's last one leaves as it is.                *)
KeepsDrop ==
  /\ \A w \in Workers : /\ HasReleased(w)' => HasReleased(w)
                        /\ pc[w] = "exited" => pc'[w] = "exited"
  /\ \A j \in Workers : localQ'[j] = <<>> \/ localQ[j] # <<>> \/ ~HasReleased(j)
  /\ \/ globalQ' = <<>> \/ globalQ # <<>> \/ ~shutdown'
     \/ \E w \in Workers : ~HasReleased(w)
  /\ \/ ~Freed' \/ Freed \/ globalQ' = <<>>
     \/ \E w \in Workers : ~HasReleased(w)
  /\ joined' = joined \/ (joined' = joined + 1 /\ pc[joined] = "exited")
  /\ \A w \in Workers :
       w \in joining' /\ HasReleased(w) => w \in joining \/ w \in unwinding'
  /\ unwinding \subseteq unwinding'

(* A step that is not the last one of a worker undoes nothing of what the  *)
(* drop has achieved.                                                      *)
LEMMA KeepsDropInv ==
  ASSUME CInv, DropInv, KeepsDrop
  PROVE  DropInv'
  <1>1. DequesEmptied'
    <2> SUFFICES ASSUME NEW j \in Workers, Unreachable(j)'
                 PROVE  localQ'[j] = <<>>
      BY DEF DequesEmptied
    <2>1. Unreachable(j)
      BY DEF KeepsDrop, Unreachable
    <2>2. HasReleased(j)
      BY <2>1 DEF Unreachable, Workers
    <2> QED
      BY <2>1, <2>2 DEF DropInv, DequesEmptied, KeepsDrop
  <1>2. QueueEmptied'
    <2> SUFFICES ASSUME Freed', \A k \in Workers : HasReleased(k)'
                 PROVE  globalQ' = <<>>
      BY DEF QueueEmptied
    <2>1. /\ \A k \in Workers : HasReleased(k)
          /\ shutdown'
      BY DEF KeepsDrop, Freed
    <2> QED
      BY <2>1 DEF DropInv, QueueEmptied, KeepsDrop
  <1>3. JoinedExited'
    <2> SUFFICES ASSUME NEW j \in Workers, j < joined'
                 PROVE  pc'[j] = "exited"
      BY DEF JoinedExited
    <2>1. j \in Nat /\ joined \in Nat
      BY DEF Workers, CInv, BInv, TInv, TypeOK
    <2>2. j < joined \/ (j = joined /\ pc[joined] = "exited")
      BY <2>1 DEF KeepsDrop
    <2> QED
      BY <2>2 DEF DropInv, JoinedExited, KeepsDrop
  <1>4. DropperUnwinds'
    BY DEF DropInv, DropperUnwinds, KeepsDrop
  <1> QED
    BY <1>1, <1>2, <1>3, <1>4 DEF DropInv

(* A clone of the Runtime is dropped: the executor is not freed by that,   *)
(* and only the thread that dropped it may begin to drop the executor.     *)
LEMMA DropRuntimeEnds ==
  ASSUME NEW th, NEW S, DropRuntime(th, S)
  PROVE  /\ Freed' => Freed
         /\ joined' = joined
         /\ joining' = joining \/ (joining' = {th} /\ owners # {})
  BY DEF DropRuntime, LastOwners, Freed

(* A user's thread polls a task only on top of its own block_on.           *)
LEMMA CallerBlocked ==
  ASSUME CInv, NEW th \in Callers, NEW u \in Tasks, Polled(th, u)
  PROVE  mode[th] = "blocked"
  <1> DEFINE s == stack[th]
  <1>1. /\ th \in Threads /\ th \in Code /\ th # u
        /\ s \in Seq(Code) /\ IsInjective(s) /\ u \in ToSet(s)
    BY QueueFacts, ExecutorAssumption DEF CInv, Threads, Code, Polled
  <1>2. s # <<>>
    BY <1>1, EmptyLemma
  <1>3. Head(s) = th
    BY <1>1, <1>2 DEF CInv, StackInv, CallersHome
  <1> HIDE DEF s
  <1>4. /\ Len(s) \in Nat /\ Len(s) > 0 /\ Last(s) = s[Len(s)] /\ s[1] = th
    <2>1. Len(s) \in Nat /\ Len(s) > 0 /\ Last(s) = s[Len(s)]
      BY <1>1, <1>2, FramesLemma
    <2>2. Head(s) = s[1]
      BY <1>1, <1>2
    <2> QED
      BY <1>3, <2>1, <2>2
  <1>5. th \in ToSet(s)
    BY <1>1, <1>4, ElementsLemma
  <1>6. th # Last(s)
    <2>1. ASSUME th = Last(s)
          PROVE  FALSE
      <3>1. Len(s) = 1
        <4>1. 1 \in 1 .. Len(s) /\ Len(s) \in 1 .. Len(s)
          BY <1>4
        <4>2. s[1] = s[Len(s)]
          BY <1>4, <2>1
        <4> QED
          BY <1>1, <4>1, <4>2, DistinctLemma
      <3>2. u = s[1]
        BY <1>1, <3>1, ElementsLemma
      <3> QED
        BY <1>1, <1>4, <3>2
    <2> QED
      BY <2>1
  <1> QED
    BY <1>1, <1>5, <1>6 DEF s, CInv, StackInv, BlockedBelow, Polled

(* Nobody polls a task once all workers are gone and nobody holds the      *)
(* Runtime.                                                                *)
LEMMA PollNeedsHolder ==
  ASSUME CInv, OInv, WorkersDry, shutdown,
         NEW th \in Threads, NEW u \in Tasks, Polled(th, u)
  PROVE  th \in Workers /\ ~HasReleased(th)
  <1>1. CASE th \in Workers
    <2>1. stack[th] # <<>>
      BY EmptyLemma DEF Polled
    <2> QED
      BY <1>1, <2>1 DEF WorkersDry, HasReleased
  <1>2. CASE th \in Callers
    <2>1. th \in owners
      BY <1>2, CallerBlocked, BlockedOwns DEF Code
    <2> QED
      BY <2>1 DEF OInv, OwnersInv
  <1> QED
    BY <1>1, <1>2 DEF Threads

(* A worker that polls, or runs its loop, has not released its deque.      *)
LEMMA WorkerStays ==
  ASSUME CInv, WorkersDry, NEW w \in Workers,
         stack[w] # <<>> \/ AtPlace(w, Places \ {"leaving", "released", "exited"})
  PROVE  ~HasReleased(w)
  BY DEF WorkersDry, HasReleased, AtPlace

(* Code runs, or block_on looks for work.                                  *)
LEMMA CodeKeepsDrop ==
  ASSUME CInv, OInv, WorkersDry, NEW th \in Threads, NEW c \in Code,
         CodeStep(th, c) \/ BlockOnStep(th, c)
  PROVE  KeepsDrop
  <1> USE DEF userVars, queueVars, loopVars, dropVars, panicVars
  <1>1. ASSUME UNCHANGED <<pc, localQ, shutdown, joining, joined>>,
               globalQ' = <<>> \/ globalQ # <<>> \/ ~shutdown'
                 \/ (\E w \in Workers : ~HasReleased(w)),
               unwinding \subseteq unwinding'
        PROVE  KeepsDrop
    BY <1>1 DEF KeepsDrop, HasReleased, Freed
  <1>2. CASE DoSpawn(th, c) \/ DoBlockOn(th, c)
    <2>1. ~shutdown
      BY <1>2, CallerOwns DEF DoSpawn, DoBlockOn, OInv
    <2> QED
      BY <1>1, <1>2, <2>1 DEF DoSpawn, DoBlockOn, SpawnTask
  <1>3. CASE ReturnPending(th, c)
    <2>1. c \in Tasks /\ Polled(th, c)
      BY <1>3, TopFacts DEF ReturnPending, CInv, BInv, TInv, OnlyTasksPend
    <2>2. ~shutdown \/ \E w \in Workers : ~HasReleased(w)
      BY <2>1, PollNeedsHolder
    <2> QED
      BY <1>1, <1>3, <2>2 DEF ReturnPending
  <1>4. CASE Finish(th, c)
    <2>1. /\ DropRuntime(th, {c}) /\ stack[th] # <<>>
          /\ UNCHANGED <<pc, globalQ, localQ, unwinding>>
      BY <1>4 DEF Finish, Running
    <2>2. /\ Freed' => Freed
          /\ joined' = joined
          /\ joining' = joining \/ joining' = {th}
      BY <2>1, DropRuntimeEnds
    <2>3. th \in Workers => ~HasReleased(th)
      BY <2>1, WorkerStays
    <2> QED
      BY <2>1, <2>2, <2>3 DEF KeepsDrop, HasReleased
  <1>5. CASE CodeStep(th, c) /\ ~DoSpawn(th, c) /\ ~DoBlockOn(th, c)
             /\ ~ReturnPending(th, c) /\ ~Finish(th, c)
    BY <1>1, <1>5
       DEF CodeStep, DoAwait, DoYield, Wake, DoPanic, DoRun, Send, ReturnReady
  <1>6. CASE BlockOnStep(th, c)
    BY <1>1, <1>6
       DEF BlockOnStep, RecvOk, RecvEmpty, RecvDisconnected, HelpSteal,
           HelpEmpty, HelpRetry
  <1> QED
    BY <1>2, <1>3, <1>4, <1>5, <1>6

(* A worker goes round its loop, or exits.                                 *)
LEMMA WorkerKeepsDrop ==
  ASSUME CInv, WorkersDry, NEW w \in Workers, WorkerStep(w), ~Leave(w)
  PROVE  KeepsDrop
  <1> USE DEF userVars, queueVars, loopVars, dropVars, panicVars
  <1>0. /\ pc \in [Workers -> Places] /\ PeerAt(w) \in Workers
        /\ localQ \in [Workers -> Seq(Tasks)]
    BY PeerIsWorker DEF CInv, BInv, TInv, TypeOK
  <1>1. ASSUME \A v \in Workers \ {w} : pc'[v] = pc[v],
               pc'[w] \notin {"released", "exited"}, ~HasReleased(w),
               \A j \in Workers : localQ'[j] = <<>> \/ localQ[j] # <<>> \/ ~HasReleased(j),
               globalQ' = <<>> \/ globalQ # <<>>,
               UNCHANGED <<shutdown, joining, joined, unwinding>>
        PROVE  KeepsDrop
    <2>1. \A v \in Workers : /\ HasReleased(v)' => HasReleased(v)
                             /\ pc[v] = "exited" => pc'[v] = "exited"
      BY <1>0, <1>1 DEF HasReleased
    <2> QED
      BY <1>1, <2>1 DEF KeepsDrop, Freed
  <1>2. CASE Exit(w)
    <2>1. \A v \in Workers : IF v = w THEN pc[v] = "released" /\ pc'[v] = "exited"
                                      ELSE pc'[v] = pc[v]
      BY <1>0, <1>2 DEF Exit, Goto
    <2>2. \A v \in Workers : /\ HasReleased(v)' => HasReleased(v)
                             /\ pc[v] = "exited" => pc'[v] = "exited"
      BY <2>1 DEF HasReleased
    <2> QED
      BY <1>2, <2>2 DEF Exit, KeepsDrop, Freed
  <1>3. ASSUME ~Exit(w)
        PROVE  ~HasReleased(w)
    BY <1>3
       DEF WorkerStep, CheckShutdown, PopLocal, LocalEmpty, StealBatch,
           GlobalRetry, StealOne, GlobalMissed, StealPeer, PeerRetry,
           StealPeerOne, NextPeer, NoWork, AtPeer, AtPlace, HasReleased
  <1>4. CASE \/ CheckShutdown(w) \/ LocalEmpty(w) \/ GlobalRetry(w)
             \/ GlobalMissed(w) \/ PeerRetry(w) \/ NextPeer(w) \/ NoWork(w)
    <2>1. /\ UNCHANGED <<globalQ, localQ, shutdown, joining, joined, unwinding>>
          /\ ~Exit(w)
      BY <1>4
         DEF CheckShutdown, LocalEmpty, GlobalRetry, GlobalMissed, PeerRetry,
             NextPeer, NoWork, Exit, AtPeer, AtPlace
    <2>2. (\A v \in Workers \ {w} : pc'[v] = pc[v]) /\ pc'[w] \notin {"released", "exited"}
      BY <1>0, <1>4
         DEF CheckShutdown, LocalEmpty, GlobalRetry, GlobalMissed, PeerRetry,
             NextPeer, NoWork, Goto, EndLoop, AfterCheck, AfterPop
    <2> QED
      BY <1>1, <1>3, <2>1, <2>2
  <1>5. CASE PopLocal(w) \/ StealBatch(w) \/ StealOne(w)
    <2>1. /\ UNCHANGED <<shutdown, joining, joined, unwinding>>
          /\ ~Exit(w) /\ (globalQ' = globalQ \/ globalQ # <<>>)
      BY <1>5 DEF PopLocal, StealBatch, StealOne, Exit, AtPlace
    <2>2. (\A v \in Workers \ {w} : pc'[v] = pc[v]) /\ pc'[w] \notin {"released", "exited"}
      BY <1>0, <1>5 DEF PopLocal, StealBatch, StealOne, Goto
    <2>3. \A j \in Workers : j # w => localQ'[j] = localQ[j]
      BY <1>0, <1>5 DEF PopLocal, StealBatch, StealOne
    <2>4. \A j \in Workers :
            localQ'[j] = <<>> \/ localQ[j] # <<>> \/ ~HasReleased(j)
      BY <1>3, <2>1, <2>3
    <2> QED
      BY <1>1, <1>3, <2>1, <2>2, <2>4
  <1>6. CASE StealPeer(w) \/ StealPeerOne(w)
    <2>1. /\ UNCHANGED <<globalQ, shutdown, joining, joined, unwinding>>
          /\ ~Exit(w) /\ localQ[PeerAt(w)] # <<>>
      BY <1>6 DEF StealPeer, StealPeerOne, Exit, AtPeer, AtPlace
    <2>2. (\A v \in Workers \ {w} : pc'[v] = pc[v]) /\ pc'[w] \notin {"released", "exited"}
      BY <1>0, <1>6 DEF StealPeer, StealPeerOne, Goto, EndLoop
    <2>3. \A j \in Workers : j # w /\ j # PeerAt(w) => localQ'[j] = localQ[j]
      BY <1>0, <1>6 DEF StealPeer, StealPeerOne
    <2>4. \A j \in Workers :
            localQ'[j] = <<>> \/ localQ[j] # <<>> \/ ~HasReleased(j)
      BY <1>3, <2>1, <2>3
    <2> QED
      BY <1>1, <1>3, <2>1, <2>2, <2>4
  <1> QED
    BY <1>2, <1>4, <1>5, <1>6 DEF WorkerStep

(* A panic unwinds, or the drop goes on.                                   *)
LEMMA EndKeepsDrop ==
  ASSUME CInv, WorkersDry, DropInv, NEW th \in Threads,
         \/ Unwind(th) \/ JoinNext(th) \/ DropDone(th)
         \/ JoinSelf(th) /\ th \in Workers
  PROVE  KeepsDrop
  <1> USE DEF userVars, queueVars, loopVars, dropVars, panicVars
  <1>0. pc \in [Workers -> Places]
    BY DEF CInv, BInv, TInv, TypeOK
  <1>1. CASE Unwind(th)
    <2>1. PICK S : /\ DropRuntime(th, S) /\ stack[th] # <<>> /\ th \in unwinding
                   /\ UNCHANGED <<globalQ, localQ, unwinding>>
                   /\ pc' = IF th \in Workers /\ Len(stack[th]) = 1
                              THEN [pc EXCEPT ![th] = "leaving"]
                              ELSE pc
      BY <1>1 DEF Unwind
    <2>2. /\ Freed' => Freed
          /\ joined' = joined
          /\ joining' = joining \/ joining' = {th}
      BY <2>1, DropRuntimeEnds
    <2>3. \A v \in Workers : pc'[v] = pc[v] \/ (v = th /\ pc'[v] = "leaving")
      BY <1>0, <2>1
    <2>4. th \in Workers => ~HasReleased(th)
      BY <2>1, WorkerStays
    <2>5. \A v \in Workers : /\ HasReleased(v)' => HasReleased(v)
                             /\ pc[v] = "exited" => pc'[v] = "exited"
      BY <2>3, <2>4 DEF HasReleased
    <2> QED
      BY <2>1, <2>2, <2>5 DEF KeepsDrop
  <1>2. CASE JoinNext(th)
    BY <1>2 DEF JoinNext, Joinable, KeepsDrop, HasReleased, Freed
  <1>3. CASE DropDone(th)
    BY <1>3 DEF DropDone, KeepsDrop, HasReleased, Freed
  <1>4. CASE JoinSelf(th) /\ th \in Workers
    <2>1. CASE th \in unwinding
      BY <1>4, <2>1 DEF JoinSelf, KeepsDrop, HasReleased, Freed
    <2>2. CASE th \notin unwinding
      <3>1. ~HasReleased(th)
        BY <1>4, <2>2 DEF JoinSelf, DropInv, DropperUnwinds
      <3> QED
        BY <1>4, <2>2, <3>1 DEF JoinSelf, KeepsDrop, HasReleased
    <2> QED
      BY <2>1, <2>2
  <1> QED
    BY <1>1, <1>2, <1>3, <1>4

(* A worker's last step: what it was the last to hold is destroyed.        *)
LEMMA LeaveKeepsDrop ==
  ASSUME CInv, OInv, DropInv, NEW w \in Workers, Leave(w)
  PROVE  DropInv'
  <1> DEFINE last == Freed /\ \A k \in Workers \ {w} : HasReleased(k)
  <1>0. pc \in [Workers -> Places]
    BY DEF CInv, BInv, TInv, TypeOK
  <1>1. PICK S : /\ DropRuntime(w, S) /\ UNCHANGED unwinding
                 /\ pc[w] = "leaving" /\ w \notin joining
    BY DEF Leave, panicVars
  <1>2. /\ globalQ' = IF last THEN <<>> ELSE globalQ
        /\ \A j \in Workers : localQ'[j] = IF LastHolder(w, j) THEN <<>> ELSE localQ[j]
    BY DEF Leave
  <1>3. \A v \in Workers : pc'[v] = IF v = w THEN "released" ELSE pc[v]
    BY <1>0 DEF Leave, Goto
  <1>4. /\ Freed' => Freed
        /\ joined' = joined
        /\ joining' = joining \/ (joining' = {w} /\ owners # {})
    BY <1>1, DropRuntimeEnds
  <1>5. \A v \in Workers \ {w} : HasReleased(v)' <=> HasReleased(v)
    BY <1>3 DEF HasReleased
  <1>6. DequesEmptied'
    <2> SUFFICES ASSUME NEW j \in Workers, Unreachable(j)'
                 PROVE  localQ'[j] = <<>>
      BY DEF DequesEmptied
    <2>1. \A k \in Workers \ {w} : k >= j => HasReleased(k)
      BY <1>5 DEF Unreachable
    <2>2. CASE j <= w
      BY <1>2, <2>1, <2>2 DEF LastHolder
    <2>3. CASE ~(j <= w)
      <3>1. Unreachable(j)
        BY <2>1, <2>3 DEF Unreachable, Workers
      <3> QED
        BY <1>2, <3>1 DEF DropInv, DequesEmptied
    <2> QED
      BY <2>2, <2>3
  <1>7. QueueEmptied'
    BY <1>2, <1>4, <1>5 DEF QueueEmptied
  <1>8. JoinedExited'
    BY <1>1, <1>3, <1>4 DEF DropInv, JoinedExited
  <1>9. DropperUnwinds'
    <2> SUFFICES ASSUME NEW v \in Workers, v \in joining', HasReleased(v)'
                 PROVE  v \in unwinding
      BY <1>1 DEF DropperUnwinds
    <2>1. CASE v = w
      <3>1. ~shutdown
        BY <1>1, <1>4, <2>1 DEF OInv, OwnersInv
      <3> QED
        BY <1>1, <2>1, <3>1 DEF CInv, FaultsFirst
    <2>2. CASE v # w
      BY <1>4, <1>5, <2>2 DEF DropInv, DropperUnwinds
    <2> QED
      BY <2>1, <2>2
  <1> QED
    BY <1>6, <1>7, <1>8, <1>9 DEF DropInv

(* Every step keeps it.                                                    *)
LEMMA NextDrop ==
  ASSUME CInv, OInv, WorkersDry, DropInv, [Next]_vars
  PROVE  DropInv'
  <1>1. CASE UNCHANGED vars
    <2>1. KeepsDrop
      BY <1>1
         DEF vars, queueVars, loopVars, dropVars, panicVars, KeepsDrop,
             HasReleased, Freed
    <2> QED
      BY <2>1, KeepsDropInv
  <1>2. ASSUME NEW th \in Threads, NEW c \in Code, CodeStep(th, c) \/ BlockOnStep(th, c)
        PROVE  DropInv'
    BY <1>2, CodeKeepsDrop, KeepsDropInv
  <1>3. ASSUME NEW w \in Workers, WorkerStep(w)
        PROVE  DropInv'
    BY <1>3, WorkerKeepsDrop, LeaveKeepsDrop, KeepsDropInv
  <1>4. ASSUME NEW th \in Threads,
               \/ Unwind(th) \/ JoinNext(th) \/ DropDone(th)
               \/ JoinSelf(th) /\ th \in Workers
        PROVE  DropInv'
    BY <1>4, EndKeepsDrop, KeepsDropInv
  <1> QED
    BY <1>1, <1>2, <1>3, <1>4 DEF Next, ThreadStep, Threads

(* At the start no worker has left and no handle has been joined.          *)
LEMMA InitDrop ==
  ASSUME Init
  PROVE  DropInv
  <1>1. \A j \in Workers : localQ[j] = <<>> /\ ~(j < joined) /\ j \notin joining
    BY DEF Init, Workers
  <1> QED
    BY <1>1
       DEF Init, DropInv, DequesEmptied, QueueEmptied, JoinedExited,
           DropperUnwinds

(***************************************************************************)
(* When the drop has joined every worker the executor is gone: no thread,  *)
(* no task in a queue, none being polled and none in flight.               *)
(***************************************************************************)
THEOREM DropLeavesNothing == Spec => []DropIsFinal
  <1>1. Init => CInv /\ OInv /\ WorkersDry /\ DropInv
    BY InitContract, InitOwned, InitDry, InitDrop
  <1>2. /\ CInv /\ OInv /\ WorkersDry /\ DropInv
        /\ [Next]_vars
        => CInv' /\ OInv' /\ WorkersDry' /\ DropInv'
    BY NextContract, NextOwned, NextDry, NextDrop
  <1>3. ASSUME CInv, OInv, WorkersDry, DropInv
        PROVE  DropIsFinal
    <2> SUFFICES ASSUME Freed, joined = NumWorkers
                 PROVE  /\ \A w \in Workers : /\ pc[w] = "exited"
                                              /\ localQ[w] = <<>>
                                              /\ stack[w] = <<>>
                        /\ globalQ = <<>>
                        /\ \A u \in Tasks : ~InFlight(u)
      BY DEF DropIsFinal
    <2>1. \A w \in Workers : pc[w] = "exited" /\ HasReleased(w)
      BY <1>3, ExecutorAssumption
         DEF DropInv, JoinedExited, HasReleased, Workers
    <2>2. \A w \in Workers : localQ[w] = <<>> /\ stack[w] = <<>>
      BY <1>3, <2>1 DEF DropInv, DequesEmptied, Unreachable, WorkersDry
    <2>3. globalQ = <<>>
      BY <1>3, <2>1 DEF DropInv, QueueEmptied
    <2>4. ASSUME NEW u \in Tasks
          PROVE  ~InFlight(u)
      <3>1. ~Queued(u) /\ \A w \in Workers : ~InDeque(w, u)
        BY <2>2, <2>3, EmptyLemma DEF Queued, InDeque
      <3>2. \A th \in Threads : ~Polled(th, u)
        BY <1>3, <2>1, PollNeedsHolder DEF Freed
      <3> QED
        BY <1>3, <3>1, <3>2 DEF CInv, BInv, Books, NothingMislaid
    <2> QED
      BY <2>1, <2>2, <2>3, <2>4
  <1> QED
    BY <1>1, <1>2, <1>3, PTL DEF Spec
=============================================================================
