--------------------------- MODULE ExecutorBooks ---------------------------
(***************************************************************************)
(* The std executor neither mislays a task nor copies one: the proof, for  *)
(* every program, every number of threads and every size of the batches.   *)
(*                                                                         *)
(* The first part looks at the queues, deques and stacks only, one lemma   *)
(* for each way a task can move.  The second shows that each action makes  *)
(* one of these moves, and changes what is in flight accordingly.          *)
(***************************************************************************)
EXTENDS ExecutorProofs

(* A task that was not spawned has done nothing.                           *)
Fresh == \A u \in Tasks : chan[u] = "none" => mode[u] = "code"

Books == NoTaskTwice /\ NothingMislaid

BInv == TInv /\ Fresh /\ Books

SameInFlight == \A v \in Tasks : InFlight(v)' <=> InFlight(v)

-----------------------------------------------------------------------------
(* The moves.                                                              *)

(* What the invariant says of a queue, a deque and a stack by themselves.  *)
LEMMA QueueFacts ==
  ASSUME BInv
  PROVE  /\ globalQ \in Seq(Tasks) /\ IsInjective(globalQ)
         /\ \A w \in Workers : localQ[w] \in Seq(Tasks) /\ IsInjective(localQ[w])
         /\ \A th \in Threads : stack[th] \in Seq(Code) /\ IsInjective(stack[th])
  BY DEF BInv, TInv, TypeOK, Books, NoTaskTwice

(* And what it says of two of them.                                        *)
LEMMA Apart ==
  ASSUME BInv
  PROVE  /\ \A x \in Tasks, y \in Workers : InDeque(y, x) => ~Queued(x)
         /\ \A x \in Tasks, t \in Threads : Polled(t, x) => ~Queued(x)
         /\ \A x \in Tasks, y \in Workers, t \in Threads :
              InDeque(y, x) => ~Polled(t, x)
         /\ \A x \in Tasks, y, z \in Workers :
              InDeque(y, x) /\ InDeque(z, x) => y = z
         /\ \A x \in Tasks, t, r \in Threads :
              Polled(t, x) /\ Polled(r, x) => t = r
  BY DEF BInv, Books, NoTaskTwice

(* A poll of a task that is on no stack: the stacks afterwards.            *)
LEMMA PollFacts ==
  ASSUME BInv, NEW th \in Threads, NEW u \in Tasks, Poll(th, u),
         \A t \in Threads : ~Polled(t, u)
  PROVE  /\ ToSet(stack'[th]) = ToSet(stack[th]) \cup {u}
         /\ IsInjective(stack'[th])
         /\ \A t \in Threads \ {th} : stack'[t] = stack[t]
  <1>1. /\ stack'[th] = Append(stack[th], u)
        /\ \A t \in Threads \ {th} : stack'[t] = stack[t]
    BY DEF Poll, BInv, TInv, TypeOK
  <1>2. /\ stack[th] \in Seq(Code) /\ IsInjective(stack[th])
        /\ u \in Code /\ u \notin ToSet(stack[th])
    BY QueueFacts DEF Code, Polled
  <1> QED
    BY <1>1, <1>2, AppendLemma

(* The end of a poll: the stacks afterwards.                               *)
LEMMA ReturnFacts ==
  ASSUME BInv, NEW th \in Threads, stack[th] # <<>>, Return(th)
  PROVE  /\ Last(stack[th]) \in Code
         /\ ToSet(stack[th]) = {Last(stack[th])} \cup ToSet(stack'[th])
         /\ Last(stack[th]) \notin ToSet(stack'[th])
         /\ IsInjective(stack'[th])
         /\ \A t \in Threads \ {th} : stack'[t] = stack[t]
  <1>1. /\ stack'[th] = Front(stack[th])
        /\ \A t \in Threads \ {th} : stack'[t] = stack[t]
    BY DEF Return, BInv, TInv, TypeOK
  <1>2. stack[th] \in Seq(Code) /\ IsInjective(stack[th])
    BY QueueFacts
  <1> QED
    BY <1>1, <1>2, FrontLemma

(* Nothing moves.                                                          *)
LEMMA NothingMoves ==
  ASSUME Books, UNCHANGED <<globalQ, localQ, stack>>, SameInFlight
  PROVE  Books'
  BY DEF Books, NoTaskTwice, NothingMislaid, Queued, InDeque, Polled,
         SameInFlight

(* A new task enters the global queue.                                     *)
LEMMA EntersQueue ==
  ASSUME BInv, NEW u \in Tasks, ~InFlight(u), InFlight(u)',
         \A v \in Tasks \ {u} : InFlight(v)' <=> InFlight(v),
         globalQ' = Append(globalQ, u), UNCHANGED <<localQ, stack>>
  PROVE  Books'
  <1>1. /\ ~Queued(u) /\ \A th \in Threads : ~Polled(th, u)
        /\ \A w \in Workers : ~InDeque(w, u)
    BY DEF BInv, Books, NothingMislaid
  <1>2. ToSet(globalQ') = ToSet(globalQ) \cup {u} /\ IsInjective(globalQ')
    BY <1>1, QueueFacts, AppendLemma DEF Queued
  <1>3. NoTaskTwice'
    BY <1>1, <1>2 DEF BInv, Books, NoTaskTwice, Queued, InDeque, Polled
  <1>4. NothingMislaid'
    BY <1>2 DEF BInv, Books, NothingMislaid, Queued, InDeque, Polled
  <1> QED
    BY <1>3, <1>4 DEF Books

(* The head of the global queue is polled.                                 *)
LEMMA QueueToStack ==
  ASSUME BInv, NEW th \in Threads, globalQ # <<>>,
         Poll(th, Head(globalQ)), globalQ' = Tail(globalQ),
         UNCHANGED localQ, SameInFlight
  PROVE  Books'
  <1> DEFINE u == Head(globalQ)
  <1>1. /\ u \in Tasks /\ ToSet(globalQ) = {u} \cup ToSet(globalQ')
        /\ u \notin ToSet(globalQ') /\ IsInjective(globalQ')
    BY QueueFacts, TailLemma
  <1>2. Queued(u)
    BY <1>1 DEF Queued
  <1> HIDE DEF u
  <1>3. \A t \in Threads : ~Polled(t, u)
    BY <1>1, <1>2 DEF BInv, Books, NoTaskTwice
  <1>4. /\ ToSet(stack'[th]) = ToSet(stack[th]) \cup {u}
        /\ IsInjective(stack'[th])
        /\ \A t \in Threads \ {th} : stack'[t] = stack[t]
    BY <1>1, <1>3, PollFacts DEF u
  <1>5. NoTaskTwice'
    BY <1>1, <1>2, <1>3, <1>4
       DEF BInv, Books, NoTaskTwice, Queued, InDeque, Polled
  <1>6. NothingMislaid'
    BY <1>1, <1>4
       DEF BInv, Books, NothingMislaid, Queued, InDeque, Polled, SameInFlight
  <1> QED
    BY <1>5, <1>6 DEF Books

(* The head of a deque is polled, by its owner or by a thief.              *)
LEMMA DequeToStack ==
  ASSUME BInv, NEW th \in Threads, NEW w \in Workers, localQ[w] # <<>>,
         Poll(th, Head(localQ[w])), localQ' = [localQ EXCEPT ![w] = Tail(@)],
         UNCHANGED globalQ, SameInFlight
  PROVE  Books'
  <1> DEFINE u == Head(localQ[w])
  <1>1. /\ localQ'[w] = Tail(localQ[w])
        /\ \A v \in Workers \ {w} : localQ'[v] = localQ[v]
    BY DEF BInv, TInv, TypeOK
  <1>2. /\ u \in Tasks /\ ToSet(localQ[w]) = {u} \cup ToSet(localQ'[w])
        /\ u \notin ToSet(localQ'[w]) /\ IsInjective(localQ'[w])
    BY <1>1, QueueFacts, TailLemma
  <1>3. InDeque(w, u)
    BY <1>2 DEF InDeque
  <1> HIDE DEF u
  <1>4. \A t \in Threads : ~Polled(t, u)
    BY <1>2, <1>3 DEF BInv, Books, NoTaskTwice
  <1>5. /\ ToSet(stack'[th]) = ToSet(stack[th]) \cup {u}
        /\ IsInjective(stack'[th])
        /\ \A t \in Threads \ {th} : stack'[t] = stack[t]
    BY <1>2, <1>4, PollFacts DEF u
  <1>6. NoTaskTwice'
    BY <1>1, <1>2, <1>3, <1>4, <1>5
       DEF BInv, Books, NoTaskTwice, Queued, InDeque, Polled
  <1>7. NothingMislaid'
    BY <1>1, <1>2, <1>5
       DEF BInv, Books, NothingMislaid, Queued, InDeque, Polled, SameInFlight
  <1> QED
    BY <1>6, <1>7 DEF Books

(* A batch of the global queue: its first task is polled, the others go    *)
(* to w's deque.                                                           *)
LEMMA QueueToDeque ==
  ASSUME BInv, NEW w \in Workers, w \in Threads, globalQ # <<>>,
         Poll(w, Head(globalQ)), NEW k \in 1 .. Len(globalQ),
         localQ' = [localQ EXCEPT ![w] = @ \o SubSeq(globalQ, 2, k)],
         globalQ' = SubSeq(globalQ, k + 1, Len(globalQ)), SameInFlight
  PROVE  Books'
  <1> DEFINE u == Head(globalQ)
             batch == SubSeq(globalQ, 2, k)
  <1>1. /\ u \in Tasks /\ batch \in Seq(Tasks)
        /\ ToSet(globalQ) = {u} \cup ToSet(batch) \cup ToSet(globalQ')
        /\ IsInjective(batch) /\ IsInjective(globalQ')
        /\ u \notin ToSet(batch) /\ u \notin ToSet(globalQ')
        /\ ToSet(batch) \cap ToSet(globalQ') = {}
    BY QueueFacts, BatchLemma
  <1>2. /\ localQ'[w] = localQ[w] \o batch
        /\ \A v \in Workers \ {w} : localQ'[v] = localQ[v]
    BY DEF BInv, TInv, TypeOK
  <1>3. Queued(u) /\ \A x \in ToSet(batch) : x \in Tasks /\ Queued(x)
    <2>1. ToSet(batch) \subseteq Tasks
      BY <1>1, MembersLemma
    <2> QED
      BY <1>1, <2>1 DEF Queued
  <1> HIDE DEF u, batch
  <1>4. ToSet(localQ[w]) \cap ToSet(batch) = {}
    BY <1>3 DEF BInv, Books, NoTaskTwice, InDeque
  <1>5. /\ ToSet(localQ'[w]) = ToSet(localQ[w]) \cup ToSet(batch)
        /\ IsInjective(localQ'[w])
    <2>1. localQ[w] \in Seq(Tasks) /\ IsInjective(localQ[w])
      BY QueueFacts
    <2>2. batch \in Seq(Tasks) /\ IsInjective(batch)
      BY <1>1
    <2> DEFINE old == localQ[w]
    <2>3. localQ'[w] = old \o batch /\ ToSet(old) \cap ToSet(batch) = {}
      BY <1>1, <1>2, <1>4
    <2>4. old \in Seq(Tasks) /\ IsInjective(old)
      BY <2>1
    <2> HIDE DEF old
    <2>5. /\ ToSet(old \o batch) = ToSet(old) \cup ToSet(batch)
          /\ IsInjective(old \o batch)
      BY <2>2, <2>3, <2>4, ConcatLemma
    <2> QED
      BY <2>3, <2>5 DEF old
  <1>6. \A t \in Threads : ~Polled(t, u)
    BY <1>1, <1>3 DEF BInv, Books, NoTaskTwice
  <1>7. /\ ToSet(stack'[w]) = ToSet(stack[w]) \cup {u}
        /\ IsInjective(stack'[w])
        /\ \A t \in Threads \ {w} : stack'[t] = stack[t]
    BY <1>1, <1>6, PollFacts DEF u
  <1>8. NoTaskTwice'
    <2>1. /\ IsInjective(globalQ')
          /\ \A x \in Workers : IsInjective(localQ'[x])
          /\ \A t \in Threads : IsInjective(stack'[t])
      BY <1>1, <1>2, <1>5, <1>7, QueueFacts
    <2>2. \A x \in Tasks : /\ \A y \in Workers : InDeque(y, x)' => ~Queued(x)'
                          /\ \A t \in Threads : Polled(t, x)' => ~Queued(x)'
      BY <1>1, <1>2, <1>3, <1>5, <1>6, <1>7
         DEF BInv, Books, NoTaskTwice, Queued, InDeque, Polled
    <2>3. \A x \in Tasks, y \in Workers, t \in Threads : ~(InDeque(y, x)' /\ Polled(t, x)')
      <3>1. \A x \in Tasks, y \in Workers :
              InDeque(y, x)' => InDeque(y, x) \/ x \in ToSet(batch)
        BY <1>1, <1>2, <1>5 DEF InDeque
      <3>2. \A x \in Tasks, t \in Threads : Polled(t, x)' => Polled(t, x) \/ x = u
        BY <1>7 DEF Polled
      <3>3. \A x \in ToSet(batch) : x # u /\ \A t \in Threads : ~Polled(t, x)
        BY <1>1, <1>2, <1>3, Apart
      <3>4. \A y \in Workers : ~InDeque(y, u)
        BY <1>1, <1>3, Apart
      <3> QED
        BY <1>1, <3>1, <3>2, <3>3, <3>4, Apart
    <2>4. \A x \in Tasks, y, z \in Workers : InDeque(y, x)' /\ InDeque(z, x)' => y = z
      BY <1>1, <1>2, <1>3, <1>5
         DEF BInv, Books, NoTaskTwice, Queued, InDeque
    <2>5. \A x \in Tasks, s, t \in Threads : Polled(s, x)' /\ Polled(t, x)' => s = t
      BY <1>6, <1>7 DEF BInv, Books, NoTaskTwice, Polled
    <2> QED
      BY <2>1, <2>2, <2>3, <2>4, <2>5 DEF NoTaskTwice
  <1>9. NothingMislaid'
    BY <1>1, <1>2, <1>5, <1>7
       DEF BInv, Books, NothingMislaid, Queued, InDeque, Polled, SameInFlight
  <1> QED
    BY <1>8, <1>9 DEF Books

(* A batch of the deque of another worker.                                 *)
LEMMA DequeToDeque ==
  ASSUME BInv, NEW w \in Workers, w \in Threads, NEW v \in Workers, v # w,
         localQ[v] # <<>>, Poll(w, Head(localQ[v])),
         NEW k \in 1 .. Len(localQ[v]),
         localQ' = [localQ EXCEPT ![w] = @ \o SubSeq(localQ[v], 2, k),
                                  ![v] = SubSeq(@, k + 1, Len(@))],
         UNCHANGED globalQ, SameInFlight
  PROVE  Books'
  <1> DEFINE u == Head(localQ[v])
             batch == SubSeq(localQ[v], 2, k)
             rest == SubSeq(localQ[v], k + 1, Len(localQ[v]))
  <1>1. /\ localQ'[w] = localQ[w] \o batch
        /\ localQ'[v] = rest
        /\ \A x \in Workers \ {v, w} : localQ'[x] = localQ[x]
    BY DEF BInv, TInv, TypeOK
  <1>2. /\ u \in Tasks /\ batch \in Seq(Tasks)
        /\ ToSet(localQ[v]) = {u} \cup ToSet(batch) \cup ToSet(rest)
        /\ IsInjective(batch) /\ IsInjective(rest)
        /\ u \notin ToSet(batch) /\ u \notin ToSet(rest)
        /\ ToSet(batch) \cap ToSet(rest) = {}
    BY QueueFacts, BatchLemma
  <1>3. InDeque(v, u) /\ \A x \in ToSet(batch) : x \in Tasks /\ InDeque(v, x)
    <2>1. ToSet(batch) \subseteq Tasks
      BY <1>2, MembersLemma
    <2> QED
      BY <1>2, <2>1 DEF InDeque
  <1> HIDE DEF u, batch, rest
  <1>4. ToSet(localQ[w]) \cap ToSet(batch) = {}
    BY <1>3 DEF BInv, Books, NoTaskTwice, InDeque
  <1>5. /\ ToSet(localQ'[w]) = ToSet(localQ[w]) \cup ToSet(batch)
        /\ IsInjective(localQ'[w])
    <2>1. localQ[w] \in Seq(Tasks) /\ IsInjective(localQ[w])
      BY QueueFacts
    <2>2. batch \in Seq(Tasks) /\ IsInjective(batch)
      BY <1>2
    <2> DEFINE old == localQ[w]
    <2>3. localQ'[w] = old \o batch /\ ToSet(old) \cap ToSet(batch) = {}
      BY <1>1, <1>2, <1>4
    <2>4. old \in Seq(Tasks) /\ IsInjective(old)
      BY <2>1
    <2> HIDE DEF old
    <2>5. /\ ToSet(old \o batch) = ToSet(old) \cup ToSet(batch)
          /\ IsInjective(old \o batch)
      BY <2>2, <2>3, <2>4, ConcatLemma
    <2> QED
      BY <2>3, <2>5 DEF old
  <1>6. \A t \in Threads : ~Polled(t, u)
    BY <1>2, <1>3 DEF BInv, Books, NoTaskTwice
  <1>7. /\ ToSet(stack'[w]) = ToSet(stack[w]) \cup {u}
        /\ IsInjective(stack'[w])
        /\ \A t \in Threads \ {w} : stack'[t] = stack[t]
    BY <1>2, <1>6, PollFacts DEF u
  <1>8. NoTaskTwice'
    <2>1. /\ IsInjective(globalQ')
          /\ \A x \in Workers : IsInjective(localQ'[x])
          /\ \A t \in Threads : IsInjective(stack'[t])
      BY <1>1, <1>2, <1>5, <1>7, QueueFacts
    <2>2. \A x \in Tasks : /\ \A y \in Workers : InDeque(y, x)' => ~Queued(x)'
                          /\ \A t \in Threads : Polled(t, x)' => ~Queued(x)'
      <3>1. \A x \in Tasks, y \in Workers :
              InDeque(y, x)' => InDeque(y, x) \/ (InDeque(v, x) /\ x \in Tasks)
        BY <1>1, <1>2, <1>3, <1>5 DEF InDeque
      <3>2. \A x \in Tasks, t \in Threads :
              Polled(t, x)' => Polled(t, x) \/ InDeque(v, x)
        BY <1>3, <1>7 DEF Polled
      <3>3. \A x \in Tasks : Queued(x)' <=> Queued(x)
        BY DEF Queued
      <3> QED
        BY <3>1, <3>2, <3>3 DEF BInv, Books, NoTaskTwice
    <2>3. \A x \in Tasks, y \in Workers, t \in Threads : ~(InDeque(y, x)' /\ Polled(t, x)')
      <3>1. \A x \in Tasks, y \in Workers :
              InDeque(y, x)' => InDeque(y, x) \/ x \in ToSet(batch)
        BY <1>1, <1>2, <1>5 DEF InDeque
      <3>2. \A x \in Tasks, t \in Threads : Polled(t, x)' => Polled(t, x) \/ x = u
        BY <1>7 DEF Polled
      <3>3. \A x \in ToSet(batch) : x # u /\ \A t \in Threads : ~Polled(t, x)
        BY <1>1, <1>2, <1>3, Apart
      <3>4. \A y \in Workers : u \notin ToSet(localQ'[y])
        <4>1. \A y \in Workers \ {v} : ~InDeque(y, u)
          BY <1>2, <1>3, Apart
        <4> QED
          BY <1>1, <1>2, <1>5, <4>1 DEF InDeque
      <3> SUFFICES ASSUME NEW x \in Tasks, NEW y \in Workers, NEW t \in Threads,
                          InDeque(y, x)', Polled(t, x)'
                   PROVE  FALSE
        OBVIOUS
      <3>5. x # u
        <4>1. x \in ToSet(localQ'[y])
          BY DEF InDeque
        <4> QED
          BY <3>4, <4>1
      <3>6. Polled(t, x)
        BY <3>2, <3>5
      <3>7. x \notin ToSet(batch)
        BY <3>3, <3>6
      <3>8. InDeque(y, x)
        BY <3>1, <3>7
      <3> QED
        BY <3>6, <3>8, Apart
    <2>4. \A x \in Tasks, y, z \in Workers : InDeque(y, x)' /\ InDeque(z, x)' => y = z
      <3>1. \A x \in ToSet(batch) : /\ x \in Tasks /\ ~InDeque(v, x)'
                                   /\ \A y \in Workers : InDeque(y, x)' => y = w
        <4>1. \A x \in ToSet(batch), y \in Workers : InDeque(y, x) => y = v
          BY <1>3, Apart
        <4> QED
          BY <1>1, <1>2, <1>3, <4>1 DEF InDeque
      <3>2. \A x \in Tasks, y \in Workers :
              InDeque(y, x)' => InDeque(y, x) \/ x \in ToSet(batch)
        BY <1>1, <1>2, <1>5 DEF InDeque
      <3> QED
        BY <3>1, <3>2, Apart
    <2>5. \A x \in Tasks, s, t \in Threads : Polled(s, x)' /\ Polled(t, x)' => s = t
      BY <1>6, <1>7 DEF BInv, Books, NoTaskTwice, Polled
    <2> QED
      BY <2>1, <2>2, <2>3, <2>4, <2>5 DEF NoTaskTwice
  <1>9. NothingMislaid'
    BY <1>1, <1>2, <1>5, <1>7
       DEF BInv, Books, NothingMislaid, Queued, InDeque, Polled, SameInFlight
  <1> QED
    BY <1>8, <1>9 DEF Books

(* A poll ends and its task goes nowhere.                                  *)
LEMMA LeavesStack ==
  ASSUME BInv, NEW th \in Threads, NEW c, stack[th] # <<>>,
         c = Last(stack[th]), Return(th),
         c \in Tasks => ~InFlight(c)',
         \A v \in Tasks \ {c} : InFlight(v)' <=> InFlight(v),
         UNCHANGED <<globalQ, localQ>>
  PROVE  Books'
  <1>1. /\ ToSet(stack[th]) = {c} \cup ToSet(stack'[th])
        /\ c \notin ToSet(stack'[th]) /\ IsInjective(stack'[th])
        /\ \A t \in Threads \ {th} : stack'[t] = stack[t]
    BY ReturnFacts
  <1>2. Polled(th, c)
    BY <1>1 DEF Polled
  <1>3. c \in Tasks => /\ ~Queued(c) /\ \A w \in Workers : ~InDeque(w, c)
                       /\ \A t \in Threads \ {th} : ~Polled(t, c)
    BY <1>2 DEF BInv, Books, NoTaskTwice
  <1>4. NoTaskTwice'
    BY <1>1 DEF BInv, Books, NoTaskTwice, Queued, InDeque, Polled
  <1>5. NothingMislaid'
    BY <1>1, <1>3 DEF BInv, Books, NothingMislaid, Queued, InDeque, Polled
  <1> QED
    BY <1>4, <1>5 DEF Books

(* A poll ends and its task goes back into the global queue.               *)
LEMMA ReentersQueue ==
  ASSUME BInv, NEW th \in Threads, NEW c \in Tasks, stack[th] # <<>>,
         c = Last(stack[th]), Return(th), globalQ' = Append(globalQ, c),
         UNCHANGED localQ, SameInFlight
  PROVE  Books'
  <1>1. /\ ToSet(stack[th]) = {c} \cup ToSet(stack'[th])
        /\ c \notin ToSet(stack'[th]) /\ IsInjective(stack'[th])
        /\ \A t \in Threads \ {th} : stack'[t] = stack[t]
    BY ReturnFacts
  <1>2. Polled(th, c)
    BY <1>1 DEF Polled
  <1>3. /\ ~Queued(c) /\ \A w \in Workers : ~InDeque(w, c)
        /\ \A t \in Threads \ {th} : ~Polled(t, c)
    BY <1>2 DEF BInv, Books, NoTaskTwice
  <1>4. ToSet(globalQ') = ToSet(globalQ) \cup {c} /\ IsInjective(globalQ')
    BY <1>3, QueueFacts, AppendLemma DEF Queued
  <1>5. NoTaskTwice'
    BY <1>1, <1>3, <1>4 DEF BInv, Books, NoTaskTwice, Queued, InDeque, Polled
  <1>6. NothingMislaid'
    BY <1>1, <1>4
       DEF BInv, Books, NothingMislaid, Queued, InDeque, Polled, SameInFlight
  <1> QED
    BY <1>5, <1>6 DEF Books

(* Whole queues are destroyed, and what was in them is out of flight.      *)
LEMMA QueuesAreCleared ==
  ASSUME BInv, globalQ' \in {globalQ, <<>>},
         \A j \in Workers : localQ'[j] \in {localQ[j], <<>>},
         UNCHANGED stack,
         \A v \in Tasks :
           InFlight(v)' <=> /\ InFlight(v)
                            /\ Queued(v) => Queued(v)'
                            /\ \A j \in Workers : InDeque(j, v) => InDeque(j, v)'
  PROVE  Books'
  <1>1. IsInjective(globalQ') /\ ToSet(globalQ') \subseteq ToSet(globalQ)
    BY EmptyLemma, QueueFacts
  <1>2. \A j \in Workers : /\ IsInjective(localQ'[j])
                           /\ ToSet(localQ'[j]) \subseteq ToSet(localQ[j])
    BY EmptyLemma, QueueFacts
  <1>3. NoTaskTwice'
    BY <1>1, <1>2 DEF BInv, Books, NoTaskTwice, Queued, InDeque, Polled
  <1>4. NothingMislaid'
    <2> SUFFICES ASSUME NEW u \in Tasks
                 PROVE  InFlight(u)' <=> \/ Queued(u)'
                                         \/ \E w \in Workers : InDeque(w, u)'
                                         \/ \E th \in Threads : Polled(th, u)'
      BY DEF NothingMislaid
    <2>1. /\ Queued(u)' => Queued(u)
          /\ \A w \in Workers : InDeque(w, u)' => InDeque(w, u)
          /\ \A th \in Threads : Polled(th, u)' <=> Polled(th, u)
      BY <1>1, <1>2 DEF Queued, InDeque, Polled
    <2>2. InFlight(u) <=> \/ Queued(u)
                          \/ \E w \in Workers : InDeque(w, u)
                          \/ \E th \in Threads : Polled(th, u)
      BY DEF BInv, Books, NothingMislaid
    <2>3. /\ \A w \in Workers : InDeque(w, u) => ~Queued(u)
          /\ \A th \in Threads : Polled(th, u) => ~Queued(u)
          /\ \A w \in Workers, th \in Threads : ~(InDeque(w, u) /\ Polled(th, u))
          /\ \A v, w \in Workers : InDeque(v, u) /\ InDeque(w, u) => v = w
      BY DEF BInv, Books, NoTaskTwice
    <2> QED
      BY <2>1, <2>2, <2>3
  <1> QED
    BY <1>3, <1>4 DEF Books

-----------------------------------------------------------------------------
(* What the actions do to the tasks in flight.                             *)

(* The code that acts is on its thread's stack, so it is in flight.        *)
LEMMA RunningIsPolled ==
  ASSUME BInv, NEW th \in Threads, NEW c \in Code, Running(th, c)
  PROVE  /\ stack[th] # <<>> /\ c = Last(stack[th]) /\ Polled(th, c)
         /\ c \in Tasks => chan[c] # "none" /\ mode[c] \notin {"done", "dropped"}
  <1>1. stack[th] \in Seq(Code) /\ stack[th] # <<>> /\ c = Last(stack[th])
    BY DEF BInv, TInv, TypeOK, Running
  <1>2. Polled(th, c)
    BY <1>1, FrontLemma DEF Polled
  <1>3. c \in Tasks => InFlight(c)
    BY <1>2 DEF BInv, Books, NothingMislaid
  <1> QED
    BY <1>1, <1>2, <1>3 DEF InFlight

(* Neither a channel nor a mode changes.                                   *)
LEMMA QuietStep ==
  ASSUME Fresh, UNCHANGED <<chan, mode>>
  PROVE  Fresh' /\ SameInFlight
  BY DEF Fresh, SameInFlight, InFlight

(* Code goes from one mode to another and stays in flight; a channel that  *)
(* is in use stays in use.                                                 *)
LEMMA ModeStep ==
  ASSUME BInv, NEW c \in Code, NEW m,
         mode' = [mode EXCEPT ![c] = m], m \notin {"done", "dropped"},
         c \in Tasks => chan[c] # "none" /\ mode[c] \notin {"done", "dropped"},
         \A v \in Tasks : chan'[v] = "none" <=> chan[v] = "none"
  PROVE  Fresh' /\ SameInFlight
  <1>1. \A v \in Code : mode'[v] = IF v = c THEN m ELSE mode[v]
    BY DEF BInv, TInv, TypeOK
  <1>2. \A v \in Tasks : v # c => mode'[v] = mode[v]
    BY <1>1 DEF Code
  <1>3. Fresh'
    BY <1>2 DEF BInv, Fresh
  <1>4. SameInFlight
    BY <1>1, <1>2 DEF SameInFlight, InFlight
  <1> QED
    BY <1>3, <1>4

(* Tasks are destroyed.                                                    *)
LEMMA DestroyFacts ==
  ASSUME BInv, NEW S, Destroy(S)
  PROVE  /\ Fresh'
         /\ \A v \in Tasks : InFlight(v)' <=> InFlight(v) /\ v \notin S
  <1>1. \A v \in Tasks : /\ chan'[v] = IF v \in S THEN "closed" ELSE chan[v]
                         /\ mode'[v] = IF v \in S THEN "dropped" ELSE mode[v]
    BY DEF Destroy, Code
  <1> QED
    BY <1>1 DEF BInv, Fresh, InFlight

(* A task is spawned.                                                      *)
LEMMA SpawnKeepsBooks ==
  ASSUME BInv, NEW u \in Tasks, SpawnTask(u), UNCHANGED stack,
         mode'[u] = mode[u],
         \A v \in Tasks \ {u} : /\ InFlight(v)' <=> InFlight(v)
                                /\ chan[v] = "none" => mode'[v] = mode[v]
  PROVE  Fresh' /\ Books'
  <1>1. /\ chan[u] = "none" /\ globalQ' = Append(globalQ, u) /\ localQ' = localQ
        /\ chan'[u] = "open" /\ \A v \in Tasks \ {u} : chan'[v] = chan[v]
    BY DEF SpawnTask, Owns, BInv, TInv, TypeOK
  <1>2. mode[u] = "code"
    BY <1>1 DEF BInv, Fresh
  <1>3. Fresh'
    BY <1>1, <1>2 DEF BInv, Fresh
  <1>4. ~InFlight(u) /\ InFlight(u)'
    BY <1>1, <1>2 DEF InFlight
  <1> QED
    BY <1>1, <1>3, <1>4, EntersQueue

(* No piece of code mislays or copies a task.                              *)
LEMMA CodeStepBooks ==
  ASSUME BInv, NEW th \in Threads, NEW c \in Code, CodeStep(th, c)
  PROVE  Fresh' /\ Books'
  <1> USE DEF userVars, queueVars
  <1>1. CASE DoSpawn(th, c)
    <2>1. Operand(c) \in Tasks
      BY <1>1, OperandIsTask DEF DoSpawn, AtOp, BInv, TInv
    <2> DEFINE u == Operand(c)
    <2>2. SpawnTask(u) /\ UNCHANGED stack /\ mode' = mode
      BY <1>1 DEF DoSpawn
    <2>3. \A v \in Tasks \ {u} : chan'[v] = chan[v]
      BY <2>2 DEF SpawnTask, Owns, BInv, TInv, TypeOK
    <2> HIDE DEF u
    <2> QED
      BY <2>1, <2>2, <2>3, SpawnKeepsBooks DEF u, InFlight
  <1>2. CASE DoBlockOn(th, c)
    <2>1. Operand(c) \in Tasks
      BY <1>2, OperandIsTask DEF DoBlockOn, AtOp, BInv, TInv
    <2> DEFINE u == Operand(c)
    <2>2. /\ SpawnTask(u) /\ UNCHANGED stack
          /\ mode' = [mode EXCEPT ![c] = "blocked"]
      BY <1>2 DEF DoBlockOn
    <2>3. mode[c] = "code" /\ (c \in Tasks => chan[c] # "none")
      BY <1>2, RunningIsPolled DEF DoBlockOn, AtOp
    <2>4. chan[u] = "none" /\ \A v \in Tasks \ {u} : chan'[v] = chan[v]
      BY <2>2 DEF SpawnTask, Owns, BInv, TInv, TypeOK
    <2> HIDE DEF u
    <2>5. u # c
      BY <2>1, <2>3, <2>4 DEF u
    <2>6. \A v \in Code : mode'[v] = IF v = c THEN "blocked" ELSE mode[v]
      BY <2>2 DEF BInv, TInv, TypeOK
    <2>7. \A v \in Tasks : mode'[v] = IF v = c THEN "blocked" ELSE mode[v]
      BY <2>6 DEF Code
    <2>8. \A v \in Tasks \ {u} : /\ InFlight(v)' <=> InFlight(v)
                                 /\ chan[v] = "none" => mode'[v] = mode[v]
      BY <2>3, <2>4, <2>7 DEF InFlight
    <2>9. mode'[u] = mode[u] /\ u \in Tasks
      BY <2>1, <2>5, <2>7 DEF u
    <2> QED
      BY <2>2, <2>8, <2>9, SpawnKeepsBooks
  <1>3. CASE DoAwait(th, c)
    <2>1. /\ mode[c] = "code"
          /\ c \in Tasks => chan[c] # "none" /\ mode[c] \notin {"done", "dropped"}
      BY <1>3, RunningIsPolled DEF DoAwait, Answers, AtOp
    <2>2. /\ mode' = [mode EXCEPT ![c] = "pending"] \/ mode' = mode
          /\ \A v \in Tasks : chan'[v] = "none" <=> chan[v] = "none"
      BY <1>3 DEF DoAwait, Answers, BInv, TInv, TypeOK
    <2>3. mode' = [mode EXCEPT ![c] = "pending"] \/ mode' = [mode EXCEPT ![c] = "code"]
      BY <2>1, <2>2 DEF BInv, TInv, TypeOK
    <2>4. \E m \in {"code", "pending"} : mode' = [mode EXCEPT ![c] = m]
      BY <2>3
    <2>5. PICK m : m \notin {"done", "dropped"} /\ mode' = [mode EXCEPT ![c] = m]
      BY <2>4
    <2>6. Fresh' /\ SameInFlight
      BY <2>1, <2>2, <2>5, ModeStep
    <2> QED
      BY <1>3, <2>6, NothingMoves DEF DoAwait, Answers, BInv
  <1>4. CASE DoYield(th, c)
    <2>1. c \in Tasks => chan[c] # "none" /\ mode[c] \notin {"done", "dropped"}
      BY <1>4, RunningIsPolled DEF DoYield, Wake, AtOp
    <2>2. /\ mode' = [mode EXCEPT ![c] = "pending"]
          /\ UNCHANGED <<chan, globalQ, localQ, stack>>
      BY <1>4 DEF DoYield, Wake
    <2>3. Fresh' /\ SameInFlight
      BY <2>1, <2>2, ModeStep
    <2> QED
      BY <2>2, <2>3, NothingMoves DEF BInv
  <1>5. CASE DoPanic(th, c)
    BY <1>5, QuietStep, NothingMoves DEF DoPanic, BInv
  <1>6. CASE DoRun(th, c)
    BY <1>6, QuietStep, NothingMoves DEF DoRun, BInv
  <1>7. CASE Finish(th, c)
    <2>1. c \in Tasks => chan[c] # "none" /\ mode[c] \notin {"done", "dropped"}
      BY <1>7, RunningIsPolled DEF Finish
    <2>2. /\ mode' = [mode EXCEPT ![c] = "finished"] \/ mode' = [mode EXCEPT ![c] = "ready"]
          /\ UNCHANGED <<chan, globalQ, localQ, stack>>
      BY <1>7 DEF Finish
    <2>3. Fresh' /\ SameInFlight
      BY <2>1, <2>2, ModeStep
    <2> QED
      BY <2>2, <2>3, NothingMoves DEF BInv
  <1>8. CASE Send(th, c)
    <2>1. c \in Tasks => chan[c] # "none" /\ mode[c] \notin {"done", "dropped"}
      BY <1>8, RunningIsPolled DEF Send
    <2>2. /\ mode' = [mode EXCEPT ![c] = "ready"]
          /\ chan' = [chan EXCEPT ![c] = "value"]
          /\ UNCHANGED <<globalQ, localQ, stack>>
      BY <1>8 DEF Send
    <2>3. \A v \in Tasks : chan'[v] = "none" <=> chan[v] = "none"
      BY <2>1, <2>2 DEF BInv, TInv, TypeOK
    <2>4. PICK m : m \notin {"done", "dropped"} /\ mode' = [mode EXCEPT ![c] = m]
      BY <2>2
    <2>5. Fresh' /\ SameInFlight
      BY <2>1, <2>3, <2>4, ModeStep
    <2> QED
      BY <2>2, <2>5, NothingMoves DEF BInv
  <1>9. CASE ReturnReady(th, c)
    <2>1. /\ stack[th] # <<>> /\ c = Last(stack[th])
          /\ c \in Tasks => chan[c] # "none"
      BY <1>9, RunningIsPolled DEF ReturnReady
    <2>2. /\ mode' = [mode EXCEPT ![c] = "done"] /\ Return(th)
          /\ UNCHANGED <<chan, globalQ, localQ>>
      BY <1>9 DEF ReturnReady
    <2>3. \A v \in Code : mode'[v] = IF v = c THEN "done" ELSE mode[v]
      BY <2>2 DEF BInv, TInv, TypeOK
    <2>4. \A v \in Tasks : mode'[v] = IF v = c THEN "done" ELSE mode[v]
      BY <2>3 DEF Code
    <2>5. /\ \A v \in Tasks \ {c} : InFlight(v)' <=> InFlight(v)
          /\ c \in Tasks => ~InFlight(c)'
      BY <2>2, <2>4 DEF InFlight
    <2>6. Fresh'
      BY <2>1, <2>2, <2>4 DEF BInv, Fresh
    <2> QED
      BY <2>1, <2>2, <2>5, <2>6, LeavesStack
  <1>10. CASE ReturnPending(th, c)
    <2>1. /\ stack[th] # <<>> /\ c = Last(stack[th])
          /\ c \in Tasks => chan[c] # "none" /\ mode[c] \notin {"done", "dropped"}
      BY <1>10, RunningIsPolled DEF ReturnPending
    <2>2. /\ mode[c] = "pending" /\ mode' = [mode EXCEPT ![c] = "code"] /\ Return(th)
          /\ globalQ' = Append(globalQ, c) /\ UNCHANGED <<chan, localQ>>
      BY <1>10 DEF ReturnPending
    <2>3. c \in Tasks
      BY <2>2 DEF BInv, TInv, OnlyTasksPend
    <2>4. Fresh' /\ SameInFlight
      BY <2>1, <2>2, ModeStep
    <2> QED
      BY <2>1, <2>2, <2>3, <2>4, ReentersQueue
  <1> QED
    BY <1>1, <1>2, <1>3, <1>4, <1>5, <1>6, <1>7, <1>8, <1>9, <1>10 DEF CodeStep

(* Nor does block_on.                                                      *)
LEMMA BlockOnStepBooks ==
  ASSUME BInv, NEW th \in Threads, NEW c \in Code, BlockOnStep(th, c)
  PROVE  Fresh' /\ Books'
  <1> USE DEF userVars, queueVars
  <1>1. CASE RecvOk(th, c)
    <2>1. c \in Tasks => chan[c] # "none" /\ mode[c] \notin {"done", "dropped"}
      BY <1>1, RunningIsPolled DEF RecvOk, Answers, Looking
    <2>2. /\ mode' = [mode EXCEPT ![c] = "code"]
          /\ chan[Operand(c)] = "value"
          /\ chan' = [chan EXCEPT ![Operand(c)] = "received"]
          /\ UNCHANGED <<globalQ, localQ, stack>>
      BY <1>1 DEF RecvOk, Answers
    <2>3. \A v \in Tasks : chan'[v] = "none" <=> chan[v] = "none"
      BY <2>2 DEF BInv, TInv, TypeOK
    <2>4. PICK m : m \notin {"done", "dropped"} /\ mode' = [mode EXCEPT ![c] = m]
      BY <2>2
    <2>5. Fresh' /\ SameInFlight
      BY <2>1, <2>3, <2>4, ModeStep
    <2> QED
      BY <2>2, <2>5, NothingMoves DEF BInv
  <1>2. CASE RecvEmpty(th, c)
    BY <1>2, QuietStep, NothingMoves DEF RecvEmpty, BInv
  <1>3. CASE RecvDisconnected(th, c)
    BY <1>3, QuietStep, NothingMoves DEF RecvDisconnected, BInv
  <1>4. CASE HelpSteal(th, c)
    <2>1. Fresh' /\ SameInFlight
      BY <1>4, QuietStep DEF HelpSteal, BInv
    <2> QED
      BY <1>4, <2>1, QueueToStack DEF HelpSteal
  <1>5. CASE HelpEmpty(th, c)
    BY <1>5, QuietStep, NothingMoves DEF HelpEmpty, BInv
  <1>6. CASE HelpRetry(th, c)
    BY <1>6, QuietStep, NothingMoves DEF HelpRetry, BInv
  <1> QED
    BY <1>1, <1>2, <1>3, <1>4, <1>5, <1>6 DEF BlockOnStep

(* Nor does a worker, whatever it pops or steals.                          *)
LEMMA WorkerStepBooks ==
  ASSUME BInv, NEW w \in Workers, WorkerStep(w)
  PROVE  Fresh' /\ Books'
  <1> USE DEF userVars, queueVars
  <1>1. w \in Threads
    BY DEF Threads
  <1>2. ASSUME UNCHANGED <<chan, mode, globalQ, localQ, stack>>
        PROVE  Fresh' /\ Books'
    BY <1>2, QuietStep, NothingMoves DEF BInv
  <1>3. ASSUME UNCHANGED <<chan, mode>>
        PROVE  Fresh' /\ SameInFlight
    BY <1>3, QuietStep DEF BInv
  <1>4. CASE PopLocal(w)
    <2>1. Fresh' /\ SameInFlight
      BY <1>3, <1>4 DEF PopLocal
    <2> QED
      BY <1>1, <1>4, <2>1, DequeToStack DEF PopLocal
  <1>5. CASE StealBatch(w)
    <2>1. Fresh' /\ SameInFlight
      BY <1>3, <1>5 DEF StealBatch
    <2>2. PICK k \in 1 .. Len(globalQ) :
            /\ localQ' = [localQ EXCEPT ![w] = @ \o SubSeq(globalQ, 2, k)]
            /\ globalQ' = SubSeq(globalQ, k + 1, Len(globalQ))
      BY <1>5 DEF StealBatch
    <2> QED
      BY <1>1, <1>5, <2>1, <2>2, QueueToDeque DEF StealBatch
  <1>6. CASE StealOne(w)
    <2>1. Fresh' /\ SameInFlight
      BY <1>3, <1>6 DEF StealOne
    <2> QED
      BY <1>1, <1>6, <2>1, QueueToStack DEF StealOne
  <1>7. CASE StealPeer(w)
    <2> DEFINE v == PeerAt(w)
    <2>1. v \in Workers /\ v # w
      BY <1>7, PeerIsWorker DEF StealPeer, AtPeer, BInv, TInv
    <2>2. Fresh' /\ SameInFlight
      BY <1>3, <1>7 DEF StealPeer
    <2>3. PICK k \in 1 .. Len(localQ[v]) :
            localQ' = [localQ EXCEPT ![w] = @ \o SubSeq(localQ[v], 2, k),
                                     ![v] = SubSeq(@, k + 1, Len(@))]
      BY <1>7 DEF StealPeer
    <2>4. Poll(w, Head(localQ[v])) /\ localQ[v] # <<>> /\ UNCHANGED globalQ
      BY <1>7 DEF StealPeer
    <2> HIDE DEF v
    <2> QED
      BY <1>1, <2>1, <2>2, <2>3, <2>4, DequeToDeque
  <1>8. CASE StealPeerOne(w)
    <2> DEFINE v == PeerAt(w)
    <2>1. v \in Workers
      BY PeerIsWorker DEF BInv, TInv
    <2>2. Fresh' /\ SameInFlight
      BY <1>3, <1>8 DEF StealPeerOne
    <2>3. /\ Poll(w, Head(localQ[v])) /\ localQ[v] # <<>> /\ UNCHANGED globalQ
          /\ localQ' = [localQ EXCEPT ![v] = Tail(@)]
      BY <1>8 DEF StealPeerOne
    <2> HIDE DEF v
    <2> QED
      BY <1>1, <2>1, <2>2, <2>3, DequeToStack
  <1>9. CASE Leave(w)
    <2> DEFINE orphans == {j \in Workers : LastHolder(w, j)}
               last    == Freed /\ \A k \in Workers \ {w} : HasReleased(k)
               lost    == (UNION {ToSet(localQ[j]) : j \in orphans})
                            \cup (IF last THEN ToSet(globalQ) ELSE {})
    <2>1. /\ Destroy(lost) /\ UNCHANGED stack
          /\ localQ' = [j \in Workers |-> IF j \in orphans THEN <<>> ELSE localQ[j]]
          /\ globalQ' = IF last THEN <<>> ELSE globalQ
      BY <1>9 DEF Leave
    <2>2. \A v \in Tasks :
            v \in lost <=> \/ \E j \in orphans : InDeque(j, v)
                           \/ last /\ Queued(v)
      <3> HIDE DEF orphans, last
      <3>1. \A v : v \in UNION {ToSet(localQ[j]) : j \in orphans}
                    <=> \E j \in orphans : v \in ToSet(localQ[j])
        OBVIOUS
      <3>2. \A v : v \in (IF last THEN ToSet(globalQ) ELSE {})
                    <=> last /\ v \in ToSet(globalQ)
        OBVIOUS
      <3> QED
        BY <3>1, <3>2 DEF InDeque, Queued
    <2>3. orphans \subseteq Workers
      OBVIOUS
    <2> HIDE DEF orphans, last, lost
    <2>4. /\ \A v \in Tasks : Queued(v) => (Queued(v)' <=> ~last)
          /\ \A v \in Tasks, j \in Workers :
               InDeque(j, v) => (InDeque(j, v)' <=> j \notin orphans)
      BY <2>1, EmptyLemma DEF Queued, InDeque
    <2>5. /\ Fresh'
          /\ \A v \in Tasks : InFlight(v)' <=> InFlight(v) /\ v \notin lost
      BY <2>1, DestroyFacts
    <2>6. \A v \in Tasks :
            v \notin lost <=> /\ Queued(v) => Queued(v)'
                              /\ \A j \in Workers : InDeque(j, v) => InDeque(j, v)'
      <3> TAKE v \in Tasks
      <3>1. /\ Queued(v) => (Queued(v)' <=> ~last)
            /\ \A j \in Workers :
                 InDeque(j, v) => (InDeque(j, v)' <=> j \notin orphans)
        BY <2>4
      <3>2. v \in lost <=> \/ \E j \in orphans : InDeque(j, v)
                           \/ last /\ Queued(v)
        BY <2>2
      <3> QED
        BY <2>3, <3>1, <3>2
    <2> QED
      BY <2>1, <2>5, <2>6, QueuesAreCleared
  <1>10. CASE \/ CheckShutdown(w) \/ LocalEmpty(w) \/ GlobalRetry(w)
              \/ GlobalMissed(w) \/ PeerRetry(w) \/ NextPeer(w)
              \/ NoWork(w) \/ Exit(w)
    BY <1>2, <1>10
       DEF CheckShutdown, AfterCheck, LocalEmpty, AfterPop, GlobalRetry,
           GlobalMissed, PeerRetry, NextPeer, NoWork, Exit
  <1> QED
    BY <1>4, <1>5, <1>6, <1>7, <1>8, <1>9, <1>10 DEF WorkerStep

(* A panic destroys the innermost task of its thread.                      *)
LEMMA UnwindBooks ==
  ASSUME BInv, NEW th \in Threads, Unwind(th)
  PROVE  Fresh' /\ Books'
  <1>0. PICK c : c = Last(stack[th])
    OBVIOUS
  <1>1. /\ stack[th] # <<>> /\ Return(th) /\ Destroy({c})
        /\ UNCHANGED <<globalQ, localQ>>
    BY <1>0 DEF Unwind, queueVars
  <1>2. /\ Fresh'
        /\ \A v \in Tasks : InFlight(v)' <=> InFlight(v) /\ v \notin {c}
    BY <1>1, DestroyFacts
  <1>3. /\ c \in Tasks => ~InFlight(c)'
        /\ \A v \in Tasks \ {c} : InFlight(v)' <=> InFlight(v)
    BY <1>2
  <1> QED
    BY <1>0, <1>1, <1>2, <1>3, LeavesStack

(* The drop of the executor destroys what is left in the global queue.     *)
LEMMA DropDoneBooks ==
  ASSUME BInv, NEW th \in Threads, DropDone(th)
  PROVE  Fresh' /\ Books'
  <1>1. /\ Destroy(ToSet(globalQ)) /\ globalQ' = <<>>
        /\ UNCHANGED <<localQ, stack>>
    BY DEF DropDone
  <1>2. /\ Fresh'
        /\ \A v \in Tasks : InFlight(v)' <=> InFlight(v) /\ ~Queued(v)
    BY <1>1, DestroyFacts DEF Queued
  <1>3. \A v \in Tasks : ~Queued(v)'
    BY <1>1, EmptyLemma DEF Queued
  <1>4. \A v \in Tasks, j \in Workers : InDeque(j, v)' <=> InDeque(j, v)
    BY <1>1 DEF InDeque
  <1> QED
    BY <1>1, <1>2, <1>3, <1>4, QueuesAreCleared

(* At the start no task is anywhere, and only callers are on stacks.       *)
LEMMA InitBooks ==
  ASSUME Init
  PROVE  BInv
  <1>1. TInv
    BY InitType
  <1>2. Fresh
    BY DEF Init, Fresh, Code
  <1>3. /\ \A u \in Tasks : ~InFlight(u) /\ ~Queued(u)
        /\ \A u \in Tasks, w \in Workers : ~InDeque(w, u)
    BY EmptyLemma DEF Init, InFlight, Queued, InDeque
  <1>4. \A th \in Threads : /\ IsInjective(stack[th])
                            /\ ToSet(stack[th]) \subseteq Callers
    <2> SUFFICES ASSUME NEW th \in Threads
                 PROVE  IsInjective(stack[th]) /\ ToSet(stack[th]) \subseteq Callers
      OBVIOUS
    <2>1. CASE th \in Workers
      BY <2>1, EmptyLemma DEF Init
    <2>2. CASE th \notin Workers
      BY <2>2, SingletonLemma DEF Init, Threads
    <2> QED
      BY <2>1, <2>2
  <1>5. \A u \in Tasks, th \in Threads : ~Polled(th, u)
    BY <1>4, ExecutorAssumption DEF Polled
  <1>6. IsInjective(globalQ) /\ \A w \in Workers : IsInjective(localQ[w])
    BY EmptyLemma DEF Init
  <1> QED
    BY <1>1, <1>2, <1>3, <1>4, <1>5, <1>6
       DEF BInv, Books, NoTaskTwice, NothingMislaid

(* The invariant is inductive.                                             *)
LEMMA NextBooks ==
  ASSUME BInv, [Next]_vars
  PROVE  BInv'
  <1>1. TInv'
    BY NextType DEF BInv
  <1>2. ASSUME UNCHANGED <<chan, mode, globalQ, localQ, stack>>
        PROVE  Fresh' /\ Books'
    BY <1>2, QuietStep, NothingMoves DEF BInv
  <1>3. ASSUME UNCHANGED vars
        PROVE  Fresh' /\ Books'
    BY <1>2, <1>3 DEF vars, userVars, queueVars
  <1>4. ASSUME NEW th \in Threads, ThreadStep(th)
        PROVE  Fresh' /\ Books'
    <2>1. CASE JoinNext(th)
      BY <1>2, <2>1 DEF JoinNext, Joinable, userVars, queueVars
    <2> QED
      BY <1>4, <2>1, CodeStepBooks, BlockOnStepBooks, WorkerStepBooks,
         UnwindBooks, DropDoneBooks DEF ThreadStep
  <1>5. ASSUME NEW w \in Workers, JoinSelf(w)
        PROVE  Fresh' /\ Books'
    BY <1>2, <1>5 DEF JoinSelf, userVars, queueVars
  <1>6. Fresh' /\ Books'
    BY <1>3, <1>4, <1>5 DEF Next
  <1> QED
    BY <1>1, <1>6 DEF BInv

(***************************************************************************)
(* No task is ever in two queues, or in one twice, or polled by two        *)
(* threads: whatever number of workers steals from whatever queue.         *)
(***************************************************************************)
THEOREM NoTaskIsCopied == Spec => []NoTaskTwice
  <1>1. Init => BInv
    BY InitBooks
  <1>2. BInv /\ [Next]_vars => BInv'
    BY NextBooks
  <1>3. BInv => NoTaskTwice
    BY DEF BInv, Books
  <1> QED
    BY <1>1, <1>2, <1>3, PTL DEF Spec

(***************************************************************************)
(* A task in flight is in a queue, in a deque or being polled, and one     *)
(* that is not is in none of them: no steal, re-queue, panic or shutdown   *)
(* mislays a task, and none is polled after it completed.                  *)
(***************************************************************************)
THEOREM NoTaskIsMislaid == Spec => []NothingMislaid
  <1>1. Init => BInv
    BY InitBooks
  <1>2. BInv /\ [Next]_vars => BInv'
    BY NextBooks
  <1>3. BInv => NothingMislaid
    BY DEF BInv, Books
  <1> QED
    BY <1>1, <1>2, <1>3, PTL DEF Spec
=============================================================================
