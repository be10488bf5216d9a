---------------------------- MODULE QueueLemmas ----------------------------
(***************************************************************************)
(* What the queue and stack operations of the executors do to the set of   *)
(* the elements of a sequence, and that they create no duplicates.         *)
(***************************************************************************)
EXTENDS SequencesExt, SequenceTheorems, FiniteSetTheorems, TLAPS

(* Membership in a queue, by index.                                        *)
LEMMA ElementsLemma ==
  ASSUME NEW S, NEW s \in Seq(S)
  PROVE  \A x : x \in ToSet(s) <=> \E i \in 1 .. Len(s) : s[i] = x
  BY DOMAIN s = 1 .. Len(s) DEF ToSet

(* A queue of tasks holds tasks.                                           *)
LEMMA MembersLemma ==
  ASSUME NEW S, NEW s \in Seq(S)
  PROVE  ToSet(s) \subseteq S
  BY ElementsLemma

(* No duplicates in a queue, by index.                                     *)
LEMMA DistinctLemma ==
  ASSUME NEW S, NEW s \in Seq(S)
  PROVE  IsInjective(s) <=> \A i, j \in 1 .. Len(s) : s[i] = s[j] => i = j
  BY DOMAIN s = 1 .. Len(s) DEF IsInjective

(* A queue that is empty.                                                  *)
LEMMA EmptyLemma == ToSet(<<>>) = {} /\ IsInjective(<<>>)
  BY DEF ToSet, IsInjective

(* A stack with one frame.                                                 *)
LEMMA SingletonLemma ==
  ASSUME NEW x
  PROVE  ToSet(<<x>>) = {x} /\ IsInjective(<<x>>)
  BY DEF ToSet, IsInjective

(* push: one element more, and no duplicate if it was not there.           *)
LEMMA AppendLemma ==
  ASSUME NEW S, NEW s \in Seq(S), NEW x \in S
  PROVE  /\ Append(s, x) \in Seq(S)
         /\ ToSet(Append(s, x)) = ToSet(s) \cup {x}
         /\ IsInjective(s) /\ x \notin ToSet(s) => IsInjective(Append(s, x))
  <1> DEFINE t == Append(s, x)
             n == Len(s)
  <1>1. /\ t \in Seq(S) /\ n \in Nat /\ Len(t) = n + 1 /\ t[n + 1] = x
        /\ \A i \in 1 .. n : t[i] = s[i]
    OBVIOUS
  <1>2. /\ \A y : y \in ToSet(s) <=> \E i \in 1 .. n : s[i] = y
        /\ \A y : y \in ToSet(t) <=> \E i \in 1 .. Len(t) : t[i] = y
    BY <1>1, ElementsLemma
  <1>3. /\ IsInjective(s) <=> \A i, j \in 1 .. n : s[i] = s[j] => i = j
        /\ IsInjective(t) <=> \A i, j \in 1 .. Len(t) : t[i] = t[j] => i = j
    BY <1>1, DistinctLemma
  <1> HIDE DEF t, n
  <1>4. ToSet(t) = ToSet(s) \cup {x}
    BY <1>1, <1>2
  <1>5. IsInjective(s) /\ x \notin ToSet(s) => IsInjective(t)
    BY <1>1, <1>2, <1>3
  <1> QED
    BY <1>1, <1>4, <1>5 DEF t

(* pop at the head: the element popped is gone if there are no duplicates. *)
LEMMA TailLemma ==
  ASSUME NEW S, NEW s \in Seq(S), s # <<>>
  PROVE  /\ Head(s) \in S /\ Tail(s) \in Seq(S)
         /\ ToSet(s) = {Head(s)} \cup ToSet(Tail(s))
         /\ IsInjective(s) => /\ Head(s) \notin ToSet(Tail(s))
                              /\ IsInjective(Tail(s))
  <1>1. /\ Head(s) \in S /\ Tail(s) \in Seq(S) /\ Head(s) = s[1]
        /\ Len(s) \in Nat /\ Len(s) > 0 /\ Len(Tail(s)) = Len(s) - 1
    OBVIOUS
  <1>2. \A i \in 1 .. Len(s) - 1 : Tail(s)[i] = s[i + 1]
    OBVIOUS
  <1>3. \A x : x \in ToSet(s) <=> \E i \in 1 .. Len(s) : s[i] = x
    BY ElementsLemma
  <1>4. \A x : x \in ToSet(Tail(s)) <=> \E i \in 1 .. Len(s) - 1 : s[i + 1] = x
    <2>1. \A x : x \in ToSet(Tail(s)) <=> \E i \in 1 .. Len(s) - 1 : Tail(s)[i] = x
      <3>1. 1 .. Len(Tail(s)) = 1 .. Len(s) - 1
        BY <1>1
      <3>2. \A x : x \in ToSet(Tail(s)) <=> \E i \in 1 .. Len(Tail(s)) : Tail(s)[i] = x
        BY <1>1, ElementsLemma
      <3> QED
        BY <3>1, <3>2, Zenon
    <2> QED
      BY <2>1, <1>2
  <1>5. ToSet(s) = {Head(s)} \cup ToSet(Tail(s))
    <2>1. ASSUME NEW i \in 1 .. Len(s), i # 1
          PROVE  i - 1 \in 1 .. Len(s) - 1 /\ (i - 1) + 1 = i
      BY <2>1, <1>1
    <2>2. \A i \in 1 .. Len(s) - 1 : i + 1 \in 1 .. Len(s)
      BY <1>1
    <2>3. 1 \in 1 .. Len(s)
      BY <1>1
    <2> QED
      BY <2>1, <2>2, <2>3, <1>1, <1>3, <1>4
  <1>6. ASSUME IsInjective(s)
        PROVE  Head(s) \notin ToSet(Tail(s)) /\ IsInjective(Tail(s))
    <2>1. \A i, j \in 1 .. Len(s) : s[i] = s[j] => i = j
      BY <1>6, DistinctLemma
    <2>2. Head(s) \notin ToSet(Tail(s))
      BY <2>1, <1>1, <1>4
    <2>3. \A i, j \in 1 .. Len(s) - 1 : Tail(s)[i] = Tail(s)[j] => i = j
      BY <2>1, <1>1, <1>2
    <2> QED
      BY <2>2, <2>3, <1>1, DistinctLemma
  <1> QED
    BY <1>1, <1>5, <1>6

(* A stack without its top, by index.                                      *)
LEMMA FramesLemma ==
  ASSUME NEW S, NEW s \in Seq(S), s # <<>>
  PROVE  /\ Len(s) \in Nat /\ Len(s) > 0
         /\ Last(s) = s[Len(s)] /\ Last(s) \in S
         /\ Front(s) \in Seq(S) /\ Len(Front(s)) = Len(s) - 1
         /\ \A i \in 1 .. Len(s) - 1 : Front(s)[i] = s[i]
  <1>1. Len(s) \in Nat /\ Len(s) > 0 /\ s[Len(s)] \in S
    OBVIOUS
  <1>2. /\ Front(s) \in Seq(S) /\ Len(Front(s)) = Len(s) - 1
        /\ \A i \in 1 .. Len(s) - 1 : Front(s)[i] = s[i]
    <2>1. \A i \in 1 .. Len(s) - 1 : i \in 1 .. Len(s)
      BY <1>1
    <2>2. Len(s) - 1 \in Int /\ 1 <= Len(s)
      BY <1>1
    <2>3. SubSeq(s, 1, Len(s) - 1) \in Seq(S)
      BY <2>1, <2>2, SubSeqProperties
    <2>4. Len(SubSeq(s, 1, Len(s) - 1)) = Len(s) - 1
      <3> DEFINE n == Len(s)
                 m == Len(SubSeq(s, 1, Len(s) - 1))
      <3>1. m = IF 1 <= n - 1 THEN n - 1 - 1 + 1 ELSE 0
        BY <2>1, <2>2, SubSeqProperties
      <3>2. n \in Nat /\ n > 0
        BY <1>1
      <3> HIDE DEF n, m
      <3>3. m = n - 1
        BY <3>1, <3>2
      <3> QED
        BY <3>3 DEF n, m
    <2>5. \A i \in 1 .. Len(s) - 1 : SubSeq(s, 1, Len(s) - 1)[i] = s[i]
      BY <1>1
    <2> QED
      BY <2>3, <2>4, <2>5 DEF Front
  <1>3. Last(s) = s[Len(s)]
    BY DEF Last
  <1> QED
    BY <1>1, <1>2, <1>3

(* return: the same at the other end.                                      *)
LEMMA FrontLemma ==
  ASSUME NEW S, NEW s \in Seq(S), s # <<>>
  PROVE  /\ Last(s) \in S /\ Front(s) \in Seq(S)
         /\ ToSet(s) = {Last(s)} \cup ToSet(Front(s))
         /\ IsInjective(s) => /\ Last(s) \notin ToSet(Front(s))
                              /\ IsInjective(Front(s))
  <1>1. Len(s) \in Nat /\ Len(s) > 0 /\ s[Len(s)] \in S
    OBVIOUS
  <1>2. /\ Front(s) \in Seq(S) /\ Len(Front(s)) = Len(s) - 1
        /\ \A i \in 1 .. Len(s) - 1 : Front(s)[i] = s[i]
    BY FramesLemma
  <1>3. Last(s) = s[Len(s)]
    BY FramesLemma
  <1>4. \A x : x \in ToSet(s) <=> \E i \in 1 .. Len(s) : s[i] = x
    BY ElementsLemma
  <1>5. \A x : x \in ToSet(Front(s)) <=> \E i \in 1 .. Len(s) - 1 : s[i] = x
    <2>1. \A x : x \in ToSet(Front(s)) <=> \E i \in 1 .. Len(s) - 1 : Front(s)[i] = x
      BY <1>2, ElementsLemma
    <2> QED
      BY <2>1, <1>2
  <1>6. ToSet(s) = {Last(s)} \cup ToSet(Front(s))
    <2>1. \A i \in 1 .. Len(s) : i = Len(s) \/ i \in 1 .. Len(s) - 1
      BY <1>1
    <2>2. Len(s) \in 1 .. Len(s) /\ \A i \in 1 .. Len(s) - 1 : i \in 1 .. Len(s)
      BY <1>1
    <2> QED
      BY <2>1, <2>2, <1>3, <1>4, <1>5
  <1>7. ASSUME IsInjective(s)
        PROVE  Last(s) \notin ToSet(Front(s)) /\ IsInjective(Front(s))
    <2>1. \A i, j \in 1 .. Len(s) : s[i] = s[j] => i = j
      BY <1>7, DistinctLemma
    <2>2. Last(s) \notin ToSet(Front(s))
      BY <2>1, <1>1, <1>3, <1>5
    <2>3. \A i, j \in 1 .. Len(s) - 1 : Front(s)[i] = Front(s)[j] => i = j
      BY <2>1, <1>1, <1>2
    <2> QED
      BY <2>2, <2>3, <1>2, DistinctLemma
  <1> QED
    BY <1>1, <1>2, <1>3, <1>6, <1>7

(* A batch is split off: head, batch and rest are disjoint and cover all.  *)
LEMMA BatchLemma ==
  ASSUME NEW S, NEW s \in Seq(S), s # <<>>, NEW k \in 1 .. Len(s)
  PROVE  LET batch == SubSeq(s, 2, k)
             rest  == SubSeq(s, k + 1, Len(s))
         IN  /\ Head(s) \in S /\ batch \in Seq(S) /\ rest \in Seq(S)
             /\ ToSet(s) = {Head(s)} \cup ToSet(batch) \cup ToSet(rest)
             /\ IsInjective(s) => /\ IsInjective(batch) /\ IsInjective(rest)
                                  /\ Head(s) \notin ToSet(batch)
                                  /\ Head(s) \notin ToSet(rest)
                                  /\ ToSet(batch) \cap ToSet(rest) = {}
  <1> DEFINE batch == SubSeq(s, 2, k)
             rest  == SubSeq(s, k + 1, Len(s))
  <1>1. Head(s) \in S /\ Head(s) = s[1] /\ 1 \in 1 .. Len(s) /\ Len(s) \in Nat
    OBVIOUS
  <1>2. /\ batch \in Seq(S) /\ Len(batch) = k - 1
        /\ \A i \in 1 .. k - 1 : batch[i] = s[i + 1]
    <2>1. \A i \in 2 .. k : i \in 1 .. Len(s)
      OBVIOUS
    <2> QED
      BY <2>1, <1>1, SubSeqProperties
  <1>3. /\ rest \in Seq(S) /\ Len(rest) = Len(s) - k
        /\ \A i \in 1 .. Len(s) - k : rest[i] = s[i + k]
    <2>1. \A i \in k + 1 .. Len(s) : i \in 1 .. Len(s)
      OBVIOUS
    <2> QED
      BY <2>1, <1>1, SubSeqProperties
  <1> HIDE DEF batch, rest
  <1>4. /\ \A x : x \in ToSet(s) <=> \E i \in 1 .. Len(s) : s[i] = x
        /\ \A x : x \in ToSet(batch) <=> \E i \in 1 .. k - 1 : s[i + 1] = x
        /\ \A x : x \in ToSet(rest) <=> \E i \in 1 .. Len(s) - k : s[i + k] = x
    <2>1. \A x : x \in ToSet(batch) <=> \E i \in 1 .. k - 1 : batch[i] = x
      BY <1>2, ElementsLemma
    <2>2. \A x : x \in ToSet(rest) <=> \E i \in 1 .. Len(s) - k : rest[i] = x
      BY <1>3, ElementsLemma
    <2>3. \A x : (\E i \in 1 .. k - 1 : batch[i] = x) <=> (\E i \in 1 .. k - 1 : s[i + 1] = x)
      BY <1>2
    <2>4. \A x : (\E i \in 1 .. Len(s) - k : rest[i] = x) <=> (\E i \in 1 .. Len(s) - k : s[i + k] = x)
      BY <1>3
    <2>5. \A x : x \in ToSet(s) <=> \E i \in 1 .. Len(s) : s[i] = x
      BY ElementsLemma
    <2> QED
      BY <2>1, <2>2, <2>3, <2>4, <2>5, Zenon
  <1>5. ToSet(s) = {Head(s)} \cup ToSet(batch) \cup ToSet(rest)
    <2>1. ASSUME NEW i \in 1 .. Len(s)
          PROVE  s[i] \in {Head(s)} \cup ToSet(batch) \cup ToSet(rest)
      <3>1. CASE i = 1
        BY <3>1, <1>1
      <3>2. CASE i \in 2 .. k
        <4>1. i - 1 \in 1 .. k - 1 /\ s[i] = s[(i - 1) + 1]
          BY <3>2, <1>1
        <4> QED
          BY <4>1, <1>4
      <3>3. CASE i \in k + 1 .. Len(s)
        <4>1. i - k \in 1 .. Len(s) - k /\ s[i] = s[(i - k) + k]
          BY <3>3, <1>1
        <4> QED
          BY <4>1, <1>4
      <3> QED
        BY <3>1, <3>2, <3>3, <1>1
    <2>2. \A i \in 1 .. k - 1 : i + 1 \in 1 .. Len(s)
      BY <1>1
    <2>3. \A i \in 1 .. Len(s) - k : i + k \in 1 .. Len(s)
      BY <1>1
    <2> QED
      BY <2>1, <2>2, <2>3, <1>1, <1>4
  <1>6. ASSUME IsInjective(s)
        PROVE  /\ IsInjective(batch) /\ IsInjective(rest)
               /\ Head(s) \notin ToSet(batch) /\ Head(s) \notin ToSet(rest)
               /\ ToSet(batch) \cap ToSet(rest) = {}
    <2>1. \A i, j \in 1 .. Len(s) : s[i] = s[j] => i = j
      BY <1>6, DistinctLemma
    <2>2. IsInjective(batch)
      <3>0. \A i \in 1 .. k - 1 : i \in Int /\ i + 1 \in 1 .. Len(s) /\ batch[i] = s[i + 1]
        BY <1>1, <1>2
      <3>1. \A i, j \in 1 .. k - 1 : batch[i] = batch[j] => i = j
        <4> TAKE i, j \in 1 .. k - 1
        <4>1. batch[i] = batch[j] => i + 1 = j + 1
          BY <2>1, <3>0
        <4> QED
          BY <4>1, <3>0
      <3> QED
        BY <3>1, <1>2, DistinctLemma
    <2>3. IsInjective(rest)
      <3>1. \A i, j \in 1 .. Len(s) - k : rest[i] = rest[j] => i = j
        BY <2>1, <1>1, <1>3
      <3> QED
        BY <3>1, <1>3, DistinctLemma
    <2>4. Head(s) \notin ToSet(batch) /\ Head(s) \notin ToSet(rest)
      BY <2>1, <1>1, <1>4
    <2>5. ToSet(batch) \cap ToSet(rest) = {}
      <3>1. \A i \in 1 .. k - 1, j \in 1 .. Len(s) - k : s[i + 1] # s[j + k]
        BY <2>1, <1>1
      <3>2. ASSUME NEW x, x \in ToSet(batch), x \in ToSet(rest)
            PROVE  FALSE
        <4>1. PICK i \in 1 .. k - 1 : s[i + 1] = x
          BY <3>2, <1>4
        <4>2. PICK j \in 1 .. Len(s) - k : s[j + k] = x
          BY <3>2, <1>4
        <4> QED
          BY <3>1, <4>1, <4>2
      <3> QED
        BY <3>2
    <2> QED
      BY <2>2, <2>3, <2>4, <2>5
  <1> QED
    BY <1>1, <1>2, <1>3, <1>5, <1>6 DEF batch, rest

(* A batch is put behind what is there already.                            *)
LEMMA ConcatLemma ==
  ASSUME NEW S, NEW s \in Seq(S), NEW t \in Seq(S)
  PROVE  /\ s \o t \in Seq(S)
         /\ ToSet(s \o t) = ToSet(s) \cup ToSet(t)
         /\ (IsInjective(s) /\ IsInjective(t) /\ ToSet(s) \cap ToSet(t) = {})
              => IsInjective(s \o t)
  <1>1. /\ s \o t \in Seq(S) /\ Len(s \o t) = Len(s) + Len(t)
        /\ Len(s) \in Nat /\ Len(t) \in Nat
    OBVIOUS
  <1>2. \A i \in 1 .. Len(s) : i \in 1 .. Len(s \o t) /\ (s \o t)[i] = s[i]
    OBVIOUS
  <1>3. \A i \in 1 .. Len(t) :
          Len(s) + i \in 1 .. Len(s \o t) /\ (s \o t)[Len(s) + i] = t[i]
    OBVIOUS
  <1>4. \A i \in 1 .. Len(s \o t) :
          \/ i \in 1 .. Len(s) /\ (s \o t)[i] = s[i]
          \/ i - Len(s) \in 1 .. Len(t) /\ (s \o t)[i] = t[i - Len(s)]
    OBVIOUS
  <1>5. /\ \A x : x \in ToSet(s) <=> \E i \in 1 .. Len(s) : s[i] = x
        /\ \A x : x \in ToSet(t) <=> \E i \in 1 .. Len(t) : t[i] = x
        /\ \A x : x \in ToSet(s \o t) <=> \E i \in 1 .. Len(s \o t) : (s \o t)[i] = x
    BY <1>1, ElementsLemma
  <1>6. ToSet(s \o t) = ToSet(s) \cup ToSet(t)
    BY <1>2, <1>3, <1>4, <1>5
  <1>7. ASSUME IsInjective(s), IsInjective(t), ToSet(s) \cap ToSet(t) = {}
        PROVE  IsInjective(s \o t)
    <2>1. /\ \A i, j \in 1 .. Len(s) : s[i] = s[j] => i = j
          /\ \A i, j \in 1 .. Len(t) : t[i] = t[j] => i = j
      BY <1>7, DistinctLemma
    <2>2. \A i \in 1 .. Len(s), j \in 1 .. Len(t) : s[i] # t[j]
      BY <1>7, <1>5
    <2>3. \A i, j \in 1 .. Len(s \o t) : (s \o t)[i] = (s \o t)[j] => i = j
      BY <2>1, <2>2, <1>1, <1>4
    <2> QED
      BY <2>3, <1>1, DistinctLemma
  <1> QED
    BY <1>1, <1>6, <1>7

(* A queue without duplicates that misses an element of a finite set is    *)
(* shorter than the set is large.                                          *)
LEMMA RoomLemma ==
  ASSUME NEW S, IsFiniteSet(S), NEW s \in Seq(S), IsInjective(s),
         NEW u \in S, u \notin ToSet(s)
  PROVE  Len(s) < Cardinality(S)
  <1> DEFINE n == Len(s)
             T == S \ {u}
  <1>1. n \in Nat /\ DOMAIN s = 1 .. n /\ s \in [1 .. n -> S]
    OBVIOUS
  <1>2. \A i \in 1 .. n : s[i] # u
    BY <1>1, ElementsLemma
  <1>3. IsFiniteSet(T) /\ Cardinality(T) = Cardinality(S) - 1
    BY FS_RemoveElement
  <1>4. Cardinality(S) \in Nat
    BY FS_CardinalityType
  <1>5. s \in [1 .. n -> T]
    BY <1>1, <1>2
  <1>6. s \in Injection(1 .. n, T)
    BY <1>5 DEF Injection
  <1>7. Cardinality(1 .. n) <= Cardinality(T)
    BY <1>3, <1>6, FS_Injection
  <1>8. Cardinality(1 .. n) = n
    BY <1>1, FS_Interval
  <1> QED
    BY <1>1, <1>3, <1>4, <1>7, <1>8
=============================================================================
