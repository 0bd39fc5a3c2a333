--------------------------- MODULE TaskListProofs ---------------------------
(***************************************************************************)
(* Lemmas about the list operations of task-queue.c, for any set of tasks: *)
(* what a push and a pop make of the sequence of tasks that a queue        *)
(* represents, and of the set of tasks that a walk of the queue meets.     *)
(***************************************************************************)
EXTENDS TaskList, Integers, Sequences, FiniteSets, SequenceTheorems, FiniteSetTheorems,
        WellFoundedInduction, TLAPS

-----------------------------------------------------------------------------
(* The list operators on a queue that represents a sequence. *)

NoRepeat(s) == \A i, j \in 1 .. Len(s) : s[i] = s[j] => i = j

(* A queue keeps its sequence while the links of its own tasks stay.       *)
LEMMA FrameHolds ==
    ASSUME NEW q \in Queue, NEW l \in Links, NEW m \in Links, NEW s \in Seq(Task),
           Holds(q, l, s), \A i \in 1 .. Len(s) : m[s[i]] = l[s[i]]
    PROVE  Holds(q, m, s)
<1>1. CASE s = <<>>
  BY <1>1 DEF Holds
<1>2. CASE s # <<>>
  <2>1. Len(s) \in Nat \ {0}
    BY <1>2
  <2>2. \A i \in 1 .. Len(s) - 1 : i \in 1 .. Len(s)
    BY <2>1
  <2>3. Len(s) \in 1 .. Len(s)
    BY <2>1
  <2> QED
    BY <1>2, <2>2, <2>3 DEF Holds
<1> QED
  BY <1>1, <1>2

(* A push of a task that is not on the queue appends it.                   *)
LEMMA PushHolds ==
    ASSUME NEW q \in Queue, NEW l \in Links, NEW s \in Seq(Task), NEW t \in Task,
           Holds(q, l, s), NoRepeat(s), \A i \in 1 .. Len(s) : s[i] # t
    PROVE  Holds(PushQueue(q, t), PushLink(q, l, t), Append(s, t))
<1> DEFINE z == Append(s, t)
           m == PushLink(q, l, t)
<1>1. z # <<>> /\ Len(z) = Len(s) + 1 /\ z[Len(z)] = t
      /\ \A i \in 1 .. Len(s) : z[i] = s[i]
  OBVIOUS
<1>2. CASE s = <<>>
  <2>1. PushQueue(q, t) = [head |-> t, tail |-> t] /\ m[t] = NULL
    BY <1>2 DEF Holds, EmptyQueue, PushQueue, PushLink, Links
  <2> QED
    BY <1>1, <1>2, <2>1 DEF Holds
<1>3. CASE s # <<>>
  <2>1. Len(s) \in Nat \ {0} /\ s[Len(s)] \in Task
    BY <1>3
  <2>2. q.head = s[1] /\ q.tail = s[Len(s)] /\ q.tail # NULL
    BY <1>3, <2>1, NullAssumption DEF Holds
  <2>3. PushQueue(q, t) = [head |-> z[1], tail |-> z[Len(z)]]
    BY <1>1, <2>1, <2>2 DEF PushQueue
  <2>4. m = [l EXCEPT ![t] = NULL, ![s[Len(s)]] = t]
    BY <2>2 DEF PushLink
  <2>5. s[Len(s)] # t
    BY <2>1
  <2>6. m[t] = NULL /\ m[s[Len(s)]] = t
    BY <2>1, <2>4, <2>5 DEF Links
  <2>7. ASSUME NEW i \in 1 .. Len(s) - 1
        PROVE  m[s[i]] = s[i+1]
    <3>1. s[i] \in Task /\ s[i] # t /\ s[i] # s[Len(s)]
      BY <2>1, <2>7 DEF NoRepeat
    <3>2. m[s[i]] = l[s[i]]
      BY <2>4, <3>1 DEF Links
    <3> QED
      BY <1>3, <3>2 DEF Holds
  <2>8. ASSUME NEW i \in 1 .. Len(z) - 1
        PROVE  m[z[i]] = z[i+1]
    <3>1. CASE i = Len(s)
      BY <1>1, <2>1, <2>6, <3>1
    <3>2. CASE i # Len(s)
      BY <1>1, <2>1, <2>7, <3>2
    <3> QED
      BY <3>1, <3>2
  <2> QED
    BY <1>1, <2>3, <2>6, <2>8 DEF Holds
<1> QED
  BY <1>2, <1>3

(* A pop leaves the rest of the sequence.                                  *)
LEMMA PopHolds ==
    ASSUME NEW q \in Queue, NEW l \in Links, NEW s \in Seq(Task), s # <<>>,
           Holds(q, l, s), NoRepeat(s)
    PROVE  Holds(PopQueue(q, l), PopLink(q, l), Tail(s))
<1> DEFINE z == Tail(s)
           m == PopLink(q, l)
<1>1. Len(s) \in Nat \ {0} /\ s[1] \in Task /\ s[Len(s)] \in Task
  OBVIOUS
<1>2. z \in Seq(Task) /\ Len(z) = Len(s) - 1 /\ \A i \in 1 .. Len(z) : z[i] = s[i+1]
  OBVIOUS
<1>3. q = [head |-> s[1], tail |-> s[Len(s)]] /\ l[s[Len(s)]] = NULL
      /\ \A i \in 1 .. Len(s) - 1 : l[s[i]] = s[i+1]
  BY DEF Holds
<1>4. m = [l EXCEPT ![s[1]] = NULL]
  BY <1>3 DEF PopLink
<1>5. CASE Len(s) = 1
  <2>1. z = <<>>
    <3>1. Len(z) = 0
      BY <1>2, <1>5
    <3> HIDE DEF z
    <3> QED
      BY <1>2, <3>1
  <2>2. l[s[1]] = NULL
    BY <1>3, <1>5
  <2> QED
    BY <1>3, <2>1, <2>2 DEF Holds, PopQueue, EmptyQueue
<1>6. CASE Len(s) >= 2
  <2>1. l[s[1]] = s[2] /\ s[2] \in Task /\ s[2] # NULL
    <3>1. 1 \in 1 .. Len(s) - 1 /\ 2 \in 1 .. Len(s)
      BY <1>1, <1>6
    <3>2. l[s[1]] = s[1+1]
      BY <1>3, <3>1
    <3> QED
      BY <3>1, <3>2, NullAssumption
  <2>2. z # <<>> /\ z[1] = s[2] /\ z[Len(z)] = s[Len(s)]
    BY <1>1, <1>2, <1>6
  <2>3. PopQueue(q, l) = [head |-> z[1], tail |-> z[Len(z)]]
    BY <1>3, <2>1, <2>2 DEF PopQueue
  <2>4. ASSUME NEW i \in 1 .. Len(z)
        PROVE  m[z[i]] = l[z[i]]
    <3>1. z[i] = s[i+1] /\ i + 1 \in 1 .. Len(s) /\ i + 1 # 1
      BY <1>1, <1>2
    <3>2. z[i] # s[1]
      BY <1>1, <3>1 DEF NoRepeat
    <3> QED
      BY <1>1, <1>2, <1>4, <3>2 DEF Links
  <2>5. ASSUME NEW i \in 1 .. Len(z) - 1
        PROVE  m[z[i]] = z[i+1]
    <3>1. z[i] = s[i+1] /\ z[i+1] = s[i+2] /\ i + 1 \in 1 .. Len(s) - 1 /\ i \in 1 .. Len(z)
      BY <1>1, <1>2
    <3>2. l[s[i+1]] = s[i+2]
      BY <1>3, <3>1
    <3> QED
      BY <2>4, <3>1, <3>2
  <2>6. m[z[Len(z)]] = NULL
    <3>1. Len(z) \in 1 .. Len(z)
      BY <1>1, <1>2, <1>6
    <3> QED
      BY <1>3, <2>2, <2>4, <3>1
  <2> QED
    BY <2>2, <2>3, <2>5, <2>6 DEF Holds
<1>7. \A n \in Nat \ {0} : n = 1 \/ n >= 2
  OBVIOUS
<1> QED
  BY <1>1, <1>5, <1>6, <1>7

-----------------------------------------------------------------------------
(* The walk of a queue meets the tasks of its sequence and no others.      *)
Members(s) == {s[i] : i \in 1 .. Len(s)}

(* A set of naturals has a least element. *)
LEMMA LeastNat ==
    ASSUME NEW T, T \subseteq Nat, T # {}
    PROVE  \E m \in T : \A n \in T : m <= n
<1>1. PICK m \in T : \A n \in T : ~(<<n, m>> \in OpToRel(<, Nat))
  BY NatLessThanWellFounded, WFMin
<1>2. \A n \in T : ~(n < m)
  BY <1>1 DEF OpToRel
<1> QED
  BY <1>2

(* One step of the walk. *)
Onward(l, S) == S \union ({l[t] : t \in S} \ {NULL})

Walk(q, l, r) ==
    r = [n \in 0 .. Cardinality(Task) |->
           IF n = 0 THEN {q.head} \ {NULL} ELSE Onward(l, r[n-1])]

LEMMA WalkUnique ==
    ASSUME IsFiniteSet(Task), NEW q, NEW l, NEW r, Walk(q, l, r)
    PROVE  Queued(q, l) = r[Cardinality(Task)]
<1> DEFINE C == Cardinality(Task)
<1>0. C \in Nat
  BY FS_CardinalityType
<1>1. ASSUME NEW a, NEW b, Walk(q, l, a), Walk(q, l, b)
      PROVE  a[C] = b[C]
  <2> DEFINE D == {n \in 0 .. C : a[n] # b[n]}
  <2>1. SUFFICES ASSUME D # {} PROVE FALSE
    BY <1>0
  <2>2. D \subseteq Nat
    OBVIOUS
  <2>3. PICK m \in D : \A n \in D : m <= n
    <3> HIDE DEF D
    <3> QED
      BY <2>1, <2>2, LeastNat
  <2>4. CASE m = 0
    BY <1>0, <1>1, <2>3, <2>4 DEF Walk
  <2>5. CASE m # 0
    <3>1. m \in 0 .. C /\ m - 1 \in 0 .. C /\ a[m-1] = b[m-1]
      BY <1>0, <2>3, <2>5
    <3> HIDE DEF D, C
    <3>2. a[m] = Onward(l, a[m-1])
      BY <1>1, <2>5, <3>1 DEF Walk, C
    <3>3. b[m] = Onward(l, b[m-1])
      BY <1>1, <2>5, <3>1 DEF Walk, C
    <3>4. a[m] # b[m]
      BY <2>3 DEF D
    <3> QED
      BY <3>1, <3>2, <3>3, <3>4
  <2> QED
    BY <2>4, <2>5
<1>2. PICK a : Walk(q, l, a) /\ Queued(q, l) = a[C]
  <2> DEFINE a == CHOOSE a : Walk(q, l, a)
  <2>1. Walk(q, l, a)
    OBVIOUS
  <2>2. Queued(q, l) = a[C]
    BY DEF Queued, Walk, Onward
  <2> QED
    BY <2>1, <2>2
<1> QED
  BY <1>1, <1>2

(* A sequence without repetition is no longer than there are tasks. *)
LEMMA ShortList ==
    ASSUME IsFiniteSet(Task), NEW s \in Seq(Task), NoRepeat(s)
    PROVE  Len(s) <= Cardinality(Task)
<1>1. Len(s) \in Nat /\ s \in [1 .. Len(s) -> Task]
  OBVIOUS
<1>2. s \in Injection(1 .. Len(s), Task)
  BY <1>1 DEF NoRepeat, Injection, IsInjective
<1>3. Cardinality(1 .. Len(s)) <= Cardinality(Task)
  BY <1>2, FS_Injection
<1>4. Cardinality(1 .. Len(s)) = IF 1 > Len(s) THEN 0 ELSE Len(s) - 1 + 1
  BY <1>1, FS_Interval
<1>5. Cardinality(Task) \in Nat
  BY FS_CardinalityType
<1> QED
  BY <1>1, <1>3, <1>4, <1>5

LEMMA QueuedMembers ==
    ASSUME IsFiniteSet(Task), NEW q \in Queue, NEW l \in Links, NEW s \in Seq(Task),
           Holds(q, l, s), NoRepeat(s)
    PROVE  Queued(q, l) = Members(s)
<1> DEFINE C == Cardinality(Task)
           r == [n \in 0 .. C |-> {s[i] : i \in {j \in 1 .. Len(s) : j <= n + 1}}]
<1>1. C \in Nat /\ Len(s) \in Nat /\ Len(s) <= C
  BY ShortList, FS_CardinalityType
<1>2. \A i \in 1 .. Len(s) : s[i] \in Task /\ s[i] # NULL
  BY NullAssumption
<1>3. r[C] = Members(s)
  <2>1. {j \in 1 .. Len(s) : j <= C + 1} = 1 .. Len(s)
    BY <1>1
  <2> QED
    BY <1>1, <2>1 DEF Members
<1>4. r[0] = {q.head} \ {NULL}
  <2>1. CASE s = <<>>
    BY <1>1, <2>1 DEF Holds, EmptyQueue
  <2>2. CASE s # <<>>
    <3>1. {j \in 1 .. Len(s) : j <= 0 + 1} = {1} /\ q.head = s[1] /\ 1 \in 1 .. Len(s)
      BY <1>1, <2>2 DEF Holds
    <3> QED
      BY <1>1, <1>2, <3>1
  <2> QED
    BY <2>1, <2>2
<1>5. ASSUME NEW n \in 1 .. C PROVE r[n] = Onward(l, r[n-1])
  <2> DEFINE A == {j \in 1 .. Len(s) : j <= n}
             B == {j \in 1 .. Len(s) : j <= n + 1}
  <2>1. n \in 0 .. C /\ n - 1 \in 0 .. C /\ n - 1 + 1 = n
    BY <1>1
  <2>2. r[n] = {s[i] : i \in B} /\ r[n-1] = {s[i] : i \in A}
    BY <2>1
  <2>3. ASSUME NEW i \in B PROVE s[i] \in Onward(l, {s[j] : j \in A})
    <3>1. CASE i \in A
      BY <3>1 DEF Onward
    <3>2. CASE i \notin A
      <4>1. i - 1 \in 1 .. Len(s) - 1 /\ i - 1 \in A /\ s # <<>> /\ i - 1 + 1 = i
        BY <1>1, <3>2
      <4>2. l[s[i-1]] = s[i]
        BY <4>1 DEF Holds
      <4> QED
        BY <1>2, <4>1, <4>2 DEF Onward
    <3> QED
      BY <3>1, <3>2
  <2>4. ASSUME NEW i \in A, l[s[i]] # NULL PROVE \E k \in B : l[s[i]] = s[k]
    <3>1. s # <<>> /\ i \in 1 .. Len(s)
      BY <1>1
    <3>2. CASE i = Len(s)
      BY <2>4, <3>1, <3>2 DEF Holds
    <3>3. CASE i # Len(s)
      <4>1. i \in 1 .. Len(s) - 1 /\ i + 1 \in B
        BY <1>1, <3>1, <3>3
      <4> QED
        BY <3>1, <4>1 DEF Holds
    <3> QED
      BY <3>2, <3>3
  <2>5. A \subseteq B
    BY <1>1
  <2> HIDE DEF A, B, r
  <2> QED
    BY <2>2, <2>3, <2>4, <2>5 DEF Onward
<1>6. Walk(q, l, r)
  <2>1. r = [n \in 0 .. C |-> IF n = 0 THEN {q.head} \ {NULL} ELSE Onward(l, r[n-1])]
    <3>1. \A n \in 0 .. C : r[n] = IF n = 0 THEN {q.head} \ {NULL} ELSE Onward(l, r[n-1])
      <4> TAKE n \in 0 .. C
      <4>1. n = 0 \/ n \in 1 .. C
        BY <1>1
      <4> HIDE DEF r
      <4> QED
        BY <1>4, <1>5, <4>1
    <3> QED
      BY <3>1
  <2> QED
    BY <2>1 DEF Walk
<1> QED
  BY <1>3, <1>6, WalkUnique

-----------------------------------------------------------------------------
(* An intact queue: it represents some sequence without repetition.        *)
Chain(q, l) == \E s \in Seq(Task) : Holds(q, l, s) /\ NoRepeat(s)

LEMMA ChainEmpty ==
    ASSUME IsFiniteSet(Task), NEW l \in Links
    PROVE  Chain(EmptyQueue, l) /\ Queued(EmptyQueue, l) = {}
<1>1. <<>> \in Seq(Task) /\ Len(<<>>) = 0 /\ EmptyQueue \in Queue
  BY DEF EmptyQueue, Queue, Pointer
<1>2. Holds(EmptyQueue, l, <<>>) /\ NoRepeat(<<>>)
  BY <1>1 DEF Holds, NoRepeat
<1>3. Queued(EmptyQueue, l) = Members(<<>>)
  BY <1>1, <1>2, QueuedMembers
<1>4. Members(<<>>) = {}
  BY <1>1 DEF Members
<1>5. Chain(EmptyQueue, l)
  BY <1>1, <1>2 DEF Chain
<1> QED
  BY <1>3, <1>4, <1>5

LEMMA ChainHead ==
    ASSUME IsFiniteSet(Task), NEW q \in Queue, NEW l \in Links, Chain(q, l)
    PROVE  /\ Queued(q, l) \subseteq Task
           /\ q.head \in Queued(q, l) \/ (q.head = NULL /\ Queued(q, l) = {})
<1>1. PICK s \in Seq(Task) : Holds(q, l, s) /\ NoRepeat(s)
  BY DEF Chain
<1>2. Queued(q, l) = Members(s)
  BY <1>1, QueuedMembers
<1>3. Len(s) \in Nat /\ s \in [1 .. Len(s) -> Task] /\ (s # <<>> => 1 \in 1 .. Len(s))
  OBVIOUS
<1>4. Members(s) \subseteq Task
  BY <1>3 DEF Members
<1>5. s = <<>> => q.head = NULL /\ Members(s) = {}
  BY <1>1, <1>3 DEF Holds, EmptyQueue, Members
<1>6. s # <<>> => q.head \in Members(s)
  BY <1>1, <1>3 DEF Holds, Members
<1> QED
  BY <1>2, <1>4, <1>5, <1>6

(* enqueue of a task that is not on the queue.                             *)
LEMMA ChainPush ==
    ASSUME IsFiniteSet(Task), NEW q \in Queue, NEW l \in Links, Chain(q, l),
           NEW t \in Task, t \notin Queued(q, l)
    PROVE  /\ Chain(PushQueue(q, t), PushLink(q, l, t))
           /\ Queued(PushQueue(q, t), PushLink(q, l, t)) = Queued(q, l) \union {t}
<1>1. PICK s \in Seq(Task) : Holds(q, l, s) /\ NoRepeat(s)
  BY DEF Chain
<1>2. Queued(q, l) = Members(s)
  BY <1>1, QueuedMembers
<1>3. \A i \in 1 .. Len(s) : s[i] # t
  BY <1>2 DEF Members
<1> DEFINE z == Append(s, t)
<1>4. z \in Seq(Task) /\ Len(z) = Len(s) + 1 /\ Len(s) \in Nat /\ z[Len(s) + 1] = t
      /\ \A i \in 1 .. Len(s) : z[i] = s[i]
  OBVIOUS
<1> HIDE DEF z
<1>5. Holds(PushQueue(q, t), PushLink(q, l, t), z)
  BY <1>1, <1>3, PushHolds DEF z
<1>6. NoRepeat(z)
  <2>1. \A i \in 1 .. Len(z) : i \in 1 .. Len(s) \/ i = Len(s) + 1
    BY <1>4
  <2> QED
    BY <1>1, <1>3, <1>4, <2>1 DEF NoRepeat
<1>7. Members(z) = Members(s) \union {t}
  <2>1. 1 .. Len(z) = (1 .. Len(s)) \union {Len(s) + 1}
    BY <1>4
  <2> QED
    BY <1>4, <2>1 DEF Members
<1>8. PushQueue(q, t) \in Queue /\ PushLink(q, l, t) \in Links
  BY DEF PushQueue, PushLink, Queue, Links, Pointer
<1>9. Queued(PushQueue(q, t), PushLink(q, l, t)) = Members(z)
  BY <1>4, <1>5, <1>6, <1>8, QueuedMembers
<1> QED
  BY <1>2, <1>4, <1>5, <1>6, <1>7, <1>9 DEF Chain

(* pop of a queue that is not empty.                                       *)
LEMMA ChainPop ==
    ASSUME IsFiniteSet(Task), NEW q \in Queue, NEW l \in Links, Chain(q, l), q.head # NULL
    PROVE  /\ q.head \in Queued(q, l)
           /\ Chain(PopQueue(q, l), PopLink(q, l))
           /\ Queued(PopQueue(q, l), PopLink(q, l)) = Queued(q, l) \ {q.head}
<1>1. PICK s \in Seq(Task) : Holds(q, l, s) /\ NoRepeat(s)
  BY DEF Chain
<1>2. Queued(q, l) = Members(s)
  BY <1>1, QueuedMembers
<1>3. s # <<>> /\ q.head = s[1]
  BY <1>1 DEF Holds, EmptyQueue
<1> DEFINE z == Tail(s)
<1>4. /\ z \in Seq(Task) /\ Len(z) = Len(s) - 1 /\ Len(s) \in Nat /\ Len(s) >= 1
      /\ \A i \in 1 .. Len(z) : z[i] = s[i+1]
  BY <1>3
<1> HIDE DEF z
<1>5. Holds(PopQueue(q, l), PopLink(q, l), z)
  BY <1>1, <1>3, PopHolds DEF z
<1>6. \A i \in 1 .. Len(z) : i + 1 \in 1 .. Len(s) /\ i + 1 # 1
  BY <1>4
<1>7. NoRepeat(z)
  BY <1>1, <1>4, <1>6 DEF NoRepeat
<1>8. Members(z) = Members(s) \ {s[1]}
  <2>1. Members(z) \subseteq Members(s) \ {s[1]}
    <3>1. 1 \in 1 .. Len(s)
      BY <1>4
    <3> QED
      BY <1>1, <1>4, <1>6, <3>1 DEF Members, NoRepeat
  <2>2. ASSUME NEW i \in 1 .. Len(s), s[i] # s[1]
        PROVE  i - 1 \in 1 .. Len(z) /\ z[i-1] = s[i]
    BY <1>4, <2>2
  <2>3. Members(s) \ {s[1]} \subseteq Members(z)
    BY <2>2 DEF Members
  <2> QED
    BY <2>1, <2>3
<1>9. PopQueue(q, l) \in Queue /\ PopLink(q, l) \in Links
  <2>1. q.head \in Task
    BY DEF Queue, Pointer
  <2> QED
    BY <2>1 DEF PopQueue, PopLink, Queue, Links, Pointer
<1>10. Queued(PopQueue(q, l), PopLink(q, l)) = Members(z)
  BY <1>4, <1>5, <1>7, <1>9, QueuedMembers
<1>11. s[1] \in Members(s)
  BY <1>4 DEF Members
<1> QED
  BY <1>2, <1>3, <1>4, <1>5, <1>7, <1>8, <1>10, <1>11 DEF Chain
=============================================================================
