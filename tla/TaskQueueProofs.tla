--------------------------- MODULE TaskQueueProofs --------------------------
(***************************************************************************)
(* The linked lists of task-queue.c implement FIFO queues, for any set of  *)
(* tasks and any set of queues.                                            *)
(***************************************************************************)
EXTENDS TaskQueue, TaskListProofs

-----------------------------------------------------------------------------
(* The inductive invariant.  Distinct is needed because the queues share   *)
(* the links: a push or a pop on one queue must not touch another.         *)
IInv == TypeOK /\ SizeCounts /\ Distinct /\ Represented

LEMMA IInvNoRepeat ==
    ASSUME TypeOK, Distinct, NEW q \in Queues
    PROVE  NoRepeat(order[q])
  BY DEF TypeOK, Distinct, NoRepeat

LEMMA Other ==
    ASSUME TypeOK, Distinct, NEW q \in Queues, NEW p \in Queues, p # q,
           NEW i \in 1 .. Len(order[p]), NEW j \in 1 .. Len(order[q])
    PROVE  order[p][i] # order[q][j]
  BY DEF TypeOK, Distinct

(* A queue that represents its sequence is empty when the sequence is.     *)
LEMMA HeadIsOldest ==
    ASSUME TypeOK, Represented, NEW q \in Queues
    PROVE  /\ order[q] = <<>> => queue[q].head = NULL /\ queue[q].tail = NULL
           /\ order[q] # <<>> => /\ Len(order[q]) \in Nat \ {0}
                                 /\ queue[q].head = Head(order[q])
                                 /\ queue[q].head \in Task
                                 /\ queue[q].tail = order[q][Len(order[q])]
                                 /\ queue[q].tail \in Task
<1>1. order[q] \in Seq(Task) /\ Holds(queue[q], link, order[q])
  BY DEF TypeOK, Represented
<1>2. CASE order[q] = <<>>
  BY <1>1, <1>2 DEF Holds, EmptyQueue
<1>3. CASE order[q] # <<>>
  <2>1. Len(order[q]) \in Nat \ {0} /\ order[q][1] = Head(order[q])
        /\ order[q][1] \in Task /\ order[q][Len(order[q])] \in Task
    BY <1>1, <1>3
  <2> QED
    BY <1>1, <1>3, <2>1 DEF Holds
<1> QED
  BY <1>2, <1>3

LEMMA PushKeeps ==
    ASSUME IInv, NEW q \in Queues, NEW t \in Task, Push(q, t)
    PROVE  IInv'
<1> USE DEF IInv
<1>1. order[q] \in Seq(Task) /\ queue[q] \in Queue /\ link \in Links /\ size[q] \in Nat
  BY DEF TypeOK
<1>2. /\ queue' = [queue EXCEPT ![q] = PushQueue(queue[q], t)]
      /\ link' = PushLink(queue[q], link, t)
      /\ size' = [size EXCEPT ![q] = size[q] + 1]
      /\ order' = [order EXCEPT ![q] = Append(order[q], t)]
      /\ result' = result
  BY DEF Push
<1>3. \A p \in Queues : \A i \in 1 .. Len(order[p]) : order[p][i] # t
  BY DEF Push, Waiting, TypeOK
<1>4. TypeOK'
  <2>1. PushQueue(queue[q], t) \in Queue
    BY <1>1 DEF PushQueue, Queue, Pointer
  <2>2. PushLink(queue[q], link, t) \in Links
    BY <1>1 DEF PushLink, Links, Pointer
  <2>3. Append(order[q], t) \in Seq(Task)
    BY <1>1
  <2>4. order' \in [Queues -> Seq(Task)] /\ queue' \in [Queues -> Queue] /\ size' \in [Queues -> Nat]
    BY <1>1, <1>2, <2>1, <2>3 DEF TypeOK
  <2> QED
    BY <1>2, <2>2, <2>4 DEF TypeOK
<1>5. order'[q] = Append(order[q], t) /\ \A p \in Queues \ {q} : order'[p] = order[p]
  BY <1>2 DEF TypeOK
<1>6. SizeCounts'
  BY <1>1, <1>2, <1>5 DEF SizeCounts, TypeOK
<1>7. Distinct'
  <2> SUFFICES ASSUME NEW p \in Queues, NEW r \in Queues,
                      NEW i \in 1 .. Len(order'[p]), NEW j \in 1 .. Len(order'[r]),
                      order'[p][i] = order'[r][j]
               PROVE  p = r /\ i = j
    BY <1>4 DEF Distinct
  <2>1. \A a \in Queues : \A k \in 1 .. Len(order'[a]) :
          \/ k \in 1 .. Len(order[a]) /\ order'[a][k] = order[a][k]
          \/ a = q /\ k = Len(order[q]) + 1 /\ order'[a][k] = t
    BY <1>1, <1>5
  <2>2. CASE i \in 1 .. Len(order[p]) /\ order'[p][i] = order[p][i]
    <3>1. j \in 1 .. Len(order[r]) /\ order'[r][j] = order[r][j]
      BY <1>3, <2>1, <2>2
    <3>2. order[p][i] = order[r][j]
      BY <2>2, <3>1
    <3>3. \A a, b \in Queues : \A k \in 1 .. Len(order[a]), m \in 1 .. Len(order[b]) :
            order[a][k] = order[b][m] => a = b /\ k = m
      BY DEF Distinct
    <3> QED
      BY <2>2, <3>1, <3>2, <3>3
  <2>3. CASE p = q /\ i = Len(order[q]) + 1 /\ order'[p][i] = t
    BY <1>3, <2>1, <2>3
  <2> QED
    BY <2>1, <2>2, <2>3
<1>8. Represented'
  <2> SUFFICES ASSUME NEW p \in Queues
               PROVE  Holds(queue'[p], link', order'[p])
    BY DEF Represented
  <2>1. CASE p = q
    <3>1. Holds(queue[q], link, order[q]) /\ NoRepeat(order[q])
      BY IInvNoRepeat DEF Represented
    <3>2. Holds(PushQueue(queue[q], t), PushLink(queue[q], link, t), Append(order[q], t))
      BY <1>1, <1>3, <3>1, PushHolds
    <3>3. queue'[q] = PushQueue(queue[q], t)
      BY <1>2 DEF TypeOK
    <3> QED
      BY <1>2, <1>5, <2>1, <3>2, <3>3
  <2>2. CASE p # q
    <3>1. queue'[p] = queue[p] /\ order'[p] = order[p] /\ queue[p] \in Queue
          /\ order[p] \in Seq(Task) /\ link' \in Links
      BY <1>2, <1>4, <1>5, <2>2 DEF TypeOK
    <3>2. Holds(queue[p], link, order[p])
      BY DEF Represented
    <3>3. ASSUME NEW i \in 1 .. Len(order[p])
          PROVE  link'[order[p][i]] = link[order[p][i]]
      <4>1. order[p][i] \in Task /\ order[p][i] # t
        BY <1>3, <3>1
      <4>2. order[p][i] # queue[q].tail
        <5>1. CASE order[q] = <<>>
          BY <4>1, <5>1, HeadIsOldest, NullAssumption
        <5>2. CASE order[q] # <<>>
          <6>1. Len(order[q]) \in 1 .. Len(order[q]) /\ queue[q].tail = order[q][Len(order[q])]
            BY <5>2, HeadIsOldest
          <6> QED
            BY <2>2, <6>1, Other
        <5> QED
          BY <5>1, <5>2
      <4> QED
        BY <1>1, <1>2, <4>1, <4>2 DEF PushLink, Links
    <3> QED
      BY <1>1, <3>1, <3>2, <3>3, FrameHolds
  <2> QED
    BY <2>1, <2>2
<1> QED
  BY <1>4, <1>6, <1>7, <1>8

LEMMA PopKeeps ==
    ASSUME IInv, NEW q \in Queues, Pop(q)
    PROVE  IInv'
<1> USE DEF IInv
<1>1. order[q] \in Seq(Task) /\ queue[q] \in Queue /\ link \in Links /\ size[q] \in Nat
  BY DEF TypeOK
<1>2. CASE queue[q].head = NULL
  <2>1. result' = NULL /\ UNCHANGED <<queue, size, link, order>>
    BY <1>2 DEF Pop
  <2> QED
    BY <2>1 DEF TypeOK, SizeCounts, Distinct, Represented, Pointer
<1>3. CASE queue[q].head # NULL
  <2> DEFINE h == queue[q].head
  <2>1. /\ result' = h
        /\ queue' = [queue EXCEPT ![q] = PopQueue(queue[q], link)]
        /\ link' = PopLink(queue[q], link)
        /\ size' = [size EXCEPT ![q] = size[q] - 1]
        /\ order' = [order EXCEPT ![q] = Tail(order[q])]
    BY <1>3 DEF Pop
  <2>2. order[q] # <<>> /\ h \in Task /\ h = order[q][1] /\ Len(order[q]) \in Nat \ {0}
    BY <1>1, <1>3, HeadIsOldest
  <2>3. Tail(order[q]) \in Seq(Task) /\ Len(Tail(order[q])) = Len(order[q]) - 1
        /\ \A i \in 1 .. Len(order[q]) - 1 : Tail(order[q])[i] = order[q][i+1]
    BY <1>1, <2>2
  <2>4. order'[q] = Tail(order[q]) /\ \A p \in Queues \ {q} : order'[p] = order[p]
    BY <2>1 DEF TypeOK
  <2>5. size[q] = Len(order[q])
    BY DEF SizeCounts
  <2>6. TypeOK'
    <3>1. link[h] \in Pointer /\ queue[q].tail \in Pointer
      BY <1>1, <2>2 DEF Links, Queue
    <3>2. PopQueue(queue[q], link) \in Queue
      BY <3>1 DEF PopQueue, Queue, Pointer
    <3>3. PopLink(queue[q], link) \in Links
      BY <1>1 DEF PopLink, Links, Pointer
    <3>4. size[q] - 1 \in Nat
      BY <2>2, <2>5
    <3>5. queue' \in [Queues -> Queue] /\ size' \in [Queues -> Nat]
          /\ order' \in [Queues -> Seq(Task)]
      BY <2>1, <2>3, <3>2, <3>4 DEF TypeOK
    <3> QED
      BY <2>1, <2>2, <3>3, <3>5 DEF TypeOK, Pointer
  <2>7. SizeCounts'
    BY <2>1, <2>3, <2>4, <2>5 DEF SizeCounts, TypeOK
  <2>8. Distinct'
    <3> SUFFICES ASSUME NEW p \in Queues, NEW r \in Queues,
                        NEW i \in 1 .. Len(order'[p]), NEW j \in 1 .. Len(order'[r]),
                        order'[p][i] = order'[r][j]
                 PROVE  p = r /\ i = j
      BY <2>6 DEF Distinct, TypeOK
    <3>1. \A a \in Queues \ {q} : \A k \in 1 .. Len(order'[a]) :
            k \in 1 .. Len(order[a]) /\ order'[a][k] = order[a][k]
      BY <2>4
    <3>2. \A k \in 1 .. Len(order'[q]) :
            k + 1 \in 1 .. Len(order[q]) /\ order'[q][k] = order[q][k+1]
      BY <2>2, <2>3, <2>4
    <3>4. \A a, b \in Queues : \A k \in 1 .. Len(order[a]), m \in 1 .. Len(order[b]) :
            order[a][k] = order[b][m] => a = b /\ k = m
      BY DEF Distinct
    <3>5. CASE p = q /\ r = q
      <4>1. i \in Nat /\ j \in Nat
        BY <2>6 DEF TypeOK
      <4>2. i + 1 \in 1 .. Len(order[q]) /\ j + 1 \in 1 .. Len(order[q])
            /\ order[q][i+1] = order[q][j+1]
        BY <3>2, <3>5
      <4>3. i + 1 = j + 1
        BY <3>4, <4>2
      <4> QED
        BY <3>5, <4>1, <4>3
    <3>6. CASE p = q /\ r # q
      BY <3>1, <3>2, <3>4, <3>6
    <3>7. CASE p # q /\ r = q
      BY <3>1, <3>2, <3>4, <3>7
    <3>8. CASE p # q /\ r # q
      BY <3>1, <3>4, <3>8
    <3> QED
      BY <3>5, <3>6, <3>7, <3>8
  <2>9. Represented'
    <3> SUFFICES ASSUME NEW p \in Queues
                 PROVE  Holds(queue'[p], link', order'[p])
      BY DEF Represented
    <3>1. CASE p = q
      <4>1. Holds(queue[q], link, order[q]) /\ NoRepeat(order[q])
        BY IInvNoRepeat DEF Represented
      <4>2. Holds(PopQueue(queue[q], link), PopLink(queue[q], link), Tail(order[q]))
        BY <1>1, <2>2, <4>1, PopHolds
      <4>3. queue'[q] = PopQueue(queue[q], link)
        BY <2>1 DEF TypeOK
      <4> QED
        BY <2>1, <2>4, <3>1, <4>2, <4>3
    <3>2. CASE p # q
      <4>1. queue'[p] = queue[p] /\ order'[p] = order[p] /\ queue[p] \in Queue
            /\ order[p] \in Seq(Task) /\ link' \in Links
        BY <2>1, <2>4, <2>6, <3>2 DEF TypeOK
      <4>2. Holds(queue[p], link, order[p])
        BY DEF Represented
      <4>3. ASSUME NEW i \in 1 .. Len(order[p])
            PROVE  link'[order[p][i]] = link[order[p][i]]
        <5>1. 1 \in 1 .. Len(order[q])
          BY <2>2
        <5>2. order[p][i] \in Task /\ order[p][i] # h
          BY <2>2, <3>2, <4>1, <5>1, Other
        <5> QED
          BY <1>1, <2>1, <5>2 DEF PopLink, Links
      <4> QED
        BY <1>1, <4>1, <4>2, <4>3, FrameHolds
    <3> QED
      BY <3>1, <3>2
  <2> QED
    BY <2>6, <2>7, <2>8, <2>9
<1> QED
  BY <1>2, <1>3

(* Every reachable state of the queues represents its sequences. *)
THEOREM Invariance == Spec => []IInv
<1>1. Init => IInv
  BY DEF Init, IInv, TypeOK, SizeCounts, Distinct, Represented, Holds, EmptyQueue, Queue,
         Pointer, Links
<1>2. IInv /\ [Next]_vars => IInv'
  <2> SUFFICES ASSUME IInv, [Next]_vars
               PROVE  IInv'
    OBVIOUS
  <2>1. ASSUME NEW q \in Queues, Pop(q)
        PROVE  IInv'
    BY <2>1, PopKeeps
  <2>2. ASSUME NEW q \in Queues, NEW t \in Task, Push(q, t)
        PROVE  IInv'
    BY <2>2, PushKeeps
  <2>3. CASE UNCHANGED vars
    BY <2>3 DEF vars, IInv, TypeOK, SizeCounts, Distinct, Represented
  <2> QED
    BY <2>1, <2>2, <2>3 DEF Next
<1> QED
  BY <1>1, <1>2, PTL DEF Spec

(* task_queue_t.size is the number of tasks on the queue, and the pointers *)
(* lead through exactly those tasks, in order.                             *)
THEOREM SizeIsLength == Spec => [](SizeCounts /\ Represented)
<1>1. IInv => SizeCounts /\ Represented
  BY DEF IInv
<1> QED
  BY <1>1, Invariance, PTL

(* task_queue_peek, which tests the size, shows the task that              *)
(* task_queue_pop, which tests the head, would return.                     *)
THEOREM PeekIsNext == Spec => []PeekShowsNext
<1>1. IInv => PeekShowsNext
  <2> SUFFICES ASSUME IInv, NEW q \in Queues
               PROVE  Peek(q) = IF order[q] = <<>> THEN NULL ELSE Head(order[q])
    BY DEF PeekShowsNext
  <2>1. order[q] \in Seq(Task) /\ size[q] = Len(order[q])
    BY DEF IInv, TypeOK, SizeCounts
  <2>2. size[q] = 0 <=> order[q] = <<>>
    BY <2>1
  <2> QED
    BY <2>2, HeadIsOldest DEF IInv, Peek
<1> QED
  BY <1>1, Invariance, PTL

(* The linked lists implement the abstract FIFO queues: every push and pop *)
(* of task-queue.c is a push or a pop of TaskFifos.                        *)
THEOREM Refinement == Spec => Implements
<1>1. Init => Fifo!Init
  BY DEF Init, Fifo!Init
<1>2. IInv /\ [Next]_vars => [Fifo!Next]_<<order, result>>
  <2> SUFFICES ASSUME IInv, [Next]_vars
               PROVE  [Fifo!Next]_<<order, result>>
    OBVIOUS
  <2>1. ASSUME NEW q \in Queues, Pop(q)
        PROVE  Fifo!Pop(q)
    BY <2>1, HeadIsOldest, NullAssumption DEF IInv, Pop, Fifo!Pop
  <2>2. ASSUME NEW q \in Queues, NEW t \in Task, Push(q, t)
        PROVE  Fifo!Push(q, t)
    BY <2>2 DEF Push, Waiting, Fifo!Push, Fifo!Waiting
  <2>3. CASE UNCHANGED vars
    BY <2>3 DEF vars
  <2> QED
    BY <2>1, <2>2, <2>3 DEF Next, Fifo!Next
<1> QED
  BY <1>1, <1>2, Invariance, PTL DEF Spec, Implements, Fifo!Spec
=============================================================================
