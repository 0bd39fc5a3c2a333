----------------------------- MODULE TaskQueue ------------------------------
(***************************************************************************)
(* task-queue.c: several queues threaded through the one `next' field of   *)
(* the tasks, used by clients that push a task only while it is on no      *)
(* queue.  Under that discipline every queue is a FIFO (TaskFifos), its    *)
(* size counts its tasks, and a peek shows the task the next pop returns.  *)
(* Scheduler.tla uses the same operators without the discipline, because   *)
(* scheduler.c does not keep it.                                           *)
(*                                                                         *)
(* Each operation runs under the queue's spinlock, on the one CPU, with    *)
(* interrupts off in every caller: it is one step.                         *)
(***************************************************************************)
EXTENDS Naturals, Sequences, TaskList

CONSTANT Queues

VARIABLES
    queue,   \* head and tail of each queue
    size,    \* task_queue_t.size, a count below the number of tasks
    link,    \* task_t.next of every task
    result,  \* what the last pop returned
    order    \* history: the tasks of each queue, oldest first

vars == <<queue, size, link, result, order>>

Waiting == {t \in Task : \E q \in Queues : \E i \in DOMAIN order[q] : order[q][i] = t}

(* task_queue_init *)
Init ==
    /\ queue = [q \in Queues |-> EmptyQueue]
    /\ size = [q \in Queues |-> 0]
    /\ link = [t \in Task |-> NULL]
    /\ result = NULL
    /\ order = [q \in Queues |-> <<>>]

Push(q, t) ==
    /\ t \notin Waiting
    /\ queue' = [queue EXCEPT ![q] = PushQueue(@, t)]
    /\ link' = PushLink(queue[q], link, t)
    /\ size' = [size EXCEPT ![q] = @ + 1]
    /\ order' = [order EXCEPT ![q] = Append(@, t)]
    /\ UNCHANGED result

Pop(q) ==
    IF queue[q].head = NULL
    THEN result' = NULL /\ UNCHANGED <<queue, size, link, order>>
    ELSE /\ result' = queue[q].head
         /\ queue' = [queue EXCEPT ![q] = PopQueue(@, link)]
         /\ link' = PopLink(queue[q], link)
         /\ size' = [size EXCEPT ![q] = @ - 1]
         /\ order' = [order EXCEPT ![q] = Tail(@)]

(* task_queue_peek reads the size before the head, without the lock. *)
Peek(q) == IF size[q] = 0 THEN NULL ELSE queue[q].head

Next == \E q \in Queues : Pop(q) \/ \E t \in Task : Push(q, t)

Spec == Init /\ [][Next]_vars

-----------------------------------------------------------------------------
(* Every variable stays in its type. *)
TypeOK ==
    /\ queue \in [Queues -> Queue]
    /\ size \in [Queues -> Nat]
    /\ link \in Links
    /\ result \in Pointer
    /\ order \in [Queues -> Seq(Task)]

(* A peek shows what a pop would return, although it looks at the size and *)
(* a pop looks at the head.                                                *)
PeekShowsNext ==
    \A q \in Queues : Peek(q) = IF order[q] = <<>> THEN NULL ELSE Head(order[q])

(* The size of a queue is the number of its tasks. *)
SizeCounts == \A q \in Queues : size[q] = Len(order[q])

(* A task is on at most one queue, and at most once. *)
Distinct ==
    \A q, p \in Queues : \A i \in 1 .. Len(order[q]), j \in 1 .. Len(order[p]) :
        order[q][i] = order[p][j] => q = p /\ i = j

(* The pointers of every queue represent its sequence of tasks. *)
Represented == \A q \in Queues : Holds(queue[q], link, order[q])

(* The linked lists implement FIFO queues, step for step. *)
Fifo == INSTANCE TaskFifos
Implements == Fifo!Spec
=============================================================================
