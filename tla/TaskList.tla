------------------------------ MODULE TaskList ------------------------------
(***************************************************************************)
(* The list operations of task-queue.c as operators.                       *)
(*                                                                         *)
(* A queue is a head and a tail pointer; the links are threaded through    *)
(* the tasks themselves (task_t.next), so one task has ONE link however    *)
(* many queues it is pushed on, and a push of a task that is already       *)
(* queued rewrites the list it is on.  The operators keep both facts: they *)
(* take the queue AND the link function and return the two new values.     *)
(* `size' is not here: the scheduler never reads the size of its ready     *)
(* queue.  TaskQueue.tla models it.                                        *)
(***************************************************************************)
EXTENDS Naturals, Sequences, FiniteSets

CONSTANTS Task, NULL

ASSUME NullAssumption == NULL \notin Task

Pointer == Task \union {NULL}
Queue == [head : Pointer, tail : Pointer]
Links == [Task -> Pointer]

EmptyQueue == [head |-> NULL, tail |-> NULL]

(* A definition with a suffix _Bug... is a faulty variant of the one it     *)
(* precedes; no specification uses it.                                     *)
PushQueue_BugTail(q, t) ==   \* tail is set for the first task only
    IF q.tail = NULL THEN [head |-> t, tail |-> t] ELSE q

(* task->next = NULL; if (tail) tail->next = task; else head = task;       *)
(* tail = task.  When task IS the tail it ends up linked to itself.        *)
PushQueue(q, t) == [head |-> IF q.tail = NULL THEN t ELSE q.head, tail |-> t]

PushLink_BugAppend(q, link, t) ==   \* the old tail is not linked to the task
    [link EXCEPT ![t] = NULL]

PushLink(q, link, t) ==
    IF q.tail = NULL
    THEN [link EXCEPT ![t] = NULL]
    ELSE [link EXCEPT ![t] = NULL, ![q.tail] = t]

PopQueue_BugHead(q, link) ==   \* head is not advanced
    [head |-> IF link[q.head] = NULL THEN NULL ELSE q.head,
     tail |-> IF link[q.head] = NULL THEN NULL ELSE q.tail]

(* What a pop leaves, for a queue whose head is not NULL. *)
PopQueue(q, link) ==
    [head |-> link[q.head],
     tail |-> IF link[q.head] = NULL THEN NULL ELSE q.tail]

PopLink(q, link) == [link EXCEPT ![q.head] = NULL]

(* The tasks a walk of the list from its head meets. *)
Queued(q, link) ==
    LET reach[n \in 0 .. Cardinality(Task)] ==
          IF n = 0
          THEN {q.head} \ {NULL}
          ELSE reach[n-1] \union ({link[t] : t \in reach[n-1]} \ {NULL})
    IN  reach[Cardinality(Task)]

(* The pointers of a queue represent the sequence s: head and tail are its *)
(* ends, every link leads to the next task, and the last link is NULL.     *)
Holds(q, link, s) ==
    IF s = <<>>
    THEN q = EmptyQueue
    ELSE /\ q = [head |-> s[1], tail |-> s[Len(s)]]
         /\ \A i \in 1 .. Len(s) - 1 : link[s[i]] = s[i+1]
         /\ link[s[Len(s)]] = NULL
=============================================================================
