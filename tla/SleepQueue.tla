----------------------------- MODULE SleepQueue -----------------------------
(***************************************************************************)
(* sleep-queue.c: a binary min-heap of task pointers, ordered by the       *)
(* wake_tick of the tasks, in an array of fixed capacity.  One iteration   *)
(* of heapify_up or heapify_down is one step; the spinlock and the masked  *)
(* interrupts of every caller keep other operations out of the loops.      *)
(*                                                                         *)
(* The scheduler pushes a task only while it is not in the heap (OnePlace  *)
(* of Scheduler.tla) and never changes the wake_tick of a task in it.      *)
(***************************************************************************)
EXTENDS Integers, FiniteSets

CONSTANTS
    Task, NULL,
    MAX_SLEEP_TASKS,  \* capacity (128 in scheduler.c)
    WakeTicks         \* the values of wake_tick

ASSUME HeapAssumption ==
    NULL \notin Task /\ MAX_SLEEP_TASKS \in Nat \ {0} /\ WakeTicks \subseteq Nat

VARIABLES
    data,      \* the array
    size,      \* number of tasks in the heap
    wakeTick,  \* task_t.wake_tick
    result,    \* what the last pop returned
    pc,        \* "idle", or the loop that runs: "up", "down"
    idx        \* idx of that loop

vars == <<data, size, wakeTick, result, pc, idx>>

Index == 0 .. MAX_SLEEP_TASKS - 1
Wake(i) == wakeTick[data[i]]
Parent(i) == (i - 1) \div 2

(* The places that hold tasks: a push counts its task only at its end. *)
Used == {i \in Index : i < size \/ (pc = "up" /\ i = size)}
Asleep == {data[i] : i \in Used}

(* sleep_queue_init *)
Init ==
    /\ data = [i \in Index |-> NULL]
    /\ size = 0
    /\ wakeTick = [t \in Task |-> 0]
    /\ result = NULL
    /\ pc = "idle" /\ idx = 0

Swap(i, j) == data' = [data EXCEPT ![i] = data[j], ![j] = data[i]]

-----------------------------------------------------------------------------
(* A definition with a suffix _Bug... is a faulty variant of the one it    *)
(* precedes; no specification uses it.                                     *)
Push_BugFull(t, w) ==   \* the last place of the array is never used
    /\ pc = "idle" /\ t \notin Asleep
    /\ wakeTick' = [wakeTick EXCEPT ![t] = w]
    /\ IF size + 1 = MAX_SLEEP_TASKS
       THEN UNCHANGED <<data, pc, idx>>
       ELSE /\ data' = [data EXCEPT ![size] = t]
            /\ pc' = "up" /\ idx' = size
    /\ UNCHANGED <<size, result>>

(* sleep_queue_push, after scheduler_sleep has set the wake_tick. *)
Push(t, w) ==
    /\ pc = "idle" /\ t \notin Asleep
    /\ wakeTick' = [wakeTick EXCEPT ![t] = w]
    /\ IF size = MAX_SLEEP_TASKS
       THEN UNCHANGED <<data, pc, idx>>
       ELSE /\ data' = [data EXCEPT ![size] = t]
            /\ pc' = "up" /\ idx' = size
    /\ UNCHANGED <<size, result>>

(* heapify_up: the loop's two ways out. *)
UpEnds == idx # 0 => Wake(Parent(idx)) <= Wake(idx)

SiftUp ==
    /\ pc = "up" /\ ~UpEnds
    /\ Swap(Parent(idx), idx)
    /\ idx' = Parent(idx)
    /\ UNCHANGED <<size, wakeTick, result, pc>>

EndPush ==
    /\ pc = "up" /\ UpEnds
    /\ size' = size + 1
    /\ pc' = "idle"
    /\ UNCHANGED <<data, wakeTick, result, idx>>

(* sleep_queue_pop *)
Pop ==
    /\ pc = "idle"
    /\ IF size = 0
       THEN result' = NULL /\ UNCHANGED <<data, size, pc, idx>>
       ELSE /\ result' = data[0]
            /\ size' = size - 1
            /\ IF size - 1 > 0
               THEN /\ data' = [data EXCEPT ![0] = data[size - 1]]
                    /\ pc' = "down" /\ idx' = 0
               ELSE UNCHANGED <<data, pc, idx>>
    /\ UNCHANGED wakeTick

Smallest_BugRight ==   \* the right child is missed when it is the last task
    LET left == 2 * idx + 1
        right == 2 * idx + 2
        best == IF left < size /\ Wake(left) < Wake(idx) THEN left ELSE idx
    IN  IF right + 1 < size /\ Wake(right) < Wake(best) THEN right ELSE best

(* `smallest' of heapify_down: idx or a child of it inside the heap. *)
Smallest ==
    LET left == 2 * idx + 1
        right == 2 * idx + 2
        best == IF left < size /\ Wake(left) < Wake(idx) THEN left ELSE idx
    IN  IF right < size /\ Wake(right) < Wake(best) THEN right ELSE best

SiftDown ==
    /\ pc = "down" /\ Smallest # idx
    /\ Swap(idx, Smallest)
    /\ idx' = Smallest
    /\ UNCHANGED <<size, wakeTick, result, pc>>

EndPop ==
    /\ pc = "down" /\ Smallest = idx
    /\ pc' = "idle"
    /\ UNCHANGED <<data, size, wakeTick, result, idx>>

-----------------------------------------------------------------------------
Next ==
    \/ \E t \in Task, w \in WakeTicks : Push(t, w)
    \/ SiftUp \/ EndPush \/ Pop \/ SiftDown \/ EndPop

Spec == Init /\ [][Next]_vars

-----------------------------------------------------------------------------
(* Every variable stays in its type, and idx inside the array. *)
TypeOK ==
    /\ data \in [Index -> Task \union {NULL}]
    /\ size \in 0 .. MAX_SLEEP_TASKS
    /\ wakeTick \in [Task -> Nat]
    /\ result \in Task \union {NULL}
    /\ pc \in {"idle", "up", "down"}
    /\ idx \in Index
    /\ pc = "up" => size < MAX_SLEEP_TASKS /\ idx <= size
    /\ pc = "down" => idx < size

(* The places in use hold tasks, each a different one. *)
Distinct ==
    /\ \A i \in Used : data[i] \in Task
    /\ \A i, j \in Used : data[i] = data[j] => i = j

(* Heap order, with the one exception a running loop is there to repair:   *)
(* heapify_up between idx and its parent, heapify_down between idx and its *)
(* children.  The children of idx are never below the parent of idx.       *)
Excused(i) == (pc = "up" /\ i = idx) \/ (pc = "down" /\ Parent(i) = idx)
HeapOrder ==
    \A i \in Used \ {0} :
        /\ ~Excused(i) => Wake(Parent(i)) <= Wake(i)
        /\ pc # "idle" /\ Parent(i) = idx /\ idx # 0 => Wake(Parent(idx)) <= Wake(i)

(* sleep_queue_peek shows a task that no other task has to wake before:    *)
(* round_robin, which stops at the first task that is not due, misses none.*)
RootIsLeast == pc = "idle" => \A i \in Used : Wake(0) <= Wake(i)

(* The heap implements the set of sleepers the scheduler believes in. *)
Set == INSTANCE SleepSet WITH asleep <- Asleep
Implements == Set!Spec
=============================================================================
