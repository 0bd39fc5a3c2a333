----------------------------- MODULE SleepSet -------------------------------
(***************************************************************************)
(* What the sleep queue promises the scheduler: it holds at most           *)
(* MAX_SLEEP_TASKS tasks, drops a task that comes when it is full, and a   *)
(* pop returns one of the tasks with the least wake tick, or NULL.         *)
(***************************************************************************)
EXTENDS Integers, FiniteSets

CONSTANTS Task, NULL, MAX_SLEEP_TASKS, WakeTicks

VARIABLES
    asleep,    \* the tasks in the queue
    wakeTick,  \* task_t.wake_tick
    result     \* what the last pop returned

vars == <<asleep, wakeTick, result>>

Least == {t \in asleep : \A u \in asleep : wakeTick[t] <= wakeTick[u]}

Init ==
    /\ asleep = {}
    /\ wakeTick = [t \in Task |-> 0]
    /\ result = NULL

Push(t, w) ==
    /\ t \notin asleep
    /\ wakeTick' = [wakeTick EXCEPT ![t] = w]
    /\ asleep' = IF Cardinality(asleep) = MAX_SLEEP_TASKS THEN asleep ELSE asleep \union {t}
    /\ UNCHANGED result

Pop ==
    /\ IF asleep = {} THEN result' = NULL ELSE result' \in Least
    /\ asleep' = asleep \ {result'}
    /\ UNCHANGED wakeTick

Next == Pop \/ \E t \in Task, w \in WakeTicks : Push(t, w)

Spec == Init /\ [][Next]_vars
=============================================================================
