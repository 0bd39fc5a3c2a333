----------------------------- MODULE TaskFifos ------------------------------
(***************************************************************************)
(* What the task queues promise: each is a first-in first-out queue of     *)
(* tasks, and a pop returns the oldest, or NULL when there is none.        *)
(***************************************************************************)
EXTENDS Naturals, Sequences

CONSTANTS Queues, Task, NULL

VARIABLES
    order,   \* for each queue, its tasks, oldest first
    result   \* what the last pop returned

Waiting == {t \in Task : \E q \in Queues : \E i \in DOMAIN order[q] : order[q][i] = t}

Init ==
    /\ order = [q \in Queues |-> <<>>]
    /\ result = NULL

Push(q, t) ==
    /\ t \notin Waiting
    /\ order' = [order EXCEPT ![q] = Append(@, t)]
    /\ UNCHANGED result

Pop(q) ==
    IF order[q] = <<>>
    THEN result' = NULL /\ UNCHANGED order
    ELSE /\ result' = Head(order[q])
         /\ order' = [order EXCEPT ![q] = Tail(@)]

Next == \E q \in Queues : Pop(q) \/ \E t \in Task : Push(q, t)

Spec == Init /\ [][Next]_<<order, result>>
=============================================================================
