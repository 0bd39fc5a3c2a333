-------------------------- MODULE SleepQueueProofs --------------------------
(***************************************************************************)
(* The heap of sleep-queue.c is a correct queue of sleepers for any set of *)
(* tasks, any capacity and any wake ticks.                                 *)
(***************************************************************************)
EXTENDS SleepQueue, FiniteSetTheorems, WellFoundedInduction, TLAPS

(* The inductive invariant. *)
IInv == TypeOK /\ Distinct /\ HeapOrder

-----------------------------------------------------------------------------
(* Places of the array. *)

LEMMA ParentChild ==
    ASSUME NEW i \in Nat \ {0}
    PROVE  /\ Parent(i) \in Nat /\ Parent(i) < i
           /\ \A p \in Nat : Parent(i) = p <=> i = 2 * p + 1 \/ i = 2 * p + 2
  BY DEF Parent

LEMMA UsedPlaces ==
    ASSUME TypeOK
    PROVE  \A i : i \in Used <=> i \in Nat /\ (i < size \/ (pc = "up" /\ i = size))
  BY HeapAssumption DEF TypeOK, Used, Index

LEMMA UsedWake ==
    ASSUME TypeOK, Distinct, NEW i \in Used
    PROVE  i \in Index /\ i \in Nat /\ data[i] \in Task /\ Wake(i) \in Nat
  BY DEF TypeOK, Distinct, Used, Wake, Index

LEMMA UsedParent ==
    ASSUME TypeOK, NEW i \in Used \ {0}
    PROVE  Parent(i) \in Used /\ Parent(i) < i
  BY UsedPlaces, ParentChild DEF TypeOK

(* A set of naturals has a least element. *)
LEMMA LeastNat ==
    ASSUME NEW T, T \subseteq Nat, T # {}
    PROVE  \E m \in T : \A n \in T : m <= n
<1>1. PICK m \in T : \A n \in T : ~(<<n, m>> \in OpToRel(<, Nat))
  BY NatLessThanWellFounded, WFMin
<1>2. \A n \in T : ~(n < m)
  BY <1>1 DEF OpToRel
<1> QED
  BY <1>2

(* Heap order without exceptions makes the root a least task. *)
LEMMA Root ==
    ASSUME IInv, pc = "idle"
    PROVE  \A i \in Used : Wake(0) <= Wake(i)
<1> USE DEF IInv
<1> DEFINE Early == {i \in Used : ~(Wake(0) <= Wake(i))}
<1> SUFFICES Early = {}
  OBVIOUS
<1>1. SUFFICES ASSUME Early # {}
      PROVE  FALSE
  OBVIOUS
<1>2. Early \subseteq Nat
  BY UsedWake
<1>3. PICK m \in Early : \A n \in Early : m <= n
  <2> HIDE DEF Early
  <2> QED
    BY <1>1, <1>2, LeastNat
<1>4. 0 \in Used
  BY <1>3, UsedPlaces, UsedWake DEF TypeOK
<1>5. m # 0
  BY <1>3, <1>4, UsedWake
<1>6. m \in Used \ {0} /\ Parent(m) \in Used /\ Parent(m) < m
  BY <1>3, <1>5, UsedParent
<1>7. Wake(Parent(m)) <= Wake(m)
  BY <1>6 DEF HeapOrder, Excused
<1>8. Parent(m) \notin Early
  BY <1>3, <1>6, UsedWake
<1> QED
  BY <1>3, <1>4, <1>6, <1>7, <1>8, UsedWake

(* What heapify_down chooses. *)
LEMMA Choice ==
    ASSUME IInv, pc = "down"
    PROVE  /\ idx \in Used
           /\ \A d \in Used \ {0} : Parent(d) = idx => Wake(Smallest) <= Wake(d)
           /\ \/ Smallest = idx
              \/ /\ Smallest \in Used \ {0} /\ Parent(Smallest) = idx
                 /\ Wake(Smallest) < Wake(idx)
<1> USE DEF IInv
<1> DEFINE left == 2 * idx + 1
           right == 2 * idx + 2
           best == IF left < size /\ Wake(left) < Wake(idx) THEN left ELSE idx
<1>1. idx \in Nat /\ idx \in Used /\ Wake(idx) \in Nat /\ size \in Nat
  BY UsedPlaces, UsedWake DEF TypeOK, Index
<1>2. left \in Nat \ {0} /\ right \in Nat \ {0} /\ Parent(left) = idx /\ Parent(right) = idx
  BY <1>1, ParentChild
<1>3. \A d \in Used \ {0} : Parent(d) = idx => d = left \/ d = right
  BY <1>1, ParentChild, UsedWake
<1>4. /\ left < size => left \in Used /\ Wake(left) \in Nat
      /\ right < size => right \in Used /\ Wake(right) \in Nat
      /\ left \in Used => left < size
      /\ right \in Used => right < size
  BY <1>2, UsedPlaces, UsedWake
<1>5. Smallest = IF right < size /\ Wake(right) < Wake(best) THEN right ELSE best
  BY DEF Smallest
<1> HIDE DEF left, right
<1>6. /\ Wake(best) \in Nat /\ Wake(best) <= Wake(idx)
      /\ left < size => Wake(best) <= Wake(left)
      /\ best = idx \/ (best = left /\ left < size /\ Wake(left) < Wake(idx))
  BY <1>1, <1>4
<1> HIDE DEF best
<1>7. /\ Wake(Smallest) \in Nat /\ Wake(Smallest) <= Wake(best)
      /\ right < size => Wake(Smallest) <= Wake(right)
      /\ Smallest = best \/ (Smallest = right /\ right < size /\ Wake(right) < Wake(best))
  BY <1>4, <1>5, <1>6
<1>8. \A d \in Used \ {0} : Parent(d) = idx => Wake(Smallest) <= Wake(d)
  BY <1>3, <1>4, <1>6, <1>7
<1>9. \/ Smallest = idx
      \/ Smallest \in Used \ {0} /\ Parent(Smallest) = idx /\ Wake(Smallest) < Wake(idx)
  BY <1>1, <1>2, <1>4, <1>6, <1>7
<1> QED
  BY <1>1, <1>8, <1>9

-----------------------------------------------------------------------------
(* The operations keep the invariant. *)

LEMMA PushKeeps ==
    ASSUME IInv, NEW t \in Task, NEW w \in WakeTicks, Push(t, w)
    PROVE  /\ IInv'
           /\ Asleep' = IF size = MAX_SLEEP_TASKS THEN Asleep ELSE Asleep \union {t}
<1> USE DEF IInv
<1>1. /\ pc = "idle" /\ t \notin Asleep /\ wakeTick' = [wakeTick EXCEPT ![t] = w]
      /\ size' = size /\ result' = result
  BY DEF Push
<1>2. wakeTick' \in [Task -> Nat] /\ \A u \in Task \ {t} : wakeTick'[u] = wakeTick[u]
  BY <1>1, HeapAssumption DEF TypeOK
<1>3. \A i \in Used : data[i] # t
  BY <1>1 DEF Asleep
<1>4. CASE size = MAX_SLEEP_TASKS
  <2>1. data' = data /\ pc' = pc /\ idx' = idx
    BY <1>4 DEF Push
  <2>2. Used' = Used
    BY <1>1, <2>1 DEF Used
  <2>3. TypeOK'
    BY <1>1, <1>2, <2>1 DEF TypeOK
  <2>4. Distinct'
    BY <2>1, <2>2 DEF Distinct
  <2>5. \A i \in Used : Wake(i)' = Wake(i)
    BY <1>2, <1>3, <2>1, UsedWake DEF Wake
  <2>6. HeapOrder'
    <3> SUFFICES ASSUME NEW i \in Used \ {0}
                 PROVE  Wake(Parent(i))' <= Wake(i)'
      BY <1>1, <2>1, <2>2 DEF HeapOrder, Excused
    <3>1. Wake(Parent(i)) <= Wake(i)
      BY <1>1 DEF HeapOrder, Excused
    <3> QED
      BY <2>5, <3>1, UsedParent
  <2>7. Asleep' = Asleep
    BY <2>1, <2>2 DEF Asleep
  <2> QED
    BY <1>4, <2>3, <2>4, <2>6, <2>7
<1>5. CASE size # MAX_SLEEP_TASKS
  <2>1. data' = [data EXCEPT ![size] = t] /\ pc' = "up" /\ idx' = size
    BY <1>5 DEF Push
  <2>2. size \in Nat /\ size < MAX_SLEEP_TASKS /\ size \in Index
    BY <1>5, HeapAssumption DEF TypeOK, Index
  <2>3. Used' = Used \union {size} /\ size \notin Used
    BY <1>1, <2>1, <2>2 DEF Used, Index
  <2>4. TypeOK'
    BY <1>1, <1>2, <2>1, <2>2 DEF TypeOK
  <2>5. data'[size] = t /\ \A i \in Used : data'[i] = data[i]
    BY <2>1, <2>2, <2>3 DEF TypeOK, Used
  <2>6. Distinct'
    BY <1>3, <2>3, <2>5 DEF Distinct
  <2>7. \A i \in Used : Wake(i)' = Wake(i)
    BY <1>2, <1>3, <2>5, UsedWake DEF Wake
  <2>8. HeapOrder'
    <3> SUFFICES ASSUME NEW i \in Used' \ {0}
                 PROVE  /\ ~Excused(i)' => Wake(Parent(i))' <= Wake(i)'
                        /\ Parent(i) # idx'
      BY DEF HeapOrder
    <3>1. i \in Nat \ {0} /\ i <= size /\ Parent(i) < i
      BY <1>1, <2>2, <2>3, UsedPlaces, ParentChild
    <3>2. Parent(i) # idx'
      BY <2>1, <2>2, <3>1, ParentChild
    <3>3. CASE i = size
      BY <2>1, <3>2, <3>3 DEF Excused
    <3>4. CASE i # size
      <4>1. i \in Used \ {0}
        BY <2>3, <3>4
      <4>2. Wake(Parent(i)) <= Wake(i)
        BY <1>1, <4>1 DEF HeapOrder, Excused
      <4> QED
        BY <2>7, <3>2, <4>1, <4>2, UsedParent
    <3> QED
      BY <3>3, <3>4
  <2>9. Asleep' = Asleep \union {t}
    BY <2>3, <2>5 DEF Asleep
  <2> QED
    BY <1>5, <2>4, <2>6, <2>8, <2>9
<1> QED
  BY <1>4, <1>5

LEMMA EndPushKeeps ==
    ASSUME IInv, EndPush
    PROVE  IInv' /\ Asleep' = Asleep
<1> USE DEF IInv
<1>1. /\ pc = "up" /\ UpEnds /\ size' = size + 1 /\ pc' = "idle"
      /\ UNCHANGED <<data, wakeTick, result, idx>>
  BY DEF EndPush
<1>2. size \in Nat /\ size < MAX_SLEEP_TASKS /\ MAX_SLEEP_TASKS \in Nat
  BY <1>1, HeapAssumption DEF TypeOK
<1>3. TypeOK'
  BY <1>1, <1>2 DEF TypeOK
<1>4. Used' = Used
  BY <1>1, <1>2 DEF Used, Index
<1>5. Distinct' /\ Asleep' = Asleep
  BY <1>1, <1>4 DEF Distinct, Asleep
<1>6. HeapOrder'
  <2> SUFFICES ASSUME NEW i \in Used \ {0}
               PROVE  Wake(Parent(i)) <= Wake(i)
    BY <1>1, <1>4 DEF HeapOrder, Wake
  <2>1. CASE i = idx
    BY <1>1, <2>1 DEF UpEnds
  <2>2. CASE i # idx
    BY <1>1, <2>2 DEF HeapOrder, Excused
  <2> QED
    BY <2>1, <2>2
<1> QED
  BY <1>3, <1>5, <1>6

LEMMA PopKeeps ==
    ASSUME IInv, Pop
    PROVE  /\ IInv'
           /\ size = 0 => Asleep = {} /\ Asleep' = Asleep /\ result' = NULL
           /\ size # 0 => result' = data[0] /\ 0 \in Used /\ Asleep' = Asleep \ {data[0]}
<1> USE DEF IInv
<1>1. pc = "idle" /\ wakeTick' = wakeTick /\ size \in Nat /\ size <= MAX_SLEEP_TASKS
      /\ MAX_SLEEP_TASKS \in Nat
  BY HeapAssumption DEF Pop, TypeOK
<1>2. CASE size = 0
  <2>1. result' = NULL /\ UNCHANGED <<data, size, pc, idx, wakeTick>>
    BY <1>2 DEF Pop
  <2>2. Used = {} /\ Used' = {}
    BY <1>1, <1>2, <2>1, UsedPlaces DEF Used, Index
  <2>3. TypeOK'
    BY <2>1 DEF TypeOK
  <2>4. Distinct' /\ HeapOrder' /\ Asleep = {} /\ Asleep' = {}
    BY <2>2 DEF Distinct, HeapOrder, Asleep
  <2> QED
    BY <1>2, <2>1, <2>3, <2>4
<1>3. CASE size = 1
  <2>1. result' = data[0] /\ size' = 0 /\ UNCHANGED <<data, pc, idx, wakeTick>>
    BY <1>3 DEF Pop
  <2>2. Used = {0} /\ Used' = {}
    BY <1>1, <1>3, <2>1, UsedPlaces DEF Used, Index
  <2>3. data[0] \in Task
    BY <2>2 DEF Distinct
  <2>4. TypeOK'
    BY <1>1, <2>1, <2>3 DEF TypeOK
  <2>5. Distinct' /\ HeapOrder' /\ Asleep = {data[0]} /\ Asleep' = {}
    BY <2>2 DEF Distinct, HeapOrder, Asleep
  <2> QED
    BY <1>3, <2>1, <2>2, <2>4, <2>5
<1>4. CASE size > 1
  <2> DEFINE last == size - 1
  <2>1. /\ result' = data[0] /\ size' = last /\ pc' = "down" /\ idx' = 0
        /\ data' = [data EXCEPT ![0] = data[last]] /\ wakeTick' = wakeTick
    BY <1>1, <1>4 DEF Pop
  <2>2. last \in Used /\ 0 \in Used /\ last # 0 /\ last \in Nat
    BY <1>1, <1>4, UsedPlaces
  <2>3. Used' = Used \ {last}
    BY <1>1, <1>4, <2>1 DEF Used, Index
  <2>4. data[0] \in Task /\ data[last] \in Task /\ data[0] # data[last]
    BY <2>2 DEF Distinct
  <2>5. TypeOK'
    BY <1>1, <1>4, <2>1, <2>2, <2>4 DEF TypeOK, Index
  <2>6. data'[0] = data[last] /\ \A i \in Used \ {0} : data'[i] = data[i]
    BY <2>1, <2>2 DEF TypeOK, Used
  <2>7. Distinct'
    BY <2>2, <2>3, <2>6 DEF Distinct
  <2>8. HeapOrder'
    <3> SUFFICES ASSUME NEW i \in Used \ {0}, Parent(i) # 0
                 PROVE  Wake(Parent(i))' <= Wake(i)'
      BY <2>1, <2>3 DEF HeapOrder, Excused
    <3>1. Parent(i) \in Used
      BY UsedParent
    <3>2. Wake(Parent(i)) <= Wake(i)
      BY <1>1 DEF HeapOrder, Excused
    <3> QED
      BY <2>1, <2>6, <3>1, <3>2 DEF Wake
  <2>9. Asleep' = Asleep \ {data[0]}
    <3>1. \A i \in Used : data[i] = data[0] <=> i = 0
      BY <2>2 DEF Distinct
    <3>2. Asleep' \subseteq Asleep \ {data[0]}
      BY <2>2, <2>3, <2>4, <2>6, <3>1 DEF Asleep
    <3>3. Asleep \ {data[0]} \subseteq Asleep'
      <4> SUFFICES ASSUME NEW i \in Used, i # 0
                   PROVE  data[i] \in Asleep'
        BY DEF Asleep
      <4>1. CASE i = last
        BY <2>2, <2>3, <2>6, <4>1 DEF Asleep
      <4>2. CASE i # last
        BY <2>3, <2>6, <4>2 DEF Asleep
      <4> QED
        BY <4>1, <4>2
    <3> QED
      BY <3>2, <3>3
  <2> QED
    BY <1>4, <2>1, <2>2, <2>5, <2>7, <2>8, <2>9
<1> QED
  BY <1>1, <1>2, <1>3, <1>4

(* An exchange of two places in use keeps the tasks. *)
LEMMA SwapKeeps ==
    ASSUME IInv, NEW i \in Used, NEW j \in Used, i # j, Swap(i, j),
           UNCHANGED <<size, wakeTick, result, pc>>
    PROVE  /\ Used' = Used /\ Asleep' = Asleep /\ Distinct'
           /\ data' \in [Index -> Task \union {NULL}]
           /\ Wake(i)' = Wake(j) /\ Wake(j)' = Wake(i)
           /\ \A k \in Used \ {i, j} : Wake(k)' = Wake(k)
<1> USE DEF IInv
<1>1. Used' = Used
  BY DEF Used
<1>2. i \in Index /\ j \in Index /\ data[i] \in Task /\ data[j] \in Task
  BY UsedWake
<1>3. data' = [data EXCEPT ![i] = data[j], ![j] = data[i]]
  BY DEF Swap
<1>4. data' \in [Index -> Task \union {NULL}]
  BY <1>2, <1>3 DEF TypeOK
<1>5. data'[i] = data[j] /\ data'[j] = data[i]
      /\ \A k \in Used \ {i, j} : data'[k] = data[k]
  BY <1>2, <1>3 DEF TypeOK, Used
<1>6. Distinct'
  BY <1>1, <1>5 DEF Distinct
<1>7. Asleep' = Asleep
  BY <1>1, <1>5 DEF Asleep
<1> QED
  BY <1>1, <1>4, <1>5, <1>6, <1>7 DEF Wake

LEMMA SiftUpKeeps ==
    ASSUME IInv, SiftUp
    PROVE  IInv' /\ Asleep' = Asleep
<1> USE DEF IInv
<1>9. PICK k \in Nat : k = idx
  BY DEF TypeOK, Index
<1>10. PICK p : p = Parent(k)
  OBVIOUS
<1>1. /\ pc = "up" /\ k # 0 /\ ~(Wake(p) <= Wake(k)) /\ Swap(p, k) /\ idx' = p
      /\ UNCHANGED <<size, wakeTick, result, pc>>
  BY <1>9, <1>10 DEF SiftUp, UpEnds
<1>2. k \in Used \ {0}
  BY <1>1, <1>9, UsedPlaces DEF TypeOK
<1>3. p \in Used /\ p < k /\ p \in Nat
  BY <1>2, <1>10, UsedParent, ParentChild
<1>4. p # k
  BY <1>2, <1>3
<1>5. /\ Used' = Used /\ Asleep' = Asleep /\ Distinct'
      /\ data' \in [Index -> Task \union {NULL}]
      /\ Wake(p)' = Wake(k) /\ Wake(k)' = Wake(p)
      /\ \A i \in Used \ {p, k} : Wake(i)' = Wake(i)
  BY <1>1, <1>2, <1>3, <1>4, SwapKeeps
<1>6. TypeOK'
  <2>1. p \in Index /\ p <= size
    BY <1>1, <1>2, <1>3, UsedWake, UsedPlaces DEF TypeOK
  <2> QED
    BY <1>1, <1>5, <2>1 DEF TypeOK
<1>7. Wake(p) \in Nat /\ Wake(k) \in Nat /\ Wake(k) < Wake(p)
  BY <1>1, <1>2, <1>3, UsedWake
<1>8. HeapOrder'
  <2> SUFFICES ASSUME NEW i \in Used \ {0}
               PROVE  /\ i # p => Wake(Parent(i))' <= Wake(i)'
                      /\ Parent(i) = p /\ p # 0 => Wake(Parent(p))' <= Wake(i)'
    BY <1>1, <1>5 DEF HeapOrder, Excused
  <2>1. Parent(i) \in Used /\ Parent(i) < i /\ i \in Nat /\ Wake(i) \in Nat
        /\ Wake(Parent(i)) \in Nat
    BY UsedParent, UsedWake
  <2>2. i # k => Wake(Parent(i)) <= Wake(i)
    BY <1>1, <1>9 DEF HeapOrder, Excused
  <2>3. Parent(i) = k => Wake(p) <= Wake(i)
    BY <1>1, <1>9, <1>10 DEF HeapOrder
  <2>4. i # p => Wake(Parent(i))' <= Wake(i)'
    <3>1. CASE i = k
      BY <1>5, <1>7, <1>10, <3>1
    <3>2. CASE i # k /\ i # p /\ Parent(i) = k
      BY <1>5, <2>3, <3>2
    <3>3. CASE i # k /\ i # p /\ Parent(i) = p
      BY <1>5, <1>7, <2>1, <2>2, <3>3
    <3>4. CASE i # k /\ i # p /\ Parent(i) # k /\ Parent(i) # p
      BY <1>5, <2>1, <2>2, <3>4
    <3> QED
      BY <3>1, <3>2, <3>3, <3>4
  <2>5. ASSUME Parent(i) = p, p # 0
        PROVE  Wake(Parent(p))' <= Wake(i)'
    <3>1. p \in Used \ {0} /\ Parent(p) \in Used /\ Parent(p) < p
      BY <1>3, <2>5, UsedParent
    <3>2. Parent(p) \in Nat /\ Wake(Parent(p)) \in Nat
      BY <3>1, UsedWake
    <3>3. Parent(p) # p /\ Parent(p) # k
      BY <1>3, <1>2, <3>1, <3>2
    <3>4. Wake(Parent(p))' = Wake(Parent(p))
      BY <1>5, <3>1, <3>3
    <3>5. Wake(Parent(p)) <= Wake(p)
      BY <1>1, <1>4, <1>9, <3>1 DEF HeapOrder, Excused
    <3>6. CASE i = k
      BY <1>5, <3>4, <3>5, <3>6
    <3>7. CASE i # k
      <4>1. i # p
        BY <2>1, <2>5, <1>3
      <4>2. Wake(p) <= Wake(i)
        BY <2>2, <2>5, <3>7
      <4>3. Wake(i)' = Wake(i)
        BY <1>5, <3>7, <4>1
      <4> QED
        BY <1>7, <2>1, <3>2, <3>4, <3>5, <4>2, <4>3
    <3> QED
      BY <3>6, <3>7
  <2> QED
    BY <2>4, <2>5
<1> QED
  BY <1>5, <1>6, <1>8

LEMMA SiftDownKeeps ==
    ASSUME IInv, SiftDown
    PROVE  IInv' /\ Asleep' = Asleep
<1> USE DEF IInv
<1>7. PICK k : k = idx
  OBVIOUS
<1>8. PICK c : c = Smallest
  OBVIOUS
<1>1. /\ pc = "down" /\ c # k /\ Swap(k, c) /\ idx' = c
      /\ UNCHANGED <<size, wakeTick, result, pc>>
  BY <1>7, <1>8 DEF SiftDown
<1>2. /\ k \in Used /\ c \in Used \ {0} /\ Parent(c) = k /\ Wake(c) < Wake(k)
      /\ \A d \in Used \ {0} : Parent(d) = k => Wake(c) <= Wake(d)
  BY <1>1, <1>7, <1>8, Choice
<1>3. /\ Used' = Used /\ Asleep' = Asleep /\ Distinct'
      /\ data' \in [Index -> Task \union {NULL}]
      /\ Wake(k)' = Wake(c) /\ Wake(c)' = Wake(k)
      /\ \A i \in Used \ {k, c} : Wake(i)' = Wake(i)
  BY <1>1, <1>2, SwapKeeps
<1>4. c \in Nat /\ k \in Nat /\ k < c /\ Wake(c) \in Nat /\ Wake(k) \in Nat
  BY <1>2, UsedWake, UsedParent
<1>5. TypeOK'
  <2>1. c \in Index /\ c < size
    BY <1>1, <1>2, UsedWake, UsedPlaces
  <2> QED
    BY <1>1, <1>3, <2>1 DEF TypeOK
<1>6. HeapOrder'
  <2> SUFFICES ASSUME NEW i \in Used \ {0}
               PROVE  /\ Parent(i) # c => Wake(Parent(i))' <= Wake(i)'
                      /\ Parent(i) = c => Wake(Parent(c))' <= Wake(i)'
    BY <1>1, <1>3 DEF HeapOrder, Excused
  <2>1. Parent(i) \in Used /\ Parent(i) < i /\ i \in Nat /\ Parent(i) \in Nat
    BY UsedParent, UsedWake
  <2>2. Parent(i) # k => Wake(Parent(i)) <= Wake(i)
    BY <1>1, <1>7 DEF HeapOrder, Excused
  <2>3. ASSUME Parent(i) # c
        PROVE  Wake(Parent(i))' <= Wake(i)'
    <3>1. CASE i = c
      BY <1>2, <1>3, <1>4, <3>1
    <3>2. CASE i # c /\ Parent(i) = k
      <4>1. i # k
        BY <2>1, <3>2, <1>4
      <4> QED
        BY <1>2, <1>3, <3>2, <4>1
    <3>3. CASE i = k
      <4>1. k # 0 /\ Wake(Parent(k)) <= Wake(c)
        BY <1>1, <1>2, <1>7, <3>3 DEF HeapOrder
      <4>2. Parent(k) # k /\ Parent(k) # c
        BY <1>4, <2>1, <3>3
      <4> QED
        BY <1>3, <2>1, <3>3, <4>1, <4>2
    <3>4. CASE i # c /\ i # k /\ Parent(i) # k
      BY <1>3, <2>1, <2>2, <2>3, <3>4
    <3> QED
      BY <3>1, <3>2, <3>3, <3>4
  <2>4. ASSUME Parent(i) = c
        PROVE  Wake(Parent(c))' <= Wake(i)'
    <3>1. i # c /\ i # k
      BY <1>4, <2>1, <2>4
    <3>2. Wake(c) <= Wake(i)
      BY <1>4, <2>2, <2>4
    <3> QED
      BY <1>2, <1>3, <3>1, <3>2
  <2> QED
    BY <2>3, <2>4
<1> QED
  BY <1>3, <1>5, <1>6

LEMMA EndPopKeeps ==
    ASSUME IInv, EndPop
    PROVE  IInv' /\ Asleep' = Asleep
<1> USE DEF IInv
<1>1. /\ pc = "down" /\ Smallest = idx /\ pc' = "idle"
      /\ UNCHANGED <<data, size, wakeTick, result, idx>>
  BY DEF EndPop
<1>2. Used' = Used
  BY <1>1 DEF Used
<1>3. TypeOK' /\ Distinct' /\ Asleep' = Asleep
  BY <1>1, <1>2 DEF TypeOK, Distinct, Asleep
<1>4. HeapOrder'
  <2> SUFFICES ASSUME NEW i \in Used \ {0}
               PROVE  Wake(Parent(i)) <= Wake(i)
    BY <1>1, <1>2 DEF HeapOrder, Wake
  <2>1. CASE Parent(i) = idx
    BY <1>1, <2>1, Choice
  <2>2. CASE Parent(i) # idx
    BY <1>1, <2>2 DEF HeapOrder, Excused
  <2> QED
    BY <2>1, <2>2
<1> QED
  BY <1>3, <1>4

-----------------------------------------------------------------------------
(* The heap is well formed in every reachable state: its places hold       *)
(* different tasks, in heap order but for the place a loop is repairing.   *)
THEOREM Invariance == Spec => []IInv
<1>1. Init => IInv
  <2> SUFFICES ASSUME Init
               PROVE  IInv
    OBVIOUS
  <2>1. TypeOK
    BY HeapAssumption DEF Init, TypeOK, Index
  <2>2. Used = {}
    BY <2>1, UsedPlaces DEF Init
  <2> QED
    BY <2>1, <2>2 DEF IInv, Distinct, HeapOrder
<1>2. IInv /\ [Next]_vars => IInv'
  <2> SUFFICES ASSUME IInv, [Next]_vars
               PROVE  IInv'
    OBVIOUS
  <2>1. ASSUME NEW t \in Task, NEW w \in WakeTicks, Push(t, w)
        PROVE  IInv'
    BY <2>1, PushKeeps
  <2>2. CASE SiftUp
    BY <2>2, SiftUpKeeps
  <2>3. CASE EndPush
    BY <2>3, EndPushKeeps
  <2>4. CASE Pop
    BY <2>4, PopKeeps
  <2>5. CASE SiftDown
    BY <2>5, SiftDownKeeps
  <2>6. CASE EndPop
    BY <2>6, EndPopKeeps
  <2>7. CASE UNCHANGED vars
    BY <2>7 DEF vars, IInv, TypeOK, Distinct, HeapOrder, Excused, Used, Wake
  <2> QED
    BY <2>1, <2>2, <2>3, <2>4, <2>5, <2>6, <2>7 DEF Next
<1> QED
  BY <1>1, <1>2, PTL DEF Spec

(* The array is ordered like a heap, except where a running loop is about  *)
(* to repair it.                                                           *)
THEOREM HeapOrdered == Spec => []HeapOrder
<1>1. IInv => HeapOrder
  BY DEF IInv
<1> QED
  BY <1>1, Invariance, PTL

(* Between two operations the root of the heap, which sleep_queue_peek     *)
(* shows to round_robin, is a task that wakes first.                       *)
THEOREM PeekIsLeast == Spec => []RootIsLeast
<1>1. IInv => RootIsLeast
  BY Root DEF RootIsLeast
<1> QED
  BY <1>1, Invariance, PTL

(* The tasks in the heap are as many as its places in use. *)
LEMMA AsleepSize ==
    ASSUME IInv, pc = "idle"
    PROVE  IsFiniteSet(Asleep) /\ Cardinality(Asleep) = size
<1> USE DEF IInv
<1> DEFINE f == [i \in 1 .. size |-> data[i - 1]]
<1>1. size \in Nat
  BY DEF TypeOK
<1>2. \A i : i \in 1 .. size <=> i \in Int /\ i - 1 \in Used
  BY <1>1, UsedPlaces
<1>3. f \in Bijection(1 .. size, Asleep)
  <2>1. f \in [1 .. size -> Asleep]
    BY <1>2 DEF Asleep
  <2>2. \A i, j \in 1 .. size : f[i] = f[j] => i = j
    BY <1>2 DEF Distinct
  <2>3. \A t \in Asleep : \E i \in 1 .. size : f[i] = t
    <3> SUFFICES ASSUME NEW j \in Used
                 PROVE  \E i \in 1 .. size : f[i] = data[j]
      BY DEF Asleep
    <3>1. j + 1 \in 1 .. size /\ (j + 1) - 1 = j
      BY <1>1, UsedPlaces
    <3> QED
      BY <3>1
  <2> QED
    BY <2>1, <2>2, <2>3 DEF Bijection, Injection, Surjection, IsInjective
<1> QED
  BY <1>1, <1>3, FS_NatBijection, FS_CountingElements DEF ExistsBijection

(* The heap implements the set of sleepers that the scheduler relies on:   *)
(* no sleeper is lost but the one that finds the heap full, and each pop   *)
(* returns one that wakes first.                                           *)
THEOREM Refinement == Spec => Implements
<1>1. Init => Set!Init
  BY DEF Init, Set!Init, Asleep, Used, Index
<1>2. IInv /\ [Next]_vars => [Set!Next]_(Set!vars)
  <2> SUFFICES ASSUME IInv, [Next]_vars
               PROVE  Set!Next \/ UNCHANGED Set!vars
    OBVIOUS
  <2>1. ASSUME NEW t \in Task, NEW w \in WakeTicks, Push(t, w)
        PROVE  Set!Push(t, w)
    <3>1. pc = "idle" /\ t \notin Asleep /\ wakeTick' = [wakeTick EXCEPT ![t] = w]
          /\ UNCHANGED result
      BY <2>1 DEF Push
    <3>2. Set!Cardinality(Asleep) = size
      <4>1. Set!Cardinality(Asleep) = Cardinality(Asleep)
        BY DEF Set!Cardinality, Cardinality, Set!IsFiniteSet, IsFiniteSet
      <4> QED
        BY <3>1, <4>1, AsleepSize
    <3>3. Asleep' = IF size = MAX_SLEEP_TASKS THEN Asleep ELSE Asleep \union {t}
      BY <2>1, PushKeeps
    <3> QED
      BY <3>1, <3>2, <3>3 DEF Set!Push
  <2>2. ASSUME Pop
        PROVE  Set!Pop
    <3>1. pc = "idle" /\ UNCHANGED wakeTick
      BY <2>2 DEF Pop
    <3>2. CASE size = 0
      <4>1. Asleep = {} /\ Asleep' = {} /\ result' = NULL
        BY <2>2, <3>2, PopKeeps
      <4> QED
        BY <3>1, <4>1 DEF Set!Pop
    <3>3. CASE size # 0
      <4>1. result' = data[0] /\ 0 \in Used /\ Asleep' = Asleep \ {data[0]}
        BY <2>2, <3>3, PopKeeps
      <4>2. data[0] \in Asleep
        BY <4>1 DEF Asleep
      <4>3. \A u \in Asleep : wakeTick[data[0]] <= wakeTick[u]
        BY <3>1, Root DEF Asleep, Wake
      <4> QED
        BY <3>1, <4>1, <4>2, <4>3 DEF Set!Pop, Set!Least
    <3> QED
      BY <3>2, <3>3
  <2>3. ASSUME SiftUp \/ EndPush \/ SiftDown \/ EndPop
        PROVE  UNCHANGED Set!vars
    <3>1. Asleep' = Asleep
      BY <2>3, SiftUpKeeps, EndPushKeeps, SiftDownKeeps, EndPopKeeps
    <3>2. UNCHANGED <<wakeTick, result>>
      BY <2>3 DEF SiftUp, EndPush, SiftDown, EndPop
    <3> QED
      BY <3>1, <3>2 DEF Set!vars
  <2>4. CASE UNCHANGED vars
    BY <2>4 DEF vars, Set!vars, Asleep, Used
  <2> QED
    BY <2>1, <2>2, <2>3, <2>4 DEF Next, Set!Next
<1> QED
  BY <1>1, <1>2, Invariance, PTL DEF Spec, Implements, Set!Spec
=============================================================================
