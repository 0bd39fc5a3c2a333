-------------------------- MODULE SchedulerProofs ---------------------------
(***************************************************************************)
(* Proofs about Scheduler, for every number of tasks and threads, every    *)
(* capacity, every tick width and every workload, in three parts.          *)
(*                                                                         *)
(* The interrupt mask: the disable counter equals the increments that are  *)
(* outstanding, and interrupts are off wherever the queues are worked on.  *)
(* The counter is one global that every switch hands to another flow, so   *)
(* the type invariant needs the accounting (a decrement at zero would      *)
(* leave Nat) and the accounting needs the types: the two are proved       *)
(* together, with what the boot flow and the CPU are known to do.          *)
(*                                                                         *)
(* The flow: the one that executes is the one the kernel takes it for,     *)
(* whatever is created, sleeps, exits or is pushed twice.  The difficulty  *)
(* is the task that the first tick takes for the boot flow: its context    *)
(* holds the boot flow, and to resume it would run kernel_main again as    *)
(* that task.  The invariant says that no queue, link or variable of       *)
(* round_robin leads to it any more, intact lists or not.                  *)
(*                                                                         *)
(* The tasks: none is lost, or on two lists, and none that sleeps is       *)
(* dropped.  Here the lists must be intact, and they are only while no     *)
(* task is pushed that is on a list already: the sleeps must last two      *)
(* ticks, and the counter must not wrap.                                   *)
(***************************************************************************)
EXTENDS Scheduler, TaskListProofs

-----------------------------------------------------------------------------
(* The interrupt mask. *)

(* While kernel_main runs nothing else does. *)
BootAlone == pc[Boot] = "boot" => cpu = Boot /\ pos = "out"

(* A popped task is at hand to be dispatched. *)
NextAtHand == pos = "dispatch" => nxt \in Task

(* A task that executes its own code is known to the kernel as current. *)
CurrentSet == cpu \in Task /\ pos = "out" => current \in Task

(* The inductive invariant. *)
IInv ==
    /\ TypeOK
    /\ MaskedInside
    /\ MaskAccounting
    /\ BootAlone
    /\ NextAtHand
    /\ CurrentSet

-----------------------------------------------------------------------------
(* The list operators keep queues queues and links links. *)
LEMMA PushType ==
    ASSUME NEW q \in Queue, NEW l \in Links, NEW t \in Task
    PROVE  PushQueue(q, t) \in Queue /\ PushLink(q, l, t) \in Links
  BY DEF PushQueue, PushLink, Queue, Links, Pointer

LEMMA PopType ==
    ASSUME NEW q \in Queue, NEW l \in Links, q.head # NULL
    PROVE  /\ q.head \in Task
           /\ PopQueue(q, l) \in Queue /\ PopLink(q, l) \in Links
  BY DEF PopQueue, PopLink, Queue, Links, Pointer

LEMMA EmptyType == EmptyQueue \in Queue
  BY DEF EmptyQueue, Queue, Pointer

(* The uint32_t arithmetic of scheduler_sleep and of the tick counter. *)
LEMMA ModType ==
    ASSUME NEW n \in Int, NEW m \in Nat \ {0}
    PROVE  n % m \in Nat
  OBVIOUS

LEMMA SleepType ==
    ASSUME NEW ms \in SleepMs
    PROVE  TicksToSleep(ms) \in Nat
<1>1. ms \in Nat /\ Hz \in Nat /\ Word \in Nat \ {0}
  BY SchedulerAssumption
<1>2. ms * Hz \in Int
  BY <1>1
<1>3. (ms * Hz) % Word \in Nat
  BY <1>1, <1>2, ModType
<1> QED
  BY <1>3 DEF TicksToSleep

-----------------------------------------------------------------------------
(* Counting the flows between an increment and its cli. *)
LEMMA FlowFinite == IsFiniteSet(Flow)
  BY SchedulerAssumption, FS_AddElement DEF Flow

LEMMA MaskingFinite ==
    /\ IsFiniteSet(MaskingFlows)
    /\ Cardinality(MaskingFlows) \in Nat
  BY FlowFinite, FS_Subset, FS_CardinalityType DEF MaskingFlows

(* A flow that increments the counter joins them. *)
LEMMA MaskingJoin ==
    ASSUME TypeOK, NEW f \in Flow, NEW p \in Masking,
           pc[f] \notin Masking, pc' = [pc EXCEPT ![f] = p]
    PROVE  Cardinality(MaskingFlows') = Cardinality(MaskingFlows) + 1
<1>1. MaskingFlows' = MaskingFlows \union {f} /\ f \notin MaskingFlows
  BY DEF MaskingFlows, TypeOK
<1> QED
  BY <1>1, MaskingFinite, FS_AddElement

(* A flow that gets past its cli leaves them. *)
LEMMA MaskingLeave ==
    ASSUME TypeOK, NEW f \in Flow, NEW p,
           p \notin Masking, pc[f] \in Masking, pc' = [pc EXCEPT ![f] = p]
    PROVE  Cardinality(MaskingFlows') = Cardinality(MaskingFlows) - 1
<1>1. MaskingFlows' = MaskingFlows \ {f} /\ f \in MaskingFlows
  BY DEF MaskingFlows, TypeOK
<1> QED
  BY <1>1, MaskingFinite, FS_RemoveElement

(* Any other move of a flow leaves their number alone. *)
LEMMA MaskingSame ==
    ASSUME TypeOK, NEW f \in Flow, NEW p,
           p \notin Masking, pc[f] \notin Masking, pc' = [pc EXCEPT ![f] = p]
    PROVE  MaskingFlows' = MaskingFlows
  BY DEF MaskingFlows, TypeOK

-----------------------------------------------------------------------------
LEMMA InitIInv == Init => IInv
<1> SUFFICES ASSUME Init PROVE IInv
  OBVIOUS
<1>1. TypeOK
  <2>1. Boot \notin Task /\ BootOrder \in Seq(Programs)
    BY SchedulerAssumption DEF BootOrder, Programs
  <2>2. Len(BootOrder) \in Nat
    BY <2>1
  <2>3. /\ state \in [Task -> TaskState]
        /\ prog \in [Task -> Programs \union {"none"}]
        /\ wakeTick \in [Task -> Nat]
        /\ ctx \in [Task -> Flow]
    BY DEF Init, TaskState, Flow
  <2>4. link \in Links /\ ready \in Queue /\ zombie \in Queue /\ sleepers \subseteq Task
    BY EmptyType DEF Init, Links, Pointer
  <2>5. /\ pc \in [Flow -> Place]
        /\ via \in [Flow -> {"isr", "call", "syscall"}]
        /\ flags \in [Flow -> BOOLEAN]
        /\ tickArg \in [Flow -> Nat]
    BY DEF Init, Place
  <2>6. current \in Pointer /\ nxt \in Pointer /\ cpu \in Flow
    BY DEF Init, Pointer, Flow
  <2>7. /\ rrTick \in Nat /\ depth \in Nat /\ ticks \in Nat
        /\ pos \in {"out", "wake", "dispatch", "panic"}
        /\ intOn \in BOOLEAN
    BY DEF Init
  <2>8. started \in 0 .. Len(BootOrder)
    BY <2>2 DEF Init
  <2> QED
    BY <2>3, <2>4, <2>5, <2>6, <2>7, <2>8 DEF TypeOK
<1>2. MaskingFlows = {}
  BY DEF Init, MaskingFlows, Masking
<1>3. MaskAccounting
  BY <1>2, FS_EmptySet DEF Init, MaskAccounting, Flow
<1> QED
  BY <1>1, <1>3, SchedulerAssumption
  DEF Init, IInv, MaskedInside, BootAlone, NextAtHand, CurrentSet, Flow

(* What enqueueing a task as ready does to the types. *)
LEMMA EnqueueType ==
    ASSUME TypeOK, NEW t \in Task, EnqueueReady(t)
    PROVE  /\ state' \in [Task -> TaskState]
           /\ ready' \in Queue
           /\ link' \in Links
  BY PushType DEF TypeOK, EnqueueReady, TaskState

LEMMA QueueNewType ==
    ASSUME TypeOK, NEW t \in Task, NEW p \in Programs, QueueNewTask(t, p)
    PROVE  /\ state' \in [Task -> TaskState]
           /\ prog' \in [Task -> Programs \union {"none"}]
           /\ ready' \in Queue
           /\ link' \in Links
  BY PushType DEF TypeOK, QueueNewTask, TaskState

LEMMA CreateType ==
    ASSUME TypeOK, NEW p \in Programs, CreateKthread(p)
    PROVE  /\ state' \in [Task -> TaskState]
           /\ prog' \in [Task -> Programs \union {"none"}]
           /\ ready' \in Queue
           /\ link' \in Links
<1>1. CASE UNCHANGED <<state, prog, ready, link>>
  BY <1>1 DEF TypeOK
<1>2. ASSUME NEW t \in Task, QueueNewTask(t, p)
      PROVE  /\ state' \in [Task -> TaskState]
             /\ prog' \in [Task -> Programs \union {"none"}]
             /\ ready' \in Queue /\ link' \in Links
  BY <1>2, QueueNewType
<1>3. ASSUME NEW t \in Task, LeakNewTask(t)
      PROVE  /\ state' \in [Task -> TaskState]
             /\ prog' \in [Task -> Programs \union {"none"}]
             /\ ready' \in Queue /\ link' \in Links
  BY <1>3 DEF TypeOK, LeakNewTask, TaskState
<1> QED
  BY <1>1, <1>2, <1>3 DEF CreateKthread, FreeSlots

LEMMA PopNextType ==
    ASSUME NEW q \in Queue, NEW l \in Links, PopNext(q, l)
    PROVE  /\ nxt' \in Pointer
           /\ ready' \in Queue /\ link' \in Links
           /\ pos' \in {"panic", "dispatch"}
           /\ pos' = "dispatch" => nxt' \in Task
  BY PopType DEF PopNext, Queue, Pointer, Links

-----------------------------------------------------------------------------
(* One lemma per action: each keeps the inductive invariant. *)
LEMMA BootStartStep ==
    ASSUME IInv, BootStart
    PROVE  IInv'
<1> USE DEF IInv
<1>1. PICK t \in FreeSlots : QueueNewTask(t, BootOrder[started + 1])
  BY DEF BootStart
<1>2. BootOrder[started + 1] \in Programs /\ started + 1 \in 0 .. Len(BootOrder)
  <2>1. BootOrder \in Seq(Programs)
    BY SchedulerAssumption DEF BootOrder, Programs
  <2> QED
    BY <2>1 DEF BootStart, TypeOK
<1>3. TypeOK'
  <2>1. /\ state' \in [Task -> TaskState] /\ ready' \in Queue /\ link' \in Links
        /\ prog' \in [Task -> Programs \union {"none"}]
    BY <1>1, <1>2, QueueNewType DEF FreeSlots
  <2>2. started' \in 0 .. Len(BootOrder)
    BY <1>2 DEF BootStart
  <2>3. UNCHANGED <<wakeTick, ctx, zombie, sleepers, flowVars, rrVars, maskVars>>
    BY DEF BootStart
  <2> QED
    BY <2>1, <2>2, <2>3 DEF TypeOK, flowVars, rrVars, maskVars
<1>4. MaskingFlows' = MaskingFlows
  BY DEF BootStart, flowVars, MaskingFlows
<1> QED
  BY <1>3, <1>4
  DEF BootStart, flowVars, rrVars, maskVars, MaskAccounting, MaskedInside, BootAlone,
      NextAtHand, CurrentSet

LEMMA BootEnableStep ==
    ASSUME IInv, BootEnable
    PROVE  IInv'
<1> USE DEF IInv
<1>1. /\ pos = "out" /\ pos' = "out" /\ cpu = Boot /\ cpu' = Boot
      /\ pc[Boot] = "boot" /\ pc' = [pc EXCEPT ![Boot] = "run"]
      /\ depth' = depth - 1
  BY DEF BootEnable, BootAlone, rrVars
<1>2. MaskingFlows' = MaskingFlows
  BY <1>1, MaskingSame DEF Masking, Flow
<1>3. MaskAccounting'
  BY <1>1, <1>2, MaskingFinite DEF MaskAccounting, TypeOK, Flow
<1>4. depth' \in Nat
  BY <1>1, <1>2, <1>3, MaskingFinite DEF MaskAccounting
<1>5. TypeOK'
  BY <1>1, <1>4 DEF TypeOK, BootEnable, Place, AfterEnable, taskVars, queueVars, rrVars
<1> QED
  BY <1>1, <1>3, <1>5, SchedulerAssumption
  DEF MaskedInside, BootAlone, NextAtHand, CurrentSet, TypeOK, Flow

LEMMA TickStep ==
    ASSUME IInv, Tick
    PROVE  IInv'
<1> USE DEF IInv
<1>1. pos = "out" /\ pc[Boot] # "boot"
  BY DEF Tick, MaskedInside
<1>2. pos' = "wake" /\ intOn' = FALSE /\ depth' = depth + 1 /\ pc' = pc
  BY DEF Tick, EnterMasked
<1>3. current' \in Pointer /\ ready' \in Queue /\ link' \in Links
  BY PopType DEF Tick, TypeOK, Queue
<1>4. ticks' \in Nat
  BY ModType, SchedulerAssumption DEF Tick, TypeOK
<1>5. /\ ctx' \in [Task -> Flow] /\ rrTick' \in Nat
      /\ via' \in [Flow -> {"isr", "call", "syscall"}]
  BY <1>4 DEF Tick, EnterMasked, TypeOK
<1>6. TypeOK'
  <2>1. UNCHANGED <<state, prog, wakeTick, zombie, sleepers, cpu, pc, flags, tickArg, nxt,
                    started>>
    BY DEF Tick
  <2>2. depth' \in Nat
    BY <1>2 DEF TypeOK
  <2>3. intOn' \in BOOLEAN /\ pos' \in {"out", "wake", "dispatch", "panic"}
    BY <1>2
  <2> QED
    BY <2>1, <2>2, <2>3, <1>3, <1>4, <1>5 DEF TypeOK
<1>7. MaskingFlows' = MaskingFlows
  BY <1>2 DEF MaskingFlows
<1>8. MaskAccounting'
  BY <1>1, <1>2, <1>7, MaskingFinite DEF MaskAccounting
<1> QED
  BY <1>1, <1>2, <1>6, <1>8 DEF MaskedInside, BootAlone, NextAtHand, CurrentSet

LEMMA WakeSleeperStep ==
    ASSUME IInv, WakeSleeper
    PROVE  IInv'
<1> USE DEF IInv
<1>1. PICK t \in Due : EnqueueReady(t) /\ sleepers' = sleepers \ {t}
  BY DEF WakeSleeper
<1>2. t \in Task
  BY DEF Due, NextSleepers, TypeOK
<1>3. TypeOK'
  BY <1>1, <1>2, EnqueueType
  DEF TypeOK, WakeSleeper, flowVars, rrVars, maskVars
<1>4. MaskingFlows' = MaskingFlows
  BY DEF WakeSleeper, flowVars, MaskingFlows
<1> QED
  BY <1>3, <1>4
  DEF WakeSleeper, flowVars, rrVars, maskVars, MaskAccounting, MaskedInside, BootAlone,
      NextAtHand, CurrentSet

LEMMA PutBackAndPopStep ==
    ASSUME IInv, PutBackAndPop
    PROVE  IInv'
<1> USE DEF IInv
<1>1. /\ current' \in Pointer /\ nxt' \in Pointer
      /\ ready' \in Queue /\ link' \in Links
      /\ pos' \in {"panic", "dispatch"}
      /\ pos' = "dispatch" => nxt' \in Task
  <2>1. CASE current # NULL /\ state[current] = "RUNNING"
    <3>1. current \in Task
      BY <2>1 DEF TypeOK, Pointer
    <3>2. PushQueue(ready, current) \in Queue /\ PushLink(ready, link, current) \in Links
      BY <3>1, PushType DEF TypeOK
    <3> QED
      BY <2>1, <3>2, PopNextType DEF PutBackAndPop, Pointer
  <2>2. CASE ~(current # NULL /\ state[current] = "RUNNING")
    BY <2>2, PopNextType DEF PutBackAndPop, TypeOK
  <2> QED
    BY <2>1, <2>2
<1>2. TypeOK'
  BY <1>1 DEF TypeOK, PutBackAndPop, flowVars, maskVars
<1>3. MaskingFlows' = MaskingFlows
  BY DEF PutBackAndPop, flowVars, MaskingFlows
<1> QED
  BY <1>1, <1>2, <1>3
  DEF PutBackAndPop, flowVars, maskVars, MaskAccounting, MaskedInside, BootAlone,
      NextAtHand, CurrentSet

LEMMA StartTaskStep ==
    ASSUME IInv, Dispatch, StartTask
    PROVE  IInv'
<1> USE DEF IInv
<1>1. /\ pos = "dispatch" /\ pos' = "out" /\ nxt \in Task /\ cpu' = nxt /\ current' = nxt
      /\ pc' = pc /\ depth' = depth - 1 /\ pc[Boot] # "boot" /\ nxt' = NULL
  BY DEF Dispatch, StartTask, NextAtHand, BootAlone
<1>2. MaskingFlows' = MaskingFlows
  BY <1>1 DEF MaskingFlows
<1>3. MaskAccounting' /\ depth' \in Nat
  BY <1>1, <1>2, MaskingFinite DEF MaskAccounting, TypeOK
<1>4. state' \in [Task -> TaskState] /\ intOn' \in BOOLEAN /\ rrTick' \in Nat
  BY DEF StartTask, TypeOK, TaskState
<1>5. cpu' \in Flow /\ current' \in Pointer /\ nxt' \in Pointer
  BY <1>1 DEF Flow, Pointer
<1>6. TypeOK'
  BY <1>1, <1>3, <1>4, <1>5 DEF TypeOK, Dispatch, StartTask
<1> QED
  BY <1>1, <1>3, <1>6 DEF MaskedInside, BootAlone, NextAtHand, CurrentSet

LEMMA ResumeTaskStep ==
    ASSUME IInv, Dispatch, ResumeTask
    PROVE  IInv'
<1> USE DEF IInv
<1>1. /\ pos = "dispatch" /\ pos' \in {"out", "panic"} /\ nxt \in Task
      /\ cpu' = ctx[nxt] /\ current' = nxt
      /\ pc' = pc /\ depth' = depth - 1 /\ pc[Boot] # "boot" /\ nxt' = NULL
  BY DEF Dispatch, ResumeTask, NextAtHand, BootAlone
<1>2. MaskingFlows' = MaskingFlows
  BY <1>1 DEF MaskingFlows
<1>3. MaskAccounting' /\ depth' \in Nat
  BY <1>1, <1>2, MaskingFinite DEF MaskAccounting, TypeOK
<1>4. cpu' \in Flow /\ current' \in Pointer /\ nxt' \in Pointer
  BY <1>1 DEF Flow, Pointer, TypeOK
<1>5. intOn' \in BOOLEAN /\ rrTick' \in Nat
  BY <1>4 DEF ResumeTask, ReturnIF, AfterEnable, TypeOK
<1>6. TypeOK'
  BY <1>1, <1>3, <1>4, <1>5 DEF TypeOK, Dispatch, ResumeTask
<1>7. pos' = "panic" => ~intOn'
  BY DEF ResumeTask
<1> QED
  BY <1>1, <1>3, <1>6, <1>7 DEF MaskedInside, BootAlone, NextAtHand, CurrentSet

LEMMA DivertTaskStep ==
    ASSUME IInv, Dispatch, DivertTask
    PROVE  IInv'
<1> USE DEF IInv
<1>1. nxt \in Task /\ pos = "dispatch"
  BY DEF Dispatch, NextAtHand
<1>2. /\ state' \in [Task -> TaskState] /\ zombie' \in Queue /\ sleepers' \subseteq Task
      /\ ready' \in Queue /\ link' \in Links /\ nxt' \in Pointer
      /\ pos' \in {"panic", "dispatch"}
      /\ pos' = "dispatch" => nxt' \in Task
  <2>1. CASE state[nxt] = "ZOMBIE"
    <3>1. zombie' = PushQueue(zombie, nxt) /\ UNCHANGED <<state, sleepers>>
          /\ PopNext(ready, PushLink(zombie, link, nxt))
      BY <2>1 DEF DivertTask
    <3> QED
      BY <1>1, <3>1, PushType, PopNextType DEF TypeOK
  <2>2. CASE state[nxt] = "SLEEPING"
    <3>1. PushSleeper(nxt) /\ UNCHANGED <<state, zombie>> /\ PopNext(ready, link)
      BY <2>2 DEF DivertTask
    <3> QED
      BY <1>1, <3>1, PopNextType DEF TypeOK, PushSleeper
  <2>3. CASE state[nxt] \notin {"ZOMBIE", "SLEEPING"}
    <3>1. /\ state' = [state EXCEPT ![nxt] = "RUNNING"] /\ UNCHANGED <<zombie, sleepers>>
          /\ PopNext(PushQueue(ready, nxt), PushLink(ready, link, nxt))
      BY <2>3 DEF DivertTask
    <3> QED
      BY <1>1, <3>1, PushType, PopNextType DEF TypeOK, TaskState
  <2> QED
    BY <2>1, <2>2, <2>3
<1>3. /\ UNCHANGED <<cpu, current, depth, intOn, rrTick, pc>>
      /\ UNCHANGED <<prog, wakeTick, ctx, via, flags, tickArg, ticks, started>>
  BY DEF DivertTask, Dispatch
<1>4. TypeOK'
  BY <1>2, <1>3 DEF TypeOK
<1>5. MaskingFlows' = MaskingFlows
  BY <1>3 DEF MaskingFlows
<1> QED
  BY <1>1, <1>2, <1>3, <1>4, <1>5
  DEF MaskAccounting, MaskedInside, BootAlone, NextAtHand, CurrentSet

LEMMA DispatchStep ==
    ASSUME IInv, Dispatch
    PROVE  IInv'
<1>1. StartTask \/ ResumeTask \/ DivertTask
  BY DEF Dispatch
<1> QED
  BY <1>1, StartTaskStep, ResumeTaskStep, DivertTaskStep

LEMMA IdleYieldStep ==
    ASSUME IInv, NEW f \in Flow, IdleYield(f)
    PROVE  IInv'
<1> USE DEF IInv
<1>1. /\ cpu = f /\ f \in Task /\ pos = "out" /\ pc[f] = "run" /\ f # Boot
      /\ pc' = [pc EXCEPT ![f] = "call"]
      /\ tickArg' = [tickArg EXCEPT ![f] = ticks]
      /\ UNCHANGED <<taskVars, queueVars, cpu, via, flags, rrVars, maskVars, started>>
  BY SchedulerAssumption DEF IdleYield, Runs
<1>2. MaskingFlows' = MaskingFlows
  BY <1>1, MaskingSame DEF Masking
<1>3. TypeOK'
  BY <1>1 DEF TypeOK, Place, taskVars, queueVars, rrVars, maskVars
<1> QED
  BY <1>1, <1>2, <1>3
  DEF rrVars, maskVars, MaskAccounting, MaskedInside, BootAlone, NextAtHand, CurrentSet,
      TypeOK

LEMMA CallMaskStep ==
    ASSUME IInv, NEW f \in Flow, CallMask(f)
    PROVE  IInv'
<1> USE DEF IInv
<1>1. /\ cpu = f /\ pos = "out" /\ pc[f] = "call" /\ depth' = depth + 1
      /\ pc' = [pc EXCEPT ![f] = "callMasking"]
      /\ UNCHANGED <<taskVars, queueVars, cpu, via, flags, tickArg, rrVars, intOn, ticks,
                     started>>
  BY DEF CallMask, Runs
<1>2. Cardinality(MaskingFlows') = Cardinality(MaskingFlows) + 1
  BY <1>1, MaskingJoin DEF Masking
<1>3. pc'[Boot] # "boot" /\ pc[Boot] # "boot"
  BY <1>1, SchedulerAssumption DEF BootAlone, TypeOK, Flow
<1>4. TypeOK'
  BY <1>1 DEF TypeOK, Place, Masking, taskVars, queueVars, rrVars
<1>5. MaskAccounting'
  BY <1>1, <1>2, <1>3, MaskingFinite DEF MaskAccounting, rrVars, TypeOK
<1> QED
  BY <1>1, <1>3, <1>4, <1>5 DEF rrVars, MaskedInside, BootAlone, NextAtHand, CurrentSet

LEMMA CallScheduleStep ==
    ASSUME IInv, NEW f \in Flow, CallSchedule(f)
    PROVE  IInv'
<1> USE DEF IInv
<1>1. /\ cpu = f /\ pos = "out" /\ pc[f] = "callMasking"
      /\ pc' = [pc EXCEPT ![f] = "run"]
      /\ pos' = "wake" /\ intOn' = FALSE /\ rrTick' = tickArg[f]
      /\ ctx' = [ctx EXCEPT ![current] = cpu]
      /\ via' = [via EXCEPT ![cpu] = IF prog[f] = "idle" THEN "call" ELSE "syscall"]
      /\ tickArg' = [tickArg EXCEPT ![f] = 0]
      /\ UNCHANGED <<state, prog, wakeTick, link, queueVars, cpu, flags, current, nxt, depth,
                     ticks, started>>
  BY DEF CallSchedule, Runs, EnterMasked
<1>2. Cardinality(MaskingFlows') = Cardinality(MaskingFlows) - 1
  BY <1>1, MaskingLeave DEF Masking
<1>3. pc'[Boot] # "boot" /\ pc[Boot] # "boot"
  BY <1>1 DEF BootAlone, TypeOK, Flow
<1>4. TypeOK'
  <2>1. intOn' \in BOOLEAN
    BY <1>1
  <2>2. /\ ctx' \in [Task -> Flow] /\ rrTick' \in Nat
        /\ via' \in [Flow -> {"isr", "call", "syscall"}]
    BY <1>1 DEF TypeOK
  <2> QED
    BY <1>1, <2>1, <2>2 DEF TypeOK, Place, queueVars
<1>5. MaskAccounting'
  BY <1>1, <1>2, <1>3, MaskingFinite DEF MaskAccounting, TypeOK
<1> QED
  BY <1>1, <1>3, <1>4, <1>5 DEF MaskedInside, BootAlone, NextAtHand, CurrentSet

LEMMA SysSleepStep ==
    ASSUME IInv, NEW f \in Flow, SysSleep(f)
    PROVE  IInv'
<1> USE DEF IInv
<1>1. /\ cpu = f /\ f \in Task /\ pos = "out" /\ pc[f] = "run" /\ f # Boot
      /\ pc' = [pc EXCEPT ![f] = "call"]
      /\ PushSleeper(current)
      /\ state' = [state EXCEPT ![current] = "SLEEPING"]
      /\ flags' = [flags EXCEPT ![f] = intOn]
      /\ tickArg' = [tickArg EXCEPT ![f] = ticks]
      /\ intOn' = (depth = 0)
      /\ UNCHANGED <<prog, link, ctx, ready, zombie, cpu, via, rrVars, depth, ticks, started>>
  BY SchedulerAssumption DEF SysSleep, Runs
<1>2. current \in Task
  BY <1>1 DEF CurrentSet
<1>3. MaskingFlows' = MaskingFlows
  BY <1>1, MaskingSame DEF Masking
<1>4. wakeTick' \in [Task -> Nat]
  <2>1. PICK ms \in SleepMs :
           wakeTick' = [wakeTick EXCEPT ![current] = (ticks + TicksToSleep(ms)) % TickWord]
    BY DEF SysSleep
  <2>2. (ticks + TicksToSleep(ms)) % TickWord \in Nat
    BY SleepType, ModType, SchedulerAssumption DEF TypeOK
  <2> QED
    BY <2>1, <2>2 DEF TypeOK
<1>5. sleepers' \subseteq Task
  BY <1>1, <1>2 DEF PushSleeper, TypeOK
<1>6. TypeOK'
  <2>1. intOn' \in BOOLEAN /\ flags' \in [Flow -> BOOLEAN]
    BY <1>1 DEF TypeOK
  <2> QED
    BY <1>1, <1>4, <1>5, <2>1 DEF TypeOK, TaskState, Place, rrVars
<1>7. pc'[Boot] # "boot" /\ pc[Boot] # "boot"
  BY <1>1 DEF BootAlone, TypeOK, Flow
<1> QED
  BY <1>1, <1>3, <1>6, <1>7
  DEF rrVars, MaskAccounting, MaskedInside, BootAlone, NextAtHand, CurrentSet

LEMMA SysExitStep ==
    ASSUME IInv, NEW f \in Flow, SysExit(f)
    PROVE  IInv'
<1> USE DEF IInv
<1>1. /\ cpu = f /\ f \in Task /\ pos = "out" /\ pc[f] = "run" /\ f # Boot
      /\ pc' = [pc EXCEPT ![f] = "exited"]
      /\ state' = [state EXCEPT ![current] = "ZOMBIE"]
      /\ flags' = [flags EXCEPT ![f] = intOn]
      /\ depth' = depth + 1
      /\ pos' = "wake" /\ intOn' = FALSE /\ rrTick' = ticks
      /\ ctx' = [ctx EXCEPT ![current] = cpu]
      /\ via' = [via EXCEPT ![cpu] = "syscall"]
      /\ UNCHANGED <<prog, wakeTick, link, queueVars, cpu, tickArg, current, nxt, ticks,
                     started>>
  BY SchedulerAssumption DEF SysExit, Runs, EnterMasked
<1>2. MaskingFlows' = MaskingFlows
  BY <1>1, MaskingSame DEF Masking
<1>3. pc'[Boot] # "boot" /\ pc[Boot] # "boot"
  BY <1>1 DEF BootAlone, TypeOK, Flow
<1>4. TypeOK'
  <2>1. intOn' \in BOOLEAN /\ flags' \in [Flow -> BOOLEAN]
    BY <1>1 DEF TypeOK
  <2>2. /\ ctx' \in [Task -> Flow] /\ rrTick' \in Nat
        /\ via' \in [Flow -> {"isr", "call", "syscall"}]
    BY <1>1 DEF TypeOK
  <2> QED
    BY <1>1, <2>1, <2>2 DEF TypeOK, TaskState, Place, queueVars
<1>5. MaskAccounting'
  BY <1>1, <1>2, <1>3, MaskingFinite DEF MaskAccounting, TypeOK
<1> QED
  BY <1>1, <1>3, <1>4, <1>5 DEF MaskedInside, BootAlone, NextAtHand, CurrentSet

LEMMA StartMaskStep ==
    ASSUME IInv, NEW f \in Flow, StartMask(f)
    PROVE  IInv'
<1> USE DEF IInv
<1>1. /\ cpu = f /\ pos = "out" /\ pc[f] = "run" /\ depth' = depth + 1
      /\ pc' = [pc EXCEPT ![f] = "createMasking"]
      /\ UNCHANGED <<taskVars, queueVars, cpu, via, flags, tickArg, rrVars, intOn, ticks,
                     started>>
  BY DEF StartMask, Runs
<1>2. Cardinality(MaskingFlows') = Cardinality(MaskingFlows) + 1
  BY <1>1, MaskingJoin DEF Masking
<1>3. pc'[Boot] # "boot" /\ pc[Boot] # "boot"
  BY <1>1, SchedulerAssumption DEF BootAlone, TypeOK, Flow
<1>4. TypeOK'
  BY <1>1 DEF TypeOK, Place, Masking, taskVars, queueVars, rrVars
<1>5. MaskAccounting'
  BY <1>1, <1>2, <1>3, MaskingFinite DEF MaskAccounting, rrVars, TypeOK
<1> QED
  BY <1>1, <1>3, <1>4, <1>5 DEF rrVars, MaskedInside, BootAlone, NextAtHand, CurrentSet

LEMMA StartKthreadStep ==
    ASSUME IInv, NEW f \in Flow, StartKthread(f)
    PROVE  IInv'
<1> USE DEF IInv
<1>1. /\ cpu = f /\ pos = "out" /\ pc[f] = "createMasking" /\ depth' = depth - 1
      /\ pc' = [pc EXCEPT ![f] = "run"]
      /\ intOn' = AfterEnable(FALSE)
      /\ CreateKthread("worker")
      /\ UNCHANGED <<wakeTick, ctx, zombie, sleepers, cpu, via, flags, tickArg, rrVars, ticks,
                     started>>
  BY DEF StartKthread, Runs
<1>2. Cardinality(MaskingFlows') = Cardinality(MaskingFlows) - 1
  BY <1>1, MaskingLeave DEF Masking
<1>3. pc'[Boot] # "boot" /\ pc[Boot] # "boot"
  BY <1>1 DEF BootAlone, TypeOK, Flow
<1>4. MaskAccounting'
  BY <1>1, <1>2, <1>3, MaskingFinite DEF MaskAccounting, rrVars, TypeOK
<1>5. depth' \in Nat
  <2>1. Cardinality(MaskingFlows) \in Nat /\ Cardinality(MaskingFlows') \in Nat
    <3>1. MaskingFlows' \subseteq Flow
      BY DEF MaskingFlows
    <3> QED
      BY <3>1, MaskingFinite, FlowFinite, FS_Subset, FS_CardinalityType
  <2>2. depth = Cardinality(MaskingFlows)
    BY <1>1, <1>3, <2>1 DEF MaskAccounting, TypeOK
  <2> QED
    BY <1>1, <1>2, <2>1, <2>2 DEF TypeOK
<1>6. TypeOK'
  <2>1. /\ state' \in [Task -> TaskState] /\ ready' \in Queue /\ link' \in Links
        /\ prog' \in [Task -> Programs \union {"none"}]
    BY <1>1, CreateType DEF Programs
  <2>2. intOn' \in BOOLEAN
    BY <1>1 DEF AfterEnable
  <2> QED
    BY <1>1, <1>5, <2>1, <2>2 DEF TypeOK, Place, rrVars
<1> QED
  BY <1>1, <1>3, <1>4, <1>6 DEF rrVars, MaskedInside, BootAlone, NextAtHand, CurrentSet

LEMMA StutterStep ==
    ASSUME IInv, UNCHANGED vars
    PROVE  IInv'
<1> USE DEF IInv
<1>1. TypeOK'
  BY DEF TypeOK, vars, taskVars, queueVars, flowVars, rrVars, maskVars
<1>2. MaskingFlows' = MaskingFlows
  BY DEF MaskingFlows, vars, flowVars
<1> QED
  BY <1>1, <1>2
  DEF MaskAccounting, MaskedInside, BootAlone, NextAtHand, CurrentSet,
      vars, flowVars, rrVars, maskVars

LEMMA NextIInv == IInv /\ [Next]_vars => IInv'
<1> SUFFICES ASSUME IInv, [Next]_vars PROVE IInv'
  OBVIOUS
<1>1. CASE BootStep
  BY <1>1, BootStartStep, BootEnableStep DEF BootStep
<1>2. CASE Tick
  BY <1>2, TickStep
<1>3. CASE RoundRobin
  BY <1>3, WakeSleeperStep, PutBackAndPopStep, DispatchStep DEF RoundRobin
<1>4. ASSUME NEW f \in Flow,
             IdleYield(f) \/ InCall(f) \/ SysSleep(f) \/ SysExit(f) \/ StartMask(f)
      PROVE  IInv'
  BY <1>4, IdleYieldStep, CallMaskStep, CallScheduleStep, StartKthreadStep, SysSleepStep,
     SysExitStep, StartMaskStep DEF InCall
<1>5. CASE UNCHANGED vars \/ \E f \in Flow : Halt(f)
  BY <1>5, StutterStep DEF Halt
<1> QED
  BY <1>1, <1>2, <1>3, <1>4, <1>5 DEF Next

-----------------------------------------------------------------------------
(* The inductive invariant holds in every behaviour of the scheduler. *)
THEOREM Invariance == Spec => []IInv
  BY InitIInv, NextIInv, PTL DEF Spec

(* Every variable keeps its type; in particular no ENABLE_INTERRUPTS ever  *)
(* takes system_interrupt_disable_counter below zero.                      *)
THEOREM TypeCorrect == Spec => []TypeOK
<1>1. IInv => TypeOK
  BY DEF IInv
<1> QED
  BY <1>1, Invariance, PTL

(* No timer interrupt is taken while round_robin works on the queues or    *)
(* while kernel_main runs, whatever flows were stopped inside              *)
(* DISABLE_INTERRUPTS or ENABLE_INTERRUPTS.                                *)
THEOREM InterruptsMasked == Spec => []MaskedInside
<1>1. IInv => MaskedInside
  BY DEF IInv
<1> QED
  BY <1>1, Invariance, PTL

(* The disable counter equals the increments that are outstanding: no      *)
(* switch, start, sleep, exit or thread creation loses or keeps one.       *)
THEOREM CounterAccounted == Spec => []MaskAccounting
<1>1. IInv => MaskAccounting
  BY DEF IInv
<1> QED
  BY <1>1, Invariance, PTL

-----------------------------------------------------------------------------
(* The flow. *)

(* Nothing leads to the task whose context holds the boot flow.            *)
Lost(t) ==
    /\ ctx[t] = Boot /\ prog[t] = "cleaner" /\ state[t] = "CREATED"
    /\ ready.head # t /\ \A u \in Task : link[u] # t
    /\ t \notin sleepers /\ nxt # t
    /\ pos = "out" => current # t

Contexts == \A t \in Task : ctx[t] = t \/ Lost(t)

(* Until the first tick the head of the ready queue is the cleaner, which  *)
(* scheduler_init starts first.                                            *)
Dawn ==
    pos = "out" /\ current = NULL =>
        /\ cpu = Boot /\ (\A t \in Task : ctx[t] = t) /\ sleepers = {} /\ nxt = NULL
        /\ started = 0 => ready = EmptyQueue /\ \A t \in Task : link[t] = NULL
        /\ started > 0 => /\ ready.head \in Task /\ ready.tail # NULL
                          /\ prog[ready.head] = "cleaner" /\ state[ready.head] = "CREATED"
                          /\ \A t \in Task : link[t] # ready.head

BootPlace == pc[Boot] = "boot" \/ (pc[Boot] = "run" /\ started > 0)

Runner == pos = "out" /\ current # NULL => cpu = current

Own == Contexts /\ Dawn /\ BootPlace /\ Runner

-----------------------------------------------------------------------------
(* What the list operations do to a task that nothing leads to.            *)
LEMMA PushAvoids ==
    ASSUME NEW q \in Queue, NEW l \in Links, NEW t \in Task, NEW u \in Task, t # u,
           \A v \in Task : l[v] # u
    PROVE  /\ \A v \in Task : PushLink(q, l, t)[v] # u
           /\ q.head # u => PushQueue(q, t).head # u
  BY NullAssumption DEF PushLink, PushQueue, Queue, Links, Pointer

LEMMA PopAvoids ==
    ASSUME NEW q \in Queue, NEW l \in Links, NEW u \in Task, q.head # NULL,
           \A v \in Task : l[v] # u
    PROVE  /\ \A v \in Task : PopLink(q, l)[v] # u
           /\ PopQueue(q, l).head # u
  BY NullAssumption DEF PopLink, PopQueue, Queue, Links, Pointer

LEMMA PopNextAvoids ==
    ASSUME NEW q \in Queue, NEW l \in Links, NEW u \in Task, q.head # u,
           \A v \in Task : l[v] # u, PopNext(q, l)
    PROVE  nxt' # u /\ ready'.head # u /\ \A v \in Task : link'[v] # u
<1>1. nxt' # u
  BY DEF PopNext
<1>2. CASE q.head = NULL
  BY <1>2 DEF PopNext
<1>3. CASE q.head # NULL
  BY <1>3, PopAvoids DEF PopNext
<1> QED
  BY <1>1, <1>2, <1>3

(* A step that touches neither tasks nor queues.                           *)
LEMMA StillOwn ==
    ASSUME IInv, Own, UNCHANGED <<taskVars, queueVars, cpu, nxt, current, pos, started>>,
           BootPlace'
    PROVE  Own'
<1>1. Contexts'
  BY DEF taskVars, queueVars, Own, Contexts, Lost
<1>2. Dawn'
  BY DEF taskVars, queueVars, Own, Dawn
<1>3. Runner'
  BY DEF Own, Runner
<1> QED
  BY <1>1, <1>2, <1>3 DEF Own

-----------------------------------------------------------------------------
(* One lemma per action that does.                                         *)
LEMMA InitOwn == Init => Own
<1> SUFFICES ASSUME Init PROVE Own
  OBVIOUS
<1>1. Contexts
  BY DEF Init, Contexts
<1>2. Dawn
  BY DEF Init, Dawn
<1>3. BootPlace
  BY DEF Init, BootPlace, Flow
<1>4. Runner
  BY DEF Init, Runner
<1> QED
  BY <1>1, <1>2, <1>3, <1>4 DEF Own

LEMMA BootStartOwn ==
    ASSUME IInv, Own, BootStart
    PROVE  Own'
<1>1. PICK t \in FreeSlots : QueueNewTask(t, BootOrder[started + 1])
  BY DEF BootStart
<1>2. /\ t \in Task /\ state[t] = "STOPPED" /\ ready \in Queue /\ link \in Links
      /\ started \in Nat /\ state \in [Task -> TaskState]
      /\ prog \in [Task -> Programs \union {"none"}]
  BY DEF FreeSlots, IInv, TypeOK, Queue
<1>3. /\ state' = [state EXCEPT ![t] = "CREATED"]
      /\ prog' = [prog EXCEPT ![t] = BootOrder[started + 1]]
      /\ ready' = PushQueue(ready, t) /\ link' = PushLink(ready, link, t)
      /\ started' = started + 1
      /\ UNCHANGED <<ctx, sleepers, cpu, pc, nxt, current, pos>>
  BY <1>1 DEF BootStart, QueueNewTask, flowVars, rrVars
<1>4. Contexts'
  <2> SUFFICES ASSUME NEW u \in Task, ctx[u] # u PROVE Lost(u)'
    BY <1>3 DEF Contexts
  <2>1. Lost(u) /\ u # t
    BY <1>2 DEF Own, Contexts, Lost
  <2>2. ready'.head # u /\ \A v \in Task : link'[v] # u
    BY <1>2, <1>3, <2>1, PushAvoids DEF Lost
  <2> QED
    BY <1>2, <1>3, <2>1, <2>2 DEF Lost
<1>5. Dawn'
  <2> SUFFICES ASSUME pos = "out", current = NULL PROVE Dawn'
    BY <1>3 DEF Dawn
  <2>1. /\ cpu = Boot /\ (\A u \in Task : ctx[u] = u) /\ sleepers = {} /\ nxt = NULL
        /\ started = 0 => ready = EmptyQueue /\ \A u \in Task : link[u] = NULL
        /\ started > 0 => /\ ready.head \in Task /\ ready.tail # NULL
                          /\ prog[ready.head] = "cleaner" /\ state[ready.head] = "CREATED"
                          /\ \A u \in Task : link[u] # ready.head
    BY DEF Own, Dawn
  <2>2. CASE started = 0
    <3>1. ready' = [head |-> t, tail |-> t] /\ link' = [link EXCEPT ![t] = NULL]
      BY <1>3, <2>1, <2>2 DEF PushQueue, PushLink, EmptyQueue
    <3>2. prog'[t] = "cleaner" /\ state'[t] = "CREATED"
      BY <1>2, <1>3, <2>2 DEF BootOrder
    <3>3. \A u \in Task : link'[u] # t
      BY <1>2, <2>1, <2>2, <3>1, NullAssumption DEF Links
    <3> QED
      BY <1>2, <1>3, <2>1, <2>2, <3>1, <3>2, <3>3, NullAssumption DEF Dawn
  <2>3. CASE started > 0
    <3>1. ready.head # t /\ ready'.head = ready.head /\ ready'.tail # NULL
      BY <1>2, <1>3, <2>1, <2>3, NullAssumption DEF PushQueue
    <3>2. \A u \in Task : link'[u] # ready.head
      BY <1>2, <1>3, <2>1, <2>3, <3>1, PushAvoids
    <3> QED
      BY <1>2, <1>3, <2>1, <2>3, <3>1, <3>2 DEF Dawn
  <2> QED
    BY <1>2, <2>2, <2>3
<1>6. BootPlace' /\ Runner'
  BY <1>2, <1>3 DEF Own, BootPlace, Runner
<1> QED
  BY <1>4, <1>5, <1>6 DEF Own

LEMMA BootEnableOwn ==
    ASSUME IInv, Own, BootEnable
    PROVE  Own'
<1>1. started > 0 /\ pc' = [pc EXCEPT ![Boot] = "run"]
  <2>1. Len(BootOrder) > 0
    BY SchedulerAssumption DEF BootOrder, Programs
  <2> QED
    BY <2>1 DEF BootEnable
<1>2. BootPlace'
  BY <1>1 DEF BootEnable, BootPlace, IInv, TypeOK, Flow
<1> QED
  BY <1>2, StillOwn DEF BootEnable, rrVars

(* The first tick saves the boot flow over the cleaner, which it pops.     *)
LEMMA TickOwn ==
    ASSUME IInv, Own, Tick
    PROVE  Own'
<1>1. pos = "out" /\ pc[Boot] # "boot" /\ started > 0
  BY DEF Tick, IInv, MaskedInside, Own, BootPlace
<1>2. /\ pos' = "wake" /\ ctx' = [ctx EXCEPT ![current'] = cpu]
      /\ UNCHANGED <<prog, state, sleepers, nxt, pc, started>>
  BY DEF Tick, EnterMasked
<1>3. ready \in Queue /\ link \in Links /\ current \in Pointer /\ ctx \in [Task -> Flow]
  BY DEF IInv, TypeOK
<1>4. CASE current # NULL
  <2>1. current' = current /\ current \in Task /\ cpu = current /\ UNCHANGED <<ready, link>>
    BY <1>1, <1>3, <1>4 DEF Tick, Own, Runner, Pointer
  <2>2. ASSUME NEW u \in Task, ctx'[u] # u PROVE Lost(u)'
    <3>1. ctx[u] # u /\ u # current
      BY <1>2, <1>3, <2>1, <2>2
    <3> QED
      BY <1>1, <1>2, <1>3, <2>1, <3>1 DEF Own, Contexts, Lost
  <2> QED
    BY <1>1, <1>2, <2>2 DEF Own, Contexts, Dawn, BootPlace, Runner
<1>5. CASE current = NULL
  <2> DEFINE t == ready.head
  <2>1. /\ cpu = Boot /\ (\A u \in Task : ctx[u] = u) /\ sleepers = {} /\ nxt = NULL
        /\ t \in Task /\ prog[t] = "cleaner" /\ state[t] = "CREATED"
        /\ \A u \in Task : link[u] # t
    BY <1>1, <1>5 DEF Own, Dawn
  <2>2. t # NULL
    BY <2>1, NullAssumption
  <2>3. current' = t /\ ready' = PopQueue(ready, link) /\ link' = PopLink(ready, link)
    BY <1>5, <2>2 DEF Tick
  <2>4. ready'.head # t /\ \A u \in Task : link'[u] # t
    BY <1>3, <2>1, <2>2, <2>3, PopAvoids
  <2>5. ASSUME NEW u \in Task, ctx'[u] # u PROVE Lost(u)'
    <3>1. u = t /\ ctx'[t] = Boot
      BY <1>2, <1>3, <2>1, <2>3, <2>5
    <3> QED
      BY <1>2, <2>1, <2>2, <2>4, <3>1 DEF Lost
  <2> QED
    BY <1>1, <1>2, <2>5 DEF Own, Contexts, Dawn, BootPlace, Runner
<1> QED
  BY <1>4, <1>5

LEMMA WakeSleeperOwn ==
    ASSUME IInv, Own, WakeSleeper
    PROVE  Own'
<1>1. PICK t \in Due : EnqueueReady(t) /\ sleepers' = sleepers \ {t}
  BY DEF WakeSleeper
<1>2. t \in Task /\ t \in sleepers /\ ready \in Queue /\ link \in Links
      /\ state \in [Task -> TaskState]
  BY DEF Due, NextSleepers, IInv, TypeOK
<1>3. /\ pos = "wake" /\ UNCHANGED <<prog, ctx, pc, nxt, current, pos, started>>
      /\ ready' = PushQueue(ready, t) /\ link' = PushLink(ready, link, t)
      /\ state' = [state EXCEPT ![t] = IF @ = "CREATED" THEN @ ELSE "RUNNING"]
  BY <1>1 DEF WakeSleeper, EnqueueReady, flowVars, rrVars
<1>4. ASSUME NEW u \in Task, ctx[u] # u PROVE Lost(u)'
  <2>1. Lost(u) /\ u # t
    BY <1>2, <1>4 DEF Own, Contexts, Lost
  <2>2. ready'.head # u /\ \A v \in Task : link'[v] # u
    BY <1>2, <1>3, <2>1, PushAvoids DEF Lost
  <2>3. state'[u] = "CREATED" /\ u \notin sleepers'
    BY <1>1, <1>2, <1>3, <2>1 DEF Lost
  <2> QED
    BY <1>3, <2>1, <2>2, <2>3 DEF Lost
<1> QED
  BY <1>3, <1>4 DEF Own, Contexts, Dawn, BootPlace, Runner

LEMMA PutBackAndPopOwn ==
    ASSUME IInv, Own, PutBackAndPop
    PROVE  Own'
<1>1. /\ pos = "wake" /\ pos' \in {"dispatch", "panic"}
      /\ UNCHANGED <<state, prog, ctx, sleepers, pc, started>>
      /\ ready \in Queue /\ link \in Links /\ current \in Pointer
  BY DEF PutBackAndPop, PopNext, flowVars, IInv, TypeOK
<1>2. ASSUME NEW u \in Task, ctx[u] # u PROVE Lost(u)'
  <2>1. Lost(u)
    BY <1>2 DEF Own, Contexts
  <2>2. nxt' # u /\ ready'.head # u /\ \A v \in Task : link'[v] # u
    <3>1. CASE current # NULL /\ state[current] = "RUNNING"
      <4>1. current \in Task /\ current # u
        BY <1>1, <2>1, <3>1 DEF Pointer, Lost
      <4>2. PopNext(PushQueue(ready, current), PushLink(ready, link, current))
        BY <3>1 DEF PutBackAndPop
      <4>3. PushQueue(ready, current) \in Queue /\ PushLink(ready, link, current) \in Links
        BY <1>1, <4>1, PushType
      <4>4. /\ PushQueue(ready, current).head # u
            /\ \A v \in Task : PushLink(ready, link, current)[v] # u
        BY <1>1, <2>1, <4>1, PushAvoids DEF Lost
      <4> QED
        BY <4>2, <4>3, <4>4, PopNextAvoids
    <3>2. CASE ~(current # NULL /\ state[current] = "RUNNING")
      BY <1>1, <2>1, <3>2, PopNextAvoids DEF PutBackAndPop, Lost
    <3> QED
      BY <3>1, <3>2
  <2> QED
    BY <1>1, <2>1, <2>2 DEF Lost
<1> QED
  BY <1>1, <1>2 DEF Own, Contexts, Dawn, BootPlace, Runner

LEMMA DispatchOwn ==
    ASSUME IInv, Own, Dispatch
    PROVE  Own'
<1>1. /\ pos = "dispatch" /\ nxt \in Task /\ UNCHANGED <<prog, ctx, pc, started>>
      /\ ready \in Queue /\ zombie \in Queue /\ link \in Links
      /\ state \in [Task -> TaskState]
  BY DEF Dispatch, IInv, NextAtHand, TypeOK
<1>2. ASSUME NEW u \in Task, ctx[u] # u PROVE Lost(u) /\ u # nxt
  BY <1>2 DEF Own, Contexts, Lost
<1>3. CASE StartTask \/ ResumeTask
  <2>1. /\ current' = nxt /\ nxt' = NULL /\ UNCHANGED <<ready, link, sleepers>>
        /\ state' = state \/ state' = [state EXCEPT ![nxt] = "RUNNING"]
    BY <1>3 DEF StartTask, ResumeTask
  <2>2. cpu' = nxt
    BY <1>1, <1>2, <1>3 DEF StartTask, ResumeTask
  <2>3. ASSUME NEW u \in Task, ctx[u] # u PROVE Lost(u)'
    BY <1>1, <1>2, <2>1, <2>3, NullAssumption DEF Lost
  <2> QED
    BY <1>1, <2>1, <2>2, <2>3, NullAssumption DEF Own, Contexts, Dawn, BootPlace, Runner
<1>4. CASE DivertTask
  <2>1. /\ current' = current /\ pos' \in {"dispatch", "panic"}
    BY <1>4 DEF DivertTask, PopNext
  <2>2. ASSUME NEW u \in Task, ctx[u] # u PROVE Lost(u)'
    <3>1. Lost(u) /\ u # nxt
      BY <1>2, <2>2
    <3>2. state'[u] = "CREATED" /\ u \notin sleepers'
      BY <1>1, <1>4, <3>1 DEF DivertTask, PushSleeper, Lost
    <3>3. nxt' # u /\ ready'.head # u /\ \A v \in Task : link'[v] # u
      <4>1. CASE PopNext(ready, PushLink(zombie, link, nxt))
        <5>1. PushLink(zombie, link, nxt) \in Links
          BY <1>1, PushType
        <5>2. \A v \in Task : PushLink(zombie, link, nxt)[v] # u
          BY <1>1, <3>1, PushAvoids DEF Lost
        <5> QED
          BY <1>1, <3>1, <4>1, <5>1, <5>2, PopNextAvoids DEF Lost
      <4>2. CASE PopNext(ready, link)
        BY <1>1, <3>1, <4>2, PopNextAvoids DEF Lost
      <4>3. CASE PopNext(PushQueue(ready, nxt), PushLink(ready, link, nxt))
        <5>1. PushQueue(ready, nxt) \in Queue /\ PushLink(ready, link, nxt) \in Links
          BY <1>1, PushType
        <5>2. /\ PushQueue(ready, nxt).head # u
              /\ \A v \in Task : PushLink(ready, link, nxt)[v] # u
          BY <1>1, <3>1, PushAvoids DEF Lost
        <5> QED
          BY <4>3, <5>1, <5>2, PopNextAvoids
      <4> QED
        BY <1>4, <4>1, <4>2, <4>3 DEF DivertTask
    <3> QED
      BY <1>1, <2>1, <3>1, <3>2, <3>3 DEF Lost
  <2> QED
    BY <1>1, <2>1, <2>2 DEF Own, Contexts, Dawn, BootPlace, Runner
<1> QED
  BY <1>3, <1>4 DEF Dispatch

(* What the calls of a flow change: the flow is `current'.                 *)
LEMMA RunnerTask ==
    ASSUME IInv, Own, NEW f \in Flow, pos = "out", cpu = f, pc[f] \notin {"boot", "run"} \/ f \in Task
    PROVE  current = f /\ f \in Task /\ current # NULL
<1>1. f \in Task
  BY DEF Own, BootPlace, Flow
<1>2. current \in Task /\ current # NULL
  BY <1>1, NullAssumption DEF IInv, CurrentSet
<1> QED
  BY <1>1, <1>2 DEF Own, Runner

(* A flow that calls the scheduler is saved in its own context.            *)
LEMMA SavedInOwn ==
    ASSUME IInv, Own, pos = "out", current \in Task, cpu = current,
           ctx' = [ctx EXCEPT ![current] = cpu], pos' = "wake",
           UNCHANGED <<prog, link, ready, sleepers, nxt, current, started>>,
           \A t \in Task : t # current => state'[t] = state[t],
           BootPlace'
    PROVE  Own'
<1>1. ctx \in [Task -> Flow]
  BY DEF IInv, TypeOK
<1>2. ASSUME NEW u \in Task, ctx'[u] # u PROVE Lost(u)'
  <2>1. ctx[u] # u /\ u # current /\ ctx'[u] = ctx[u]
    BY <1>1, <1>2
  <2> QED
    BY <2>1 DEF Own, Contexts, Lost
<1> QED
  BY <1>2 DEF Own, Contexts, Dawn, Runner

LEMMA CallOwn ==
    ASSUME IInv, Own, NEW f \in Flow, CallMask(f) \/ CallSchedule(f) \/ IdleYield(f) \/ StartMask(f)
    PROVE  Own'
<1>1. cpu = f /\ pos = "out" /\ (pc[f] \notin {"boot", "run"} \/ f \in Task)
  BY DEF CallMask, CallSchedule, IdleYield, StartMask, Runs
<1>2. current = f /\ f \in Task /\ current # NULL
  BY <1>1, RunnerTask
<1>3. BootPlace'
  <2>1. pc'[Boot] = pc[Boot] /\ started' = started
    BY <1>2, SchedulerAssumption
    DEF CallMask, CallSchedule, IdleYield, StartMask, IInv, TypeOK, Flow
  <2> QED
    BY <2>1 DEF Own, BootPlace
<1>4. CASE CallSchedule(f)
  BY <1>1, <1>2, <1>3, <1>4, SavedInOwn DEF CallSchedule, EnterMasked, queueVars
<1>5. CASE CallMask(f) \/ IdleYield(f) \/ StartMask(f)
  BY <1>3, <1>5, StillOwn DEF CallMask, IdleYield, StartMask, rrVars
<1> QED
  BY <1>4, <1>5

LEMMA SysExitOwn ==
    ASSUME IInv, Own, NEW f \in Flow, SysExit(f)
    PROVE  Own'
<1>1. cpu = f /\ pos = "out" /\ f \in Task
  BY DEF SysExit, Runs
<1>2. current = f /\ current \in Task
  BY <1>1, RunnerTask
<1>3. BootPlace'
  BY <1>1, SchedulerAssumption DEF SysExit, IInv, TypeOK, Flow, Own, BootPlace
<1>4. \A t \in Task : t # current => state'[t] = state[t]
  BY DEF SysExit, IInv, TypeOK
<1> QED
  BY <1>1, <1>2, <1>3, <1>4, SavedInOwn DEF SysExit, EnterMasked, queueVars

LEMMA SysSleepOwn ==
    ASSUME IInv, Own, NEW f \in Flow, SysSleep(f)
    PROVE  Own'
<1>1. cpu = f /\ pos = "out" /\ f \in Task
  BY DEF SysSleep, Runs
<1>2. current = f /\ current \in Task /\ current # NULL
  BY <1>1, RunnerTask
<1>3. BootPlace'
  BY <1>1, SchedulerAssumption DEF SysSleep, IInv, TypeOK, Flow, Own, BootPlace
<1>4. /\ UNCHANGED <<prog, link, ctx, ready, cpu, current, nxt, pos, started>>
      /\ sleepers' \subseteq sleepers \union {current}
      /\ \A t \in Task : t # current => state'[t] = state[t]
  BY DEF SysSleep, rrVars, PushSleeper, IInv, TypeOK
<1>5. ASSUME NEW u \in Task, ctx[u] # u PROVE Lost(u)'
  <2>1. Lost(u) /\ u # current
    BY <1>1, <1>5 DEF Own, Contexts, Lost
  <2> QED
    BY <1>4, <2>1 DEF Lost
<1> QED
  BY <1>2, <1>3, <1>4, <1>5 DEF Own, Contexts, Dawn, Runner

LEMMA StartKthreadOwn ==
    ASSUME IInv, Own, NEW f \in Flow, StartKthread(f)
    PROVE  Own'
<1>1. cpu = f /\ pos = "out" /\ pc[f] = "createMasking"
  BY DEF StartKthread, Runs
<1>2. current = f /\ f \in Task /\ current # NULL
  BY <1>1, RunnerTask
<1>3. BootPlace'
  BY <1>2, SchedulerAssumption DEF StartKthread, IInv, TypeOK, Flow, Own, BootPlace
<1>4. /\ UNCHANGED <<ctx, sleepers, cpu, current, nxt, pos, started>>
      /\ CreateKthread("worker")
      /\ ready \in Queue /\ link \in Links /\ state \in [Task -> TaskState]
      /\ prog \in [Task -> Programs \union {"none"}]
  BY DEF StartKthread, rrVars, IInv, TypeOK
<1>5. ASSUME NEW u \in Task, ctx[u] # u PROVE Lost(u)'
  <2>1. Lost(u) /\ state[u] # "STOPPED"
    BY <1>5 DEF Own, Contexts, Lost
  <2>2. CASE UNCHANGED <<state, prog, ready, link>>
    BY <1>4, <2>1, <2>2 DEF Lost
  <2>3. ASSUME NEW t \in FreeSlots, QueueNewTask(t, "worker") \/ LeakNewTask(t)
        PROVE  Lost(u)'
    <3>1. t \in Task /\ t # u
      BY <2>1 DEF FreeSlots
    <3>2. prog'[u] = prog[u] /\ state'[u] = state[u]
      BY <1>4, <2>3, <3>1 DEF QueueNewTask, LeakNewTask
    <3>3. ready'.head # u /\ \A v \in Task : link'[v] # u
      BY <1>4, <2>1, <2>3, <3>1, PushAvoids DEF QueueNewTask, LeakNewTask, Lost
    <3> QED
      BY <1>4, <2>1, <3>2, <3>3 DEF Lost
  <2> QED
    BY <1>4, <2>2, <2>3 DEF CreateKthread
<1> QED
  BY <1>2, <1>3, <1>4, <1>5 DEF Own, Contexts, Dawn, Runner

LEMMA StutterOwn ==
    ASSUME IInv, Own, UNCHANGED vars
    PROVE  Own'
<1>1. BootPlace'
  BY DEF vars, flowVars, Own, BootPlace
<1> QED
  BY <1>1, StillOwn DEF vars, flowVars, rrVars

LEMMA NextOwn == IInv /\ Own /\ [Next]_vars => Own'
<1> SUFFICES ASSUME IInv, Own, [Next]_vars PROVE Own'
  OBVIOUS
<1>1. CASE BootStep
  BY <1>1, BootStartOwn, BootEnableOwn DEF BootStep
<1>2. CASE Tick
  BY <1>2, TickOwn
<1>3. CASE RoundRobin
  BY <1>3, WakeSleeperOwn, PutBackAndPopOwn, DispatchOwn DEF RoundRobin
<1>4. ASSUME NEW f \in Flow, Halt(f) PROVE Own'
  BY <1>4, StutterOwn DEF Halt
<1>5. ASSUME NEW f \in Flow, IdleYield(f) \/ InCall(f) \/ StartMask(f) PROVE Own'
  BY <1>5, CallOwn, StartKthreadOwn DEF InCall
<1>6. ASSUME NEW f \in Flow, SysSleep(f) \/ SysExit(f) PROVE Own'
  BY <1>6, SysSleepOwn, SysExitOwn
<1>7. CASE UNCHANGED vars
  BY <1>7, StutterOwn
<1> QED
  BY <1>1, <1>2, <1>3, <1>4, <1>5, <1>6, <1>7 DEF Next

LEMMA OwnHeld == Spec => [](IInv /\ Own)
  BY Invariance, InitOwn, NextOwn, PTL DEF Spec

-----------------------------------------------------------------------------
(* scheduler_schedule, task_switch_impl: whatever runs, sleeps, exits or   *)
(* creates threads, the flow that executes is the one current_tasks[0]     *)
(* names, and every context but the one the first tick wrote is its own    *)
(* task's.                                                                 *)
THEOREM RunningIsCurrent == Spec => []Identity
<1>1. IInv /\ Own => Identity
  BY DEF Own, Runner, Contexts, Lost, Identity, Casualties
<1> QED
  BY <1>1, OwnHeld, PTL

-----------------------------------------------------------------------------
(* Times.  Nobody hands round_robin a tick that is still to come, only a   *)
(* SLEEPING task can have a wake_tick that is, and a SLEEPING task that    *)
(* executes is on its way into scheduler_schedule.                         *)
Times ==
    /\ ticks <= MaxTick /\ rrTick <= ticks /\ \A f \in Flow : tickArg[f] <= ticks
    /\ \A t \in Task : wakeTick[t] > ticks => state[t] = "SLEEPING"
    /\ \A t \in Task : pos = "out" /\ cpu = t /\ state[t] = "SLEEPING" =>
                           pc[t] \in {"call", "callMasking"}

LEMMA InitTimes == Init => Times
  BY SchedulerAssumption DEF Init, Times, Flow

(* Steps of round_robin.                                                   *)
LEMMA RoundRobinTimes ==
    ASSUME IInv, Own, Times, RoundRobin
    PROVE  Times'
<1>1. /\ UNCHANGED <<wakeTick, tickArg, ticks, pc>> /\ pos # "out"
      /\ wakeTick \in [Task -> Nat] /\ ticks \in Nat /\ rrTick \in Nat /\ rrTick' \in {rrTick, 0}
      /\ state \in [Task -> TaskState]
  BY DEF RoundRobin, WakeSleeper, PutBackAndPop, Dispatch, StartTask, ResumeTask, DivertTask,
         flowVars, rrVars, maskVars, IInv, TypeOK
<1>2. CASE WakeSleeper
  <2>1. PICK t \in Due : EnqueueReady(t)
    BY <1>2 DEF WakeSleeper
  <2>2. t \in Task /\ wakeTick[t] <= rrTick
    BY <2>1 DEF Due, NextSleepers, IInv, TypeOK
  <2>3. ~(wakeTick[t] > ticks)
    BY <1>1, <2>2 DEF Times
  <2>4. \A u \in Task : u # t => state'[u] = state[u]
    BY <1>1, <2>1 DEF EnqueueReady
  <2> QED
    BY <1>1, <1>2, <2>3, <2>4 DEF Times, WakeSleeper, rrVars
<1>3. CASE PutBackAndPop
  BY <1>1, <1>3 DEF PutBackAndPop, PopNext, Times
<1>4. CASE Dispatch
  <2>1. nxt \in Task /\ \A t \in Task : t # nxt => state'[t] = state[t]
    BY <1>1, <1>4 DEF Dispatch, StartTask, ResumeTask, DivertTask, IInv, NextAtHand
  <2>2. state'[nxt] # state[nxt] => state[nxt] # "SLEEPING"
    BY <1>4 DEF Dispatch, StartTask, ResumeTask, DivertTask
  <2>3. pos' = "out" => cpu' = nxt /\ state'[nxt] = "RUNNING"
    <3>1. ctx[nxt] # nxt => state[nxt] = "CREATED"
      BY <2>1 DEF Own, Contexts, Lost
    <3>2. CASE StartTask
      BY <1>1, <2>1, <3>2 DEF StartTask
    <3>3. CASE state[nxt] = "RUNNING" /\ ResumeTask
      BY <3>1, <3>3 DEF ResumeTask
    <3>4. CASE DivertTask
      BY <3>4 DEF DivertTask, PopNext
    <3> QED
      BY <1>4, <3>2, <3>3, <3>4 DEF Dispatch
  <2> QED
    BY <1>1, <2>1, <2>2, <2>3 DEF Times
<1> QED
  BY <1>2, <1>3, <1>4 DEF RoundRobin

(* Steps of a flow, and of the timer while its count does not wrap.        *)
LEMMA FlowTimes ==
    ASSUME IInv, Own, Times, NEW f \in Flow,
           IdleYield(f) \/ InCall(f) \/ StartMask(f) \/ SysSleep(f) \/ SysExit(f)
    PROVE  Times'
<1>1. /\ cpu = f /\ pos = "out" /\ (pc[f] \notin {"boot", "run"} \/ f \in Task)
      /\ UNCHANGED <<cpu, ticks>>
  BY DEF IdleYield, InCall, CallMask, CallSchedule, StartKthread, StartMask, SysSleep, SysExit,
         Runs, maskVars
<1>2. current = f /\ f \in Task
  BY <1>1, RunnerTask
<1>3. /\ wakeTick \in [Task -> Nat] /\ tickArg \in [Flow -> Nat] /\ ticks \in Nat
      /\ rrTick \in Nat /\ state \in [Task -> TaskState] /\ pc \in [Flow -> Place]
  BY DEF IInv, TypeOK
<1>4. CASE IdleYield(f) \/ CallMask(f) \/ StartMask(f)
  <2>1. /\ UNCHANGED <<state, wakeTick, rrTick>>
        /\ tickArg' = tickArg \/ tickArg' = [tickArg EXCEPT ![f] = ticks]
    BY <1>4 DEF IdleYield, CallMask, StartMask, taskVars, rrVars
  <2>2. state[f] = "SLEEPING" => pc[f] = "call" \/ pc[f] = "callMasking"
    BY <1>1, <1>2 DEF Times
  <2>3. state[f] = "SLEEPING" => pc'[f] \in {"call", "callMasking"}
    BY <1>2, <1>3, <1>4, <2>2 DEF IdleYield, CallMask, StartMask, Runs
  <2> QED
    BY <1>1, <1>3, <2>1, <2>3 DEF Times
<1>5. CASE CallSchedule(f)
  BY <1>1, <1>3, <1>5 DEF CallSchedule, EnterMasked, Times
<1>6. CASE StartKthread(f)
  <2>1. state[f] # "SLEEPING"
    BY <1>1, <1>2, <1>6 DEF StartKthread, Runs, Times
  <2>2. \A t \in Task : state'[t] # state[t] => state[t] = "STOPPED" /\ state'[t] = "CREATED"
    BY <1>3, <1>6 DEF StartKthread, CreateKthread, FreeSlots, QueueNewTask, LeakNewTask
  <2>3. UNCHANGED <<wakeTick, tickArg, rrTick>>
    BY <1>6 DEF StartKthread, rrVars
  <2> QED
    BY <1>1, <1>3, <2>1, <2>2, <2>3 DEF Times
<1>7. CASE SysSleep(f)
  <2>1. PICK ms \in SleepMs :
            wakeTick' = [wakeTick EXCEPT ![current] = (ticks + TicksToSleep(ms)) % TickWord]
    BY <1>7 DEF SysSleep
  <2>2. /\ state' = [state EXCEPT ![current] = "SLEEPING"] /\ pc' = [pc EXCEPT ![f] = "call"]
        /\ tickArg' = [tickArg EXCEPT ![f] = ticks] /\ rrTick' = rrTick
    BY <1>7 DEF SysSleep, rrVars
  <2> QED
    BY <1>1, <1>2, <1>3, <2>1, <2>2 DEF Times
<1>8. CASE SysExit(f)
  <2>1. state[f] # "SLEEPING"
    BY <1>1, <1>2, <1>8 DEF SysExit, Runs, Times
  <2>2. /\ state' = [state EXCEPT ![current] = "ZOMBIE"] /\ pos' = "wake" /\ rrTick' = ticks
        /\ UNCHANGED <<wakeTick, tickArg>>
    BY <1>8 DEF SysExit, EnterMasked
  <2> QED
    BY <1>1, <1>2, <1>3, <2>1, <2>2 DEF Times
<1> QED
  BY <1>4, <1>5, <1>6, <1>7, <1>8 DEF InCall

LEMMA NextTimes ==
    ASSUME MaxTick < TickWord
    PROVE  IInv /\ Own /\ Times /\ [Next]_vars => Times'
<1> SUFFICES ASSUME IInv, Own, Times, [Next]_vars PROVE Times'
  OBVIOUS
<1>1. CASE BootStep
  <2>1. /\ UNCHANGED <<wakeTick, tickArg, ticks, rrTick, cpu, pos>> /\ cpu = Boot
        /\ state \in [Task -> TaskState]
    BY <1>1 DEF BootStep, BootStart, BootEnable, taskVars, flowVars, rrVars, maskVars, IInv, TypeOK
  <2>2. \A t \in Task : state'[t] # state[t] => state[t] = "STOPPED"
    BY <1>1, <2>1 DEF BootStep, BootStart, BootEnable, QueueNewTask, FreeSlots, taskVars
  <2> QED
    BY <2>1, <2>2, SchedulerAssumption DEF Times
<1>2. CASE Tick
  <2>1. ticks \in Nat /\ MaxTick \in Nat /\ TickWord \in Nat
        /\ wakeTick \in [Task -> Nat] /\ tickArg \in [Flow -> Nat]
    BY SchedulerAssumption DEF IInv, TypeOK
  <2>2. ticks' = IF ticks = MaxTick THEN ticks ELSE (ticks + 1) % TickWord
    BY <1>2 DEF Tick
  <2>3. ticks <= MaxTick
    BY DEF Times
  <2>4. ticks # MaxTick => (ticks + 1) % TickWord = ticks + 1
    BY <2>1, <2>3
  <2>5. ticks' \in Nat /\ ticks <= ticks' /\ ticks' <= MaxTick
    BY <2>1, <2>2, <2>3, <2>4
  <2>6. /\ UNCHANGED <<state, wakeTick, tickArg>> /\ rrTick' = ticks' /\ pos' = "wake"
    BY <1>2 DEF Tick, EnterMasked
  <2> QED
    BY <2>1, <2>5, <2>6 DEF Times
<1>3. CASE RoundRobin
  BY <1>3, RoundRobinTimes
<1>4. CASE UNCHANGED vars
  BY <1>4 DEF vars, taskVars, flowVars, rrVars, maskVars, Times
<1>5. ASSUME NEW f \in Flow, Halt(f) PROVE UNCHANGED vars
  BY <1>5 DEF Halt
<1> QED
  BY <1>1, <1>2, <1>3, <1>4, <1>5, FlowTimes DEF Next

(* scheduler_sleep, round_robin: no task is back in its code before its    *)
(* wake_tick, whatever preempts it between its own enqueue and the switch  *)
(* and however often it is queued, as long as the tick counter does not    *)
(* wrap.                                                                   *)
THEOREM NobodyWakesEarly ==
    ASSUME MaxTick < TickWord
    PROVE  Spec => []NoEarlyWake
<1>1. IInv /\ Times => NoEarlyWake
  <2> SUFFICES ASSUME IInv, Times, NEW t \in Task, Runs(t, "run") PROVE wakeTick[t] <= ticks
    BY DEF NoEarlyWake
  <2>1. state[t] # "SLEEPING"
    BY DEF Times, Runs
  <2>2. wakeTick[t] \in Nat /\ ticks \in Nat
    BY DEF IInv, TypeOK
  <2> QED
    BY <2>1, <2>2 DEF Times
<1> QED
  BY <1>1, OwnHeld, InitTimes, NextTimes, PTL DEF Spec

-----------------------------------------------------------------------------
(* Interrupts.  When no thread but kernel_main creates threads, a worker   *)
(* executes its own code with IF set, so that every system call will       *)
(* return to IF set; only the idle thread returns by `call'.               *)
Open ==
    /\ pos = "out" /\ depth = 0 => intOn
    /\ \A t \in Task :
          /\ flags[t] /\ pc[t] # "createMasking"
          /\ via[t] = "call" => prog[t] = "idle"
          /\ state[t] = "STOPPED" => prog[t] = "none"
          /\ pos = "out" /\ cpu = t /\ prog[t] = "worker" /\ pc[t] = "run" => intOn

LEMMA InitOpen == Init => Open
  BY SchedulerAssumption DEF Init, Open, Flow

LEMMA ResumeOpen ==
    ASSUME IInv, Own, Open, pos = "dispatch", ResumeTask, state[nxt] = "RUNNING",
           UNCHANGED <<prog, pc, via, flags>>
    PROVE  Open'
<1>1. nxt \in Task /\ state' = state /\ depth' = depth - 1 /\ depth \in Nat
  BY DEF ResumeTask, IInv, NextAtHand, TypeOK
<1>2. cpu' = nxt
  BY <1>1 DEF ResumeTask, Own, Contexts, Lost
<1>3. CASE pos' = "out"
  <2>1. intOn' <=> ReturnIF(nxt)
    BY <1>2, <1>3 DEF ResumeTask
  <2>2. via[nxt] # "call" => intOn'
    BY <1>1, <2>1 DEF ReturnIF, Open, IInv, TypeOK, Flow
  <2>3. via[nxt] = "call" => prog[nxt] = "idle" /\ (depth - 1 = 0 => intOn')
    BY <1>1, <2>1 DEF ReturnIF, AfterEnable, Open
  <2> QED
    BY <1>1, <1>2, <2>2, <2>3 DEF Open
<1>4. CASE pos' # "out"
  BY <1>1, <1>4 DEF Open
<1> QED
  BY <1>3, <1>4

LEMMA RoundRobinOpen ==
    ASSUME IInv, Own, Open, RoundRobin
    PROVE  Open'
<1>1. UNCHANGED <<prog, pc, via, flags>> /\ state \in [Task -> TaskState]
  BY DEF RoundRobin, WakeSleeper, PutBackAndPop, Dispatch, flowVars, IInv, TypeOK
<1>2. CASE WakeSleeper
  <2>1. PICK t \in Due : EnqueueReady(t)
    BY <1>2 DEF WakeSleeper
  <2>2. pos' # "out" /\ \A u \in Task : state'[u] = "STOPPED" => state[u] = "STOPPED"
    BY <1>1, <1>2, <2>1 DEF WakeSleeper, EnqueueReady, rrVars
  <2> QED
    BY <1>1, <2>2 DEF Open
<1>3. CASE PutBackAndPop
  BY <1>1, <1>3 DEF PutBackAndPop, PopNext, Open
<1>4. CASE Dispatch
  <2>1. nxt \in Task /\ pos = "dispatch"
    BY <1>4 DEF Dispatch, IInv, NextAtHand
  <2>2. CASE StartTask
    <3>1. intOn' /\ \A u \in Task : state'[u] = "STOPPED" => state[u] = "STOPPED"
      BY <1>1, <2>1, <2>2 DEF StartTask
    <3> QED
      BY <1>1, <3>1 DEF Open
  <2>3. CASE state[nxt] = "RUNNING" /\ ResumeTask
    BY <1>1, <2>1, <2>3, ResumeOpen
  <2>4. CASE DivertTask
    <3>1. pos' # "out" /\ \A u \in Task : state'[u] = "STOPPED" => state[u] = "STOPPED"
      BY <1>1, <2>1, <2>4 DEF DivertTask, PopNext
    <3> QED
      BY <1>1, <3>1 DEF Open
  <2> QED
    BY <1>4, <2>2, <2>3, <2>4 DEF Dispatch
<1> QED
  BY <1>2, <1>3, <1>4 DEF RoundRobin

LEMMA FlowOpen ==
    ASSUME ~MayStart, IInv, Own, Open, NEW f \in Flow,
           IdleYield(f) \/ InCall(f) \/ StartMask(f) \/ SysSleep(f) \/ SysExit(f)
    PROVE  Open'
<1>1. /\ cpu = f /\ pos = "out" /\ (pc[f] \notin {"boot", "run"} \/ f \in Task)
      /\ ~StartMask(f) /\ UNCHANGED cpu
  BY DEF IdleYield, InCall, CallMask, CallSchedule, StartKthread, StartMask, SysSleep, SysExit,
         Runs
<1>2. current = f /\ f \in Task
  BY <1>1, RunnerTask
<1>3. /\ pc \in [Flow -> Place] /\ via \in [Flow -> {"isr", "call", "syscall"}]
      /\ flags \in [Flow -> BOOLEAN] /\ state \in [Task -> TaskState] /\ depth \in Nat
      /\ f \in Flow /\ Task \subseteq Flow
  BY DEF IInv, TypeOK, Flow
<1>4. ~StartKthread(f)
  BY <1>2 DEF StartKthread, Runs, Open
<1>5. CASE IdleYield(f) \/ CallMask(f)
  <2>1. /\ UNCHANGED <<cpu, prog, state, via, flags, intOn, pos>>
        /\ pc' = [pc EXCEPT ![f] = "call"] \/ pc' = [pc EXCEPT ![f] = "callMasking"]
        /\ depth' = 0 => depth = 0
    BY <1>3, <1>5 DEF IdleYield, CallMask, taskVars, rrVars, maskVars
  <2> QED
    BY <1>1, <1>3, <2>1 DEF Open
<1>6. CASE CallSchedule(f)
  <2>1. /\ UNCHANGED <<prog, state, flags>> /\ pos' = "wake"
        /\ pc' = [pc EXCEPT ![f] = "run"]
        /\ via' = [via EXCEPT ![f] = IF prog[f] = "idle" THEN "call" ELSE "syscall"]
    BY <1>1, <1>6 DEF CallSchedule, EnterMasked
  <2> QED
    BY <1>3, <2>1 DEF Open
<1>7. CASE SysSleep(f)
  <2>1. intOn
    BY <1>1, <1>2, <1>7 DEF SysSleep, Runs, Open
  <2>2. /\ UNCHANGED <<prog, via, depth, pos>> /\ pc' = [pc EXCEPT ![f] = "call"]
        /\ state' = [state EXCEPT ![current] = "SLEEPING"]
        /\ flags' = [flags EXCEPT ![f] = intOn] /\ intOn' = (depth = 0)
    BY <1>7 DEF SysSleep, rrVars
  <2>3. \A t \in Task : flags'[t]
    BY <1>3, <2>1, <2>2 DEF Open
  <2>4. pos' = "out" /\ depth' = 0 => intOn'
    BY <2>2
  <2>5. ASSUME NEW t \in Task PROVE pc'[t] # "createMasking" /\ (cpu' = t => pc'[t] # "run")
    <3>1. t # f => pc'[t] = pc[t]
      BY <1>3, <2>2
    <3>2. t = f => pc'[t] = "call"
      BY <1>3, <2>2
    <3> QED
      BY <1>1, <3>1, <3>2 DEF Open
  <2>6. ASSUME NEW t \in Task
        PROVE  /\ via'[t] = "call" => prog'[t] = "idle"
               /\ state'[t] = "STOPPED" => prog'[t] = "none"
    <3>1. state'[t] = "STOPPED" => state[t] = "STOPPED"
      BY <1>3, <2>2
    <3> QED
      BY <2>2, <3>1 DEF Open
  <2> QED
    BY <2>3, <2>4, <2>5, <2>6 DEF Open
<1>8. CASE SysExit(f)
  <2>1. intOn
    BY <1>1, <1>2, <1>8 DEF SysExit, Runs, Open
  <2>2. /\ UNCHANGED prog /\ pos' = "wake" /\ pc' = [pc EXCEPT ![f] = "exited"]
        /\ state' = [state EXCEPT ![current] = "ZOMBIE"]
        /\ flags' = [flags EXCEPT ![f] = intOn] /\ via' = [via EXCEPT ![f] = "syscall"]
    BY <1>1, <1>8 DEF SysExit, EnterMasked
  <2>3. \A t \in Task : flags'[t]
    BY <1>3, <2>1, <2>2 DEF Open
  <2> QED
    BY <1>3, <2>2, <2>3 DEF Open
<1> QED
  BY <1>4, <1>5, <1>6, <1>7, <1>8 DEF InCall, StartMask

LEMMA NextOpen ==
    ASSUME ~MayStart
    PROVE  IInv /\ Own /\ Open /\ [Next]_vars => Open'
<1> SUFFICES ASSUME IInv, Own, Open, [Next]_vars PROVE Open'
  OBVIOUS
<1>0. /\ state \in [Task -> TaskState] /\ prog \in [Task -> Programs \union {"none"}]
      /\ pc \in [Flow -> Place] /\ via \in [Flow -> {"isr", "call", "syscall"}]
      /\ Boot \notin Task /\ Task \subseteq Flow
  BY SchedulerAssumption DEF IInv, TypeOK, Flow
<1>1. CASE BootStart
  <2>1. PICK t \in FreeSlots : QueueNewTask(t, BootOrder[started + 1])
    BY <1>1 DEF BootStart
  <2>2. /\ t \in Task /\ state[t] = "STOPPED"
        /\ state' = [state EXCEPT ![t] = "CREATED"]
        /\ \A u \in Task : u # t => prog'[u] = prog[u]
        /\ cpu = Boot /\ UNCHANGED <<pc, via, flags, cpu, intOn, depth, pos>>
    BY <1>0, <1>1, <2>1 DEF BootStart, FreeSlots, QueueNewTask, flowVars, rrVars, maskVars
  <2>3. via[t] # "call"
    BY <2>2 DEF Open
  <2> QED
    BY <1>0, <2>2, <2>3 DEF Open
<1>2. CASE BootEnable
  <2>1. /\ UNCHANGED <<state, prog, via, flags, cpu, pos>> /\ cpu = Boot
        /\ pc' = [pc EXCEPT ![Boot] = "run"]
        /\ depth' = depth - 1 /\ intOn' = AfterEnable(intOn)
    BY <1>2 DEF BootEnable, taskVars, rrVars
  <2>2. depth' = 0 => intOn'
    BY <2>1 DEF AfterEnable
  <2> QED
    BY <1>0, <2>1, <2>2 DEF Open
<1>3. CASE Tick
  <2>1. /\ UNCHANGED <<state, prog, pc, flags>> /\ pos' = "wake"
        /\ via' = [via EXCEPT ![cpu] = "isr"]
    BY <1>3 DEF Tick, EnterMasked
  <2> QED
    BY <1>0, <2>1 DEF Open
<1>4. CASE RoundRobin
  BY <1>4, RoundRobinOpen
<1>5. CASE UNCHANGED vars
  BY <1>5 DEF vars, taskVars, flowVars, rrVars, maskVars, Open
<1>6. ASSUME NEW f \in Flow, Halt(f) PROVE UNCHANGED vars
  BY <1>6 DEF Halt
<1> QED
  BY <1>1, <1>2, <1>3, <1>4, <1>5, <1>6, FlowOpen DEF Next, BootStep

(* ENABLE_INTERRUPTS: unless the kernel has stopped in PANIC(), interrupts *)
(* are on whenever the counter is zero, when only kernel_main creates      *)
(* threads.                                                                *)
THEOREM OpenAtZero ==
    ASSUME ~MayStart
    PROVE  Spec => [](NoPanic => UnmaskedAtZero)
<1>1. IInv /\ Open => (NoPanic => UnmaskedAtZero)
  <2> SUFFICES ASSUME IInv, Open, pos # "panic", depth = 0 PROVE intOn
    BY DEF NoPanic, UnmaskedAtZero
  <2>1. Cardinality(MaskingFlows) \in Nat
    BY MaskingFinite DEF IInv
  <2>2. pos = "out"
    BY <2>1 DEF IInv, MaskAccounting
  <2> QED
    BY <2>2 DEF Open
<1> QED
  BY <1>1, OwnHeld, InitOpen, NextOpen, PTL DEF Spec

-----------------------------------------------------------------------------
(* The tasks. *)

(* Two hypotheses of what follows.  The tick counter does not wrap before  *)
(* the sleeps end.  A sleep lasts two ticks or more: a task that sleeps    *)
(* for one tick may be woken by the tick that takes it off the CPU, and is *)
(* then both current and queued.                                           *)
Unwrapped == MaxTick < TickWord /\ \A ms \in SleepMs : MaxTick + TicksToSleep(ms) < TickWord
Long == \A ms \in SleepMs : TicksToSleep(ms) >= 2

Waiting == Queued(ready, link)

(* The ready queue is a list without repetition, of tasks that may run;    *)
(* no task is on the zombie queue, since none is ever put there.           *)
Intact ==
    /\ Chain(ready, link) /\ zombie = EmptyQueue
    /\ \A t \in Waiting : state[t] \in {"RUNNING", "CREATED"} /\ prog[t] # "none"
    /\ \A t \in sleepers : state[t] = "SLEEPING"

(* Only a worker sleeps or exits, and the slot of a task that runs is      *)
(* taken.                                                                  *)
Lives ==
    \A t \in Task : /\ state[t] \in {"SLEEPING", "ZOMBIE"} => prog[t] = "worker"
                    /\ state[t] = "STOPPED" => prog[t] = "none"
                    /\ state[t] = "RUNNING" => prog[t] # "none"
                    /\ pc[t] = "exited" => state[t] = "ZOMBIE"

(* The task in the hands of round_robin, or on the CPU, is not queued.  A  *)
(* current task that is CREATED is the one the first tick took for the     *)
(* boot flow.                                                              *)
Hands ==
    /\ pos = "out" /\ current # NULL =>
          current \notin Waiting /\ state[current] \in {"RUNNING", "SLEEPING"}
    /\ pos = "wake" =>
          /\ current \in Task /\ current \notin Waiting /\ state[current] # "STOPPED"
          /\ state[current] = "CREATED" => ctx[current] = Boot
    /\ pos = "dispatch" =>
          /\ nxt \notin Waiting /\ prog[nxt] # "none"
          /\ state[nxt] \in {"RUNNING", "CREATED"}
    /\ pos # "panic"

(* A task that can run is queued, or current, or about to be dispatched,   *)
(* or its context was overwritten by the first tick.                       *)
Found ==
    Runnable \subseteq
        Waiting \union Casualties \union {IF pos = "dispatch" THEN nxt ELSE current}

(* A current task that has gone to sleep is not due before it is off the   *)
(* CPU.                                                                    *)
Asleep ==
    /\ pos = "out" /\ current # NULL /\ state[current] = "SLEEPING" =>
          wakeTick[current] > ticks + 1
    /\ pos = "wake" /\ state[current] = "SLEEPING" => wakeTick[current] > rrTick

(* There is an idle task, which neither sleeps nor exits, before the first *)
(* tick: a pop always finds a task.                                        *)
IdleThere ==
    /\ pc[Boot] = "run" => started >= 2
    /\ started >= 2 => \E t \in Task : prog[t] = "idle"

Listed == Intact /\ Lives /\ Hands /\ Found /\ Asleep /\ IdleThere

LEMMA Types ==
    ASSUME IInv
    PROVE  /\ IsFiniteSet(Task) /\ ready \in Queue /\ link \in Links /\ current \in Pointer
           /\ state \in [Task -> TaskState] /\ prog \in [Task -> Programs \union {"none"}]
           /\ wakeTick \in [Task -> Nat] /\ ctx \in [Task -> Flow] /\ pc \in [Flow -> Place]
           /\ ticks \in Nat /\ rrTick \in Nat /\ tickArg \in [Flow -> Nat]
           /\ Boot \notin Task /\ NULL \notin Task /\ Task \subseteq Flow /\ Boot \in Flow
           /\ sleepers \subseteq Task /\ started \in Nat
           /\ (pos = "dispatch" => nxt \in Task)
  BY SchedulerAssumption, NullAssumption DEF IInv, TypeOK, NextAtHand, Flow, Pointer

LEMMA InitListed == Init => Listed
<1> SUFFICES ASSUME Init PROVE Listed
  OBVIOUS
<1>1. Chain(ready, link) /\ Waiting = {}
  <2>1. link \in Links /\ ready = EmptyQueue
    BY DEF Init, Links, Pointer
  <2> QED
    BY <2>1, SchedulerAssumption, ChainEmpty DEF Waiting
<1>2. Intact /\ Hands
  BY <1>1 DEF Init, Intact, Hands
<1>3. Lives
  BY SchedulerAssumption DEF Init, Lives, Flow
<1>4. Found /\ Asleep
  BY DEF Init, Found, Runnable, Asleep
<1>5. IdleThere
  BY DEF Init, IdleThere, Flow
<1> QED
  BY <1>2, <1>3, <1>4, <1>5 DEF Listed

(* A step that leaves tasks, queues and the block alone. *)
LEMMA StillListed ==
    ASSUME IInv, Listed,
           UNCHANGED <<state, prog, wakeTick, link, ctx, queueVars, current, nxt, pos, ticks, rrTick,
                       started>>,
           \A t \in Task : pc'[t] # "exited" \/ pc'[t] = pc[t],
           pc'[Boot] = pc[Boot] \/ started >= 2
    PROVE  Listed'
<1>1. Waiting' = Waiting /\ Runnable' = Runnable /\ Casualties' = Casualties
  BY DEF queueVars, Waiting, Runnable, Casualties
<1>2. Intact' /\ Hands' /\ Found' /\ Asleep'
  BY <1>1 DEF queueVars, Listed, Intact, Hands, Found, Asleep
<1>3. Lives' /\ IdleThere'
  BY DEF Listed, Lives, IdleThere
<1> QED
  BY <1>2, <1>3 DEF Listed

(* A STOPPED slot becomes a queued task. *)
LEMMA QueueNewListed ==
    ASSUME IInv, Own, Listed, pos = "out", pos' = "out", NEW t \in Task, state[t] = "STOPPED",
           NEW p \in Programs, QueueNewTask(t, p),
           UNCHANGED <<wakeTick, ctx, zombie, sleepers, current, ticks>>
    PROVE  /\ Intact' /\ Hands' /\ Found' /\ Asleep'
           /\ \A u \in Task : u # t => state'[u] = state[u] /\ prog'[u] = prog[u]
           /\ state'[t] = "CREATED" /\ prog'[t] = p
<1> USE Types
<1>1. /\ t \notin Waiting /\ t \notin sleepers /\ p # "none" /\ t # current
  BY DEF Listed, Intact, Hands, Programs
<1>2. /\ \A u \in Task : u # t => state'[u] = state[u] /\ prog'[u] = prog[u]
      /\ state'[t] = "CREATED" /\ prog'[t] = p
      /\ ready' = PushQueue(ready, t) /\ link' = PushLink(ready, link, t)
  BY DEF QueueNewTask
<1>3. Chain(ready', link') /\ Waiting' = Waiting \union {t}
  BY <1>1, <1>2, ChainPush DEF Listed, Intact, Waiting
<1>4. Waiting \subseteq Task
  BY ChainHead DEF Waiting, Listed, Intact
<1>5. Intact'
  BY <1>1, <1>2, <1>3, <1>4 DEF Listed, Intact
<1>6. Hands'
  BY <1>1, <1>2, <1>3 DEF Listed, Hands, Pointer
<1>7. Found'
  <2>1. Runnable' \subseteq Runnable \union {t}
    BY <1>2 DEF Runnable
  <2>2. Casualties' = Casualties
    BY DEF Casualties
  <2> QED
    BY <1>3, <2>1, <2>2 DEF Listed, Found
<1>8. Asleep'
  BY <1>1, <1>2 DEF Listed, Asleep, Pointer
<1> QED
  BY <1>2, <1>5, <1>6, <1>7, <1>8

LEMMA BootStartListed ==
    ASSUME IInv, Own, Listed, BootStart
    PROVE  Listed'
<1> USE Types
<1>1. PICK t \in FreeSlots : QueueNewTask(t, BootOrder[started + 1])
  BY DEF BootStart
<1>2. /\ t \in Task /\ state[t] = "STOPPED" /\ pos = "out" /\ pc[Boot] = "boot"
      /\ started' = started + 1 /\ BootOrder[started + 1] \in Programs
      /\ UNCHANGED <<wakeTick, ctx, zombie, sleepers, current, ticks, pos, pc>>
  <2>1. BootOrder \in Seq(Programs)
    BY SchedulerAssumption DEF BootOrder, Programs
  <2> QED
    BY <2>1 DEF BootStart, FreeSlots, flowVars, rrVars, maskVars, IInv, BootAlone, TypeOK
<1>3. /\ Intact' /\ Hands' /\ Found' /\ Asleep'
      /\ \A u \in Task : u # t => state'[u] = state[u] /\ prog'[u] = prog[u]
      /\ state'[t] = "CREATED" /\ prog'[t] = BootOrder[started + 1]
  BY <1>1, <1>2, QueueNewListed
<1>4. Lives'
  BY <1>2, <1>3 DEF Listed, Lives
<1>5. IdleThere'
  <2>1. CASE started + 1 = 2
    <3>1. prog'[t] = "idle"
      BY <1>3, <2>1, SchedulerAssumption DEF BootOrder
    <3> QED
      BY <1>2, <3>1 DEF IdleThere
  <2>2. CASE started + 1 > 2
    <3>1. PICK i \in Task : prog[i] = "idle"
      BY <2>2 DEF Listed, IdleThere
    <3>2. i # t
      BY <1>2, <3>1 DEF Listed, Lives
    <3> QED
      BY <1>2, <1>3, <3>1, <3>2 DEF IdleThere
  <2>3. CASE started + 1 < 2
    BY <1>2, <2>3 DEF IdleThere
  <2> QED
    BY <2>1, <2>2, <2>3
<1> QED
  BY <1>3, <1>4, <1>5 DEF Listed

LEMMA BootEnableListed ==
    ASSUME IInv, Listed, BootEnable
    PROVE  Listed'
<1> USE Types
<1>1. started >= 2
  <2>1. Len(BootOrder) >= 2
    BY SchedulerAssumption DEF BootOrder, Programs
  <2> QED
    BY <2>1 DEF BootEnable
<1>2. \A t \in Task : pc'[t] = pc[t]
  BY DEF BootEnable
<1> QED
  BY <1>1, <1>2, StillListed DEF BootEnable, taskVars, rrVars

(* The first tick pops the cleaner; any other tick finds a current task.   *)
LEMMA TickListed ==
    ASSUME IInv, Own, Times, MaxTick < TickWord, Listed, Tick
    PROVE  Listed'
<1> USE Types
<1>1. pos = "out" /\ pc[Boot] # "boot" /\ started > 0
  BY DEF Tick, IInv, MaskedInside, Own, BootPlace
<1>2. /\ pos' = "wake" /\ ctx' = [ctx EXCEPT ![current'] = cpu] /\ rrTick' = ticks'
      /\ UNCHANGED <<prog, state, wakeTick, sleepers, zombie, nxt, pc, started>>
  BY DEF Tick, EnterMasked
<1>3. Lives' /\ IdleThere'
  BY <1>2 DEF Listed, Lives, IdleThere
<1>4. ticks' \in Nat /\ ticks' <= ticks + 1
  <2>1. ticks' = IF ticks = MaxTick THEN ticks ELSE (ticks + 1) % TickWord
    BY DEF Tick
  <2>2. ticks <= MaxTick /\ MaxTick \in Nat /\ TickWord \in Nat
    BY SchedulerAssumption DEF Times
  <2>3. ticks # MaxTick => (ticks + 1) % TickWord = ticks + 1
    BY <2>2
  <2> QED
    BY <2>1, <2>3
<1>5. Casualties \subseteq Casualties'
  <2>1. cpu = Boot \/ (current # NULL /\ cpu = current)
    BY <1>1 DEF Own, Dawn, Runner
  <2>2. CASE cpu = Boot
    BY <1>2, <2>2 DEF Casualties
  <2>3. CASE current # NULL /\ cpu = current
    <3>1. current' = current
      BY <2>3 DEF Tick
    <3>2. ctx[current] # Boot
      BY <1>1, <2>3 DEF Own, Contexts, Lost, Pointer
    <3> QED
      BY <1>2, <3>1, <3>2 DEF Casualties
  <2> QED
    BY <2>1, <2>2, <2>3
<1>6. CASE current # NULL
  <2>1. current' = current /\ current \in Task /\ UNCHANGED <<ready, link>>
    BY <1>6 DEF Tick, Pointer
  <2>2. Waiting' = Waiting /\ Runnable' = Runnable
    BY <1>2, <2>1 DEF Waiting, Runnable
  <2>3. Intact' /\ Hands'
    BY <1>1, <1>2, <1>6, <2>1, <2>2 DEF Listed, Intact, Hands
  <2>4. Found'
    BY <1>1, <1>2, <1>5, <2>1, <2>2 DEF Listed, Found
  <2>5. Asleep'
    BY <1>1, <1>2, <1>4, <1>6, <2>1 DEF Listed, Asleep
  <2> QED
    BY <1>3, <2>3, <2>4, <2>5 DEF Listed
<1>7. CASE current = NULL
  <2> DEFINE t == ready.head
  <2>1. t \in Task /\ t # NULL /\ prog[t] = "cleaner" /\ state[t] = "CREATED" /\ cpu = Boot
    BY <1>1, <1>7 DEF Own, Dawn
  <2>2. current' = t /\ ready' = PopQueue(ready, link) /\ link' = PopLink(ready, link)
    BY <1>7, <2>1 DEF Tick
  <2>3. Chain(ready', link') /\ Waiting' = Waiting \ {t}
    BY <2>1, <2>2, ChainPop DEF Listed, Intact, Waiting
  <2>4. Intact'
    BY <1>2, <2>3 DEF Listed, Intact
  <2>5. Hands'
    BY <1>2, <2>1, <2>2, <2>3 DEF Hands
  <2>6. Runnable' = Runnable /\ ~(NULL \in Runnable)
    BY <1>2 DEF Runnable
  <2>7. Found'
    BY <1>1, <1>2, <1>5, <1>7, <2>2, <2>3, <2>6 DEF Listed, Found
  <2>8. Asleep'
    BY <1>2, <2>1, <2>2 DEF Asleep
  <2> QED
    BY <1>3, <2>4, <2>5, <2>7, <2>8 DEF Listed
<1> QED
  BY <1>6, <1>7

(* A sleeper that is due is on no list, and is not the current task.       *)
LEMMA WakeSleeperListed ==
    ASSUME IInv, Own, Listed, WakeSleeper
    PROVE  Listed'
<1> USE Types
<1>1. PICK t \in Due : EnqueueReady(t) /\ sleepers' = sleepers \ {t}
  BY DEF WakeSleeper
<1>2. t \in sleepers /\ t \in Task /\ wakeTick[t] <= rrTick /\ state[t] = "SLEEPING"
  BY DEF Due, NextSleepers, Listed, Intact
<1>3. /\ pos = "wake" /\ pos' = "wake"
      /\ UNCHANGED <<prog, wakeTick, ctx, zombie, pc, current, nxt, rrTick, ticks, started>>
      /\ ready' = PushQueue(ready, t) /\ link' = PushLink(ready, link, t)
      /\ state'[t] = "RUNNING" /\ \A u \in Task : u # t => state'[u] = state[u]
  BY <1>1, <1>2 DEF WakeSleeper, EnqueueReady, flowVars, rrVars, maskVars
<1>4. t # current
  BY <1>2, <1>3 DEF Listed, Asleep
<1>5. t \notin Waiting /\ prog[t] = "worker" /\ current \in Task
  BY <1>2, <1>3 DEF Listed, Intact, Lives, Hands
<1>6. Chain(ready', link') /\ Waiting' = Waiting \union {t} /\ Waiting \subseteq Task
  BY <1>2, <1>3, <1>5, ChainPush, ChainHead DEF Listed, Intact, Waiting
<1>7. Intact'
  BY <1>1, <1>3, <1>5, <1>6 DEF Listed, Intact
<1>8. Lives' /\ IdleThere'
  BY <1>2, <1>3, <1>5 DEF Listed, Lives, IdleThere
<1>9. Hands' /\ Asleep'
  BY <1>3, <1>4, <1>5, <1>6 DEF Listed, Hands, Asleep
<1>10. Found'
  <2>1. Runnable' \subseteq Runnable \union {t} /\ Casualties' = Casualties
    BY <1>3 DEF Runnable, Casualties
  <2> QED
    BY <1>3, <1>6, <2>1 DEF Listed, Found
<1> QED
  BY <1>7, <1>8, <1>9, <1>10 DEF Listed

(* What round_robin pops from an intact queue that is not empty.           *)
LEMMA PopNextTakes ==
    ASSUME IsFiniteSet(Task), NEW q \in Queue, NEW l \in Links, Chain(q, l),
           Queued(q, l) # {}, PopNext(q, l)
    PROVE  /\ pos' = "dispatch" /\ nxt' \in Queued(q, l)
           /\ Chain(ready', link') /\ Waiting' = Queued(q, l) \ {nxt'}
<1>1. q.head # NULL
  BY ChainHead, NullAssumption
<1>2. /\ pos' = "dispatch" /\ nxt' = q.head
      /\ ready' = PopQueue(q, l) /\ link' = PopLink(q, l)
  BY <1>1 DEF PopNext
<1> QED
  BY <1>1, <1>2, ChainPop DEF Waiting

(* The idle task, which can neither sleep nor exit, is queued or current:  *)
(* the pop finds a task.                                                   *)
LEMMA PutBackAndPopListed ==
    ASSUME IInv, Own, Listed, PutBackAndPop
    PROVE  Listed'
<1> USE Types
<1> DEFINE Back == IF state[current] = "RUNNING" THEN {current} ELSE {}
<1>1. /\ pos = "wake" /\ current \in Task /\ current # NULL /\ current \notin Waiting
      /\ UNCHANGED <<state, prog, wakeTick, ctx, zombie, sleepers, pc, rrTick, ticks, started>>
      /\ pc[Boot] # "boot" /\ pc[Boot] = "run"
  BY DEF PutBackAndPop, Listed, Hands, flowVars, maskVars, IInv, BootAlone, Own, BootPlace
<1>2. \E q \in Queue, l \in Links :
          PopNext(q, l) /\ Chain(q, l) /\ Queued(q, l) = Waiting \union Back
  <2>1. CASE state[current] = "RUNNING"
    <3>1. PopNext(PushQueue(ready, current), PushLink(ready, link, current))
      BY <1>1, <2>1 DEF PutBackAndPop
    <3>2. /\ Chain(PushQueue(ready, current), PushLink(ready, link, current))
          /\ Queued(PushQueue(ready, current), PushLink(ready, link, current))
                = Waiting \union {current}
      BY <1>1, ChainPush DEF Listed, Intact, Waiting
    <3>3. PushQueue(ready, current) \in Queue /\ PushLink(ready, link, current) \in Links
      BY <1>1, PushType
    <3> QED
      BY <2>1, <3>1, <3>2, <3>3
  <2>2. CASE state[current] # "RUNNING"
    BY <1>1, <2>2 DEF PutBackAndPop, Listed, Intact, Waiting
  <2> QED
    BY <2>1, <2>2
<1>3. PICK q \in Queue, l \in Links :
          PopNext(q, l) /\ Chain(q, l) /\ Queued(q, l) = Waiting \union Back
  BY <1>2
<1>4. Waiting \union Back # {}
  <2>1. PICK i \in Task : prog[i] = "idle"
    BY <1>1 DEF Listed, IdleThere
  <2>2. i \in Runnable /\ i \notin Casualties
    BY <2>1, SchedulerAssumption
    DEF Listed, Lives, TaskState, Runnable, Casualties, Own, Contexts, Lost
  <2>3. i = current => state[i] = "RUNNING"
    BY <1>1, <2>2 DEF Listed, Hands, Runnable, Casualties
  <2> QED
    BY <1>1, <2>2, <2>3 DEF Listed, Found
<1>5. /\ pos' = "dispatch" /\ nxt' \in Waiting \union Back
      /\ Chain(ready', link') /\ Waiting' = (Waiting \union Back) \ {nxt'}
  BY <1>3, <1>4, PopNextTakes
<1>6. \A t \in Waiting \union Back :
          t \in Task /\ state[t] \in {"RUNNING", "CREATED"} /\ prog[t] # "none"
  <2>1. Waiting \subseteq Task
    BY ChainHead DEF Listed, Intact, Waiting
  <2> QED
    BY <1>1, <2>1 DEF Listed, Intact, Lives
<1>7. Intact'
  BY <1>1, <1>5, <1>6 DEF Listed, Intact
<1>8. Lives' /\ IdleThere'
  BY <1>1 DEF Listed, Lives, IdleThere
<1>9. Hands' /\ Asleep'
  BY <1>1, <1>5, <1>6 DEF Hands, Asleep
<1>10. Found'
  <2>1. Runnable' = Runnable /\ Casualties' = Casualties
    BY <1>1 DEF Runnable, Casualties
  <2>2. current \in Runnable => current \in Back \union Casualties
    BY <1>1 DEF Listed, Hands, Runnable, Casualties
  <2> QED
    BY <1>1, <1>5, <2>1, <2>2 DEF Listed, Found
<1> QED
  BY <1>7, <1>8, <1>9, <1>10 DEF Listed

(* The popped task is dispatched at once: no queued task sleeps or has     *)
(* exited, and no flow comes back from scheduler_exit.                     *)
LEMMA DispatchListed ==
    ASSUME IInv, Own, Listed, Dispatch
    PROVE  Listed'
<1> USE Types
<1>1. /\ pos = "dispatch" /\ nxt \in Task /\ nxt # NULL /\ nxt \notin Waiting
      /\ state[nxt] \in {"RUNNING", "CREATED"} /\ prog[nxt] # "none"
      /\ UNCHANGED <<prog, wakeTick, ctx, pc, ticks, started>>
  BY DEF Dispatch, Listed, Hands
<1>2. /\ pos' = "out" /\ current' = nxt /\ UNCHANGED <<ready, link, zombie, sleepers>>
      /\ state' = [state EXCEPT ![nxt] = "RUNNING"]
  <2>1. CASE state[nxt] = "CREATED"
    BY <2>1 DEF Dispatch, StartTask
  <2>2. CASE state[nxt] = "RUNNING"
    <3>1. ResumeTask
      BY <2>2 DEF Dispatch
    <3>2. ctx[nxt] = nxt
      BY <1>1, <2>2 DEF Own, Contexts, Lost
    <3>3. pc[nxt] # "exited"
      BY <1>1, <2>2 DEF Listed, Lives
    <3> QED
      BY <1>1, <2>2, <3>1, <3>2, <3>3 DEF ResumeTask
  <2> QED
    BY <1>1, <2>1, <2>2
<1>3. Waiting' = Waiting /\ Casualties' = Casualties /\ Runnable' = Runnable
  BY <1>1, <1>2 DEF Waiting, Casualties, Runnable
<1>4. Intact'
  <2>1. \A t \in sleepers : state'[t] = "SLEEPING"
    BY <1>1, <1>2 DEF Listed, Intact
  <2>2. \A t \in Waiting : t \in Task /\ state'[t] = state[t]
    BY <1>1, <1>2, ChainHead DEF Listed, Intact, Waiting
  <2> QED
    BY <1>1, <1>2, <1>3, <2>1, <2>2 DEF Listed, Intact
<1>5. Lives' /\ IdleThere'
  BY <1>1, <1>2 DEF Listed, Lives, IdleThere
<1>6. Hands' /\ Asleep' /\ Found'
  BY <1>1, <1>2, <1>3 DEF Listed, Hands, Asleep, Found
<1> QED
  BY <1>4, <1>5, <1>6 DEF Listed

-----------------------------------------------------------------------------
(* Steps of a flow.                                                        *)
LEMMA CurrentRuns ==
    ASSUME IInv, Own, Times, Listed, NEW f \in Flow, pos = "out", cpu = f,
           pc[f] \notin {"boot", "run"} \/ f \in Task
    PROVE  /\ current = f /\ f \in Task /\ current # NULL /\ current \notin Waiting
           /\ state[f] \in {"RUNNING", "SLEEPING"}
           /\ state[f] = "SLEEPING" => pc[f] \in {"call", "callMasking"}
           /\ started >= 2
<1>1. current = f /\ f \in Task /\ current # NULL
  BY RunnerTask
<1>2. pc[Boot] = "run"
  BY <1>1, Types DEF IInv, BootAlone, Own, BootPlace
<1> QED
  BY <1>1, <1>2 DEF Listed, Hands, Times, IdleThere

LEMMA PlaceListed ==
    ASSUME IInv, Own, Times, Listed, NEW f \in Flow, IdleYield(f) \/ CallMask(f) \/ StartMask(f)
    PROVE  Listed'
<1> USE Types
<1>1. /\ cpu = f /\ pos = "out" /\ (pc[f] \notin {"boot", "run"} \/ f \in Task)
      /\ pc' = [pc EXCEPT ![f] = pc'[f]] /\ pc'[f] # "exited"
      /\ UNCHANGED <<taskVars, queueVars, rrVars, ticks, started>>
  BY DEF IdleYield, CallMask, StartMask, Runs, maskVars
<1>2. started >= 2
  BY <1>1, CurrentRuns
<1>3. \A t \in Task : pc'[t] # "exited" \/ pc'[t] = pc[t]
  BY <1>1
<1> QED
  BY <1>1, <1>2, <1>3, StillListed DEF taskVars, rrVars

(* Into the masked block of scheduler_schedule.                            *)
LEMMA CallScheduleListed ==
    ASSUME IInv, Own, Times, Listed, NEW f \in Flow, CallSchedule(f)
    PROVE  Listed'
<1> USE Types
<1>1. /\ cpu = f /\ pos = "out" /\ pc[f] = "callMasking" /\ pos' = "wake"
      /\ pc' = [pc EXCEPT ![f] = "run"] /\ ctx' = [ctx EXCEPT ![current] = cpu]
      /\ rrTick' = tickArg[f]
      /\ UNCHANGED <<state, prog, wakeTick, link, queueVars, current, nxt, ticks, started>>
  BY DEF CallSchedule, Runs, EnterMasked
<1>2. /\ current = f /\ f \in Task /\ current # NULL /\ current \notin Waiting
      /\ state[f] \in {"RUNNING", "SLEEPING"} /\ started >= 2
  BY <1>1, CurrentRuns
<1>3. ctx[f] = f
  BY <1>1, <1>2 DEF Own, Contexts, Lost
<1>4. Waiting' = Waiting /\ Runnable' = Runnable /\ Casualties' = Casualties
  BY <1>1, <1>2, <1>3 DEF queueVars, Waiting, Runnable, Casualties
<1>5. Intact' /\ Hands' /\ Found'
  BY <1>1, <1>2, <1>4 DEF queueVars, Listed, Intact, Hands, Found
<1>6. Asleep'
  BY <1>1, <1>2 DEF Listed, Asleep, Times
<1>7. Lives' /\ IdleThere'
  BY <1>1, <1>2 DEF Listed, Lives, IdleThere
<1> QED
  BY <1>5, <1>6, <1>7 DEF Listed

LEMMA SysExitListed ==
    ASSUME IInv, Own, Times, Listed, NEW f \in Flow, SysExit(f)
    PROVE  Listed'
<1> USE Types
<1>1. /\ cpu = f /\ f \in Task /\ pos = "out" /\ pc[f] = "run" /\ pos' = "wake"
      /\ prog[f] = "worker" /\ state' = [state EXCEPT ![current] = "ZOMBIE"]
      /\ pc' = [pc EXCEPT ![f] = "exited"] /\ ctx' = [ctx EXCEPT ![current] = cpu]
      /\ UNCHANGED <<prog, wakeTick, link, queueVars, current, nxt, ticks, started>>
  BY DEF SysExit, Runs, EnterMasked
<1>2. /\ current = f /\ current # NULL /\ current \notin Waiting
      /\ state[f] = "RUNNING" /\ started >= 2
  BY <1>1, CurrentRuns
<1>3. ctx[f] = f
  BY <1>1, <1>2 DEF Own, Contexts, Lost
<1>4. Waiting' = Waiting /\ Runnable' \subseteq Runnable /\ Casualties' = Casualties
  BY <1>1, <1>2, <1>3 DEF queueVars, Waiting, Runnable, Casualties
<1>5. Waiting \subseteq Task
  BY ChainHead DEF Listed, Intact, Waiting
<1>6. Intact' /\ Hands' /\ Found'
  BY <1>1, <1>2, <1>4, <1>5 DEF queueVars, Listed, Intact, Hands, Found
<1>7. Asleep'
  BY <1>1, <1>2 DEF Asleep
<1>8. Lives' /\ IdleThere'
  BY <1>1, <1>2 DEF Listed, Lives, IdleThere
<1> QED
  BY <1>6, <1>7, <1>8 DEF Listed

(* The task that goes to sleep is not due at the next tick.                *)
LEMMA SysSleepListed ==
    ASSUME Unwrapped, Long, IInv, Own, Times, Listed, NEW f \in Flow, SysSleep(f)
    PROVE  Listed'
<1> USE Types
<1>1. /\ cpu = f /\ f \in Task /\ pos = "out" /\ pc[f] = "run" /\ pos' = "out"
      /\ prog[f] = "worker" /\ state' = [state EXCEPT ![current] = "SLEEPING"]
      /\ pc' = [pc EXCEPT ![f] = "call"] /\ PushSleeper(current)
      /\ UNCHANGED <<prog, link, ctx, ready, zombie, current, nxt, ticks, started>>
  BY DEF SysSleep, Runs, rrVars
<1>2. /\ current = f /\ current # NULL /\ current \notin Waiting
      /\ state[f] = "RUNNING" /\ started >= 2
  BY <1>1, CurrentRuns
<1>3. wakeTick'[current] > ticks + 1
  <2>1. PICK ms \in SleepMs :
            wakeTick' = [wakeTick EXCEPT ![current] = (ticks + TicksToSleep(ms)) % TickWord]
    BY DEF SysSleep
  <2>2. TicksToSleep(ms) \in Nat /\ TicksToSleep(ms) >= 2
        /\ MaxTick + TicksToSleep(ms) < TickWord /\ ticks <= MaxTick
        /\ MaxTick \in Nat /\ TickWord \in Nat \ {0}
    BY SleepType, SchedulerAssumption DEF Unwrapped, Long, Times
  <2>3. (ticks + TicksToSleep(ms)) % TickWord = ticks + TicksToSleep(ms)
    BY <2>2
  <2> QED
    BY <1>1, <1>2, <2>1, <2>2, <2>3
<1>4. Waiting' = Waiting /\ Runnable' \subseteq Runnable /\ Casualties' = Casualties
  BY <1>1, <1>2 DEF Waiting, Runnable, Casualties
<1>5. Waiting \subseteq Task /\ sleepers' \subseteq sleepers \union {current}
  BY <1>1, ChainHead DEF Listed, Intact, Waiting, PushSleeper
<1>6. Intact' /\ Hands' /\ Found'
  BY <1>1, <1>2, <1>4, <1>5 DEF Listed, Intact, Hands, Found
<1>7. Asleep'
  BY <1>1, <1>3 DEF Asleep
<1>8. Lives' /\ IdleThere'
  BY <1>1, <1>2 DEF Listed, Lives, IdleThere
<1> QED
  BY <1>6, <1>7, <1>8 DEF Listed

LEMMA StartKthreadListed ==
    ASSUME IInv, Own, Times, Listed, NEW f \in Flow, StartKthread(f)
    PROVE  Listed'
<1> USE Types
<1>1. /\ cpu = f /\ pos = "out" /\ pc[f] = "createMasking" /\ pos' = "out"
      /\ pc' = [pc EXCEPT ![f] = "run"] /\ CreateKthread("worker")
      /\ UNCHANGED <<wakeTick, ctx, zombie, sleepers, current, nxt, rrTick, ticks, started>>
  BY DEF StartKthread, Runs, rrVars
<1>2. /\ current = f /\ f \in Task /\ current # NULL /\ state[f] = "RUNNING" /\ started >= 2
  BY <1>1, CurrentRuns
<1>3. CASE UNCHANGED <<state, prog, ready, link>>
  BY <1>1, <1>2, <1>3, StillListed DEF queueVars
<1>4. ASSUME NEW t \in FreeSlots, QueueNewTask(t, "worker") \/ LeakNewTask(t)
      PROVE  Listed'
  <2>1. t \in Task /\ state[t] = "STOPPED" /\ prog[t] = "none" /\ t # current
    BY <1>2 DEF FreeSlots, Listed, Lives
  <2>2. CASE QueueNewTask(t, "worker")
    <3>1. /\ Intact' /\ Hands' /\ Found' /\ Asleep'
          /\ \A u \in Task : u # t => state'[u] = state[u] /\ prog'[u] = prog[u]
          /\ state'[t] = "CREATED" /\ prog'[t] = "worker"
      BY <1>1, <2>1, <2>2, QueueNewListed DEF Programs
    <3>2. Lives'
      BY <1>1, <2>1, <3>1 DEF Listed, Lives
    <3>3. IdleThere'
      BY <1>1, <1>2, <2>1, <3>1 DEF Listed, IdleThere
    <3> QED
      BY <3>1, <3>2, <3>3 DEF Listed
  <2>3. CASE LeakNewTask(t)
    <3>1. state' = [state EXCEPT ![t] = "CREATED"] /\ UNCHANGED <<prog, ready, link>>
      BY <2>3 DEF LeakNewTask
    <3>2. Waiting' = Waiting /\ Runnable' \subseteq Runnable /\ Casualties' = Casualties
      BY <1>1, <2>1, <3>1 DEF Waiting, Runnable, Casualties
    <3>3. t \notin Waiting /\ t \notin sleepers /\ Waiting \subseteq Task
      BY <2>1, ChainHead DEF Listed, Intact, Waiting
    <3>4. Intact' /\ Hands' /\ Found' /\ Asleep'
      BY <1>1, <1>2, <2>1, <3>1, <3>2, <3>3 DEF Listed, Intact, Hands, Found, Asleep
    <3>5. Lives' /\ IdleThere'
      BY <1>1, <1>2, <2>1, <3>1 DEF Listed, Lives, IdleThere
    <3> QED
      BY <3>4, <3>5 DEF Listed
  <2> QED
    BY <1>4, <2>2, <2>3
<1> QED
  BY <1>1, <1>3, <1>4 DEF CreateKthread

LEMMA NextListed ==
    ASSUME Unwrapped, Long
    PROVE  IInv /\ Own /\ Times /\ Listed /\ [Next]_vars => Listed'
<1> SUFFICES ASSUME IInv, Own, Times, Listed, [Next]_vars PROVE Listed'
  OBVIOUS
<1>1. CASE BootStep
  BY <1>1, BootStartListed, BootEnableListed DEF BootStep
<1>2. CASE Tick
  BY <1>2, TickListed DEF Unwrapped
<1>3. CASE RoundRobin
  BY <1>3, WakeSleeperListed, PutBackAndPopListed, DispatchListed DEF RoundRobin
<1>4. CASE UNCHANGED vars
  BY <1>4, StillListed DEF vars, taskVars, flowVars, rrVars, maskVars
<1>5. ASSUME NEW f \in Flow, Halt(f) PROVE UNCHANGED vars
  BY <1>5 DEF Halt
<1>6. ASSUME NEW f \in Flow, IdleYield(f) \/ InCall(f) \/ StartMask(f) PROVE Listed'
  BY <1>6, PlaceListed, CallScheduleListed, StartKthreadListed DEF InCall
<1>7. ASSUME NEW f \in Flow, SysSleep(f) \/ SysExit(f) PROVE Listed'
  BY <1>7, SysSleepListed, SysExitListed
<1> QED
  BY <1>1, <1>2, <1>3, <1>4, <1>5, <1>6, <1>7 DEF Next

LEMMA ListedHeld ==
    ASSUME Unwrapped, Long
    PROVE  Spec => [](IInv /\ Own /\ Times /\ Listed)
<1>1. IInv /\ Own /\ Times /\ [Next]_vars => Times'
  BY NextTimes DEF Unwrapped
<1>2. IInv /\ Own /\ Times /\ Listed /\ [Next]_vars => Listed'
  BY NextListed
<1> QED
  BY <1>1, <1>2, OwnHeld, InitTimes, InitListed, PTL DEF Spec

-----------------------------------------------------------------------------
(* enqueue_ready, round_robin: a task that may run is the current one or   *)
(* is found by a walk of the ready queue, although the links are shared    *)
(* and whoever sleeps, exits or is preempted; only the task that the first *)
(* tick took for the boot flow is lost.  Holds when no sleep lasts a       *)
(* single tick.                                                            *)
THEOREM NothingLost ==
    ASSUME Unwrapped, Long
    PROVE  Spec => []NoLostTask
<1>1. Listed => NoLostTask
  BY DEF Listed, Found, NoLostTask, Waiting
<1> QED
  BY <1>1, ListedHeld, PTL

(* round_robin: the task that executes is not queued as well, no sleeper   *)
(* is queued as runnable, nobody is back from sleep() and still in the     *)
(* sleep queue, and the zombie queue stays empty.                          *)
THEOREM OnePlaceEach ==
    ASSUME Unwrapped, Long
    PROVE  Spec => []OnePlace
<1>1. IInv /\ Times /\ Listed => OnePlace
  <2> SUFFICES ASSUME IInv, Times, Listed, pos = "out"
               PROVE  /\ zombie.head = NULL
                      /\ current \notin Waiting
                      /\ sleepers \intersect Waiting = {}
                      /\ \A t \in sleepers : state[t] = "SLEEPING" /\ ~Runs(t, "run")
    BY DEF OnePlace, Waiting
  <2>1. Waiting \subseteq Task /\ NULL \notin Task /\ sleepers \subseteq Task
    BY Types, ChainHead DEF Listed, Intact, Waiting
  <2>2. zombie.head = NULL
    BY DEF Listed, Intact, EmptyQueue
  <2>3. current \notin Waiting
    BY <2>1 DEF Listed, Hands
  <2>4. sleepers \intersect Waiting = {}
    BY DEF Listed, Intact
  <2>5. \A t \in sleepers : state[t] = "SLEEPING" /\ ~Runs(t, "run")
    BY <2>1 DEF Listed, Intact, Times, Runs
  <2> QED
    BY <2>2, <2>3, <2>4, <2>5
<1> QED
  BY <1>1, ListedHeld, PTL

(* round_robin, kthread_entry: neither PANIC() is reached, the pop always  *)
(* finds a task (the idle task can neither sleep nor exit) and no task     *)
(* runs again after exit().                                                *)
THEOREM NeverPanics ==
    ASSUME Unwrapped, Long
    PROVE  Spec => []NoPanic
<1>1. Listed => NoPanic
  BY DEF Listed, Hands, NoPanic
<1> QED
  BY <1>1, ListedHeld, PTL

-----------------------------------------------------------------------------
(* Room in the sleep queue.  Only workers sleep, and when kernel_main      *)
(* alone creates threads there are no more of them than it started.        *)
Workers == {t \in Task : prog[t] = "worker"}
WorkersStarted(n) == {i \in 1 .. n : BootOrder[i] = "worker"}

Roomy == Cardinality(WorkersStarted(Len(BootOrder))) <= MAX_SLEEP_TASKS

Held ==
    /\ Cardinality(Workers) <= Cardinality(WorkersStarted(started))
    /\ SleeperHeld

LEMMA CountWorkers ==
    ASSUME NEW n \in Nat
    PROVE  /\ IsFiniteSet(Workers) /\ Cardinality(Workers) \in Nat
           /\ IsFiniteSet(WorkersStarted(n)) /\ Cardinality(WorkersStarted(n)) \in Nat
<1>1. IsFiniteSet(Workers)
  BY SchedulerAssumption, FS_Subset DEF Workers
<1>2. IsFiniteSet(WorkersStarted(n))
  <2>1. IsFiniteSet(1 .. n) /\ WorkersStarted(n) \subseteq 1 .. n
    BY FS_Interval DEF WorkersStarted
  <2> QED
    BY <2>1, FS_Subset
<1> QED
  BY <1>1, <1>2, FS_CardinalityType

LEMMA InitHeld == Init => Held
<1> SUFFICES ASSUME Init PROVE Held
  OBVIOUS
<1>1. Workers = {} /\ started = 0
  BY DEF Init, Workers
<1>2. Cardinality(WorkersStarted(0)) \in Nat
  BY CountWorkers
<1> QED
  BY <1>1, <1>2, FS_EmptySet DEF Init, Held, SleeperHeld

LEMMA BootStartHeld ==
    ASSUME IInv, Listed, Held, BootStart
    PROVE  Held'
<1> USE Types
<1>1. PICK t \in FreeSlots : QueueNewTask(t, BootOrder[started + 1])
  BY DEF BootStart
<1>2. /\ t \in Task /\ state[t] = "STOPPED" /\ prog[t] = "none"
      /\ state' = [state EXCEPT ![t] = "CREATED"]
      /\ prog' = [prog EXCEPT ![t] = BootOrder[started + 1]]
      /\ started' = started + 1 /\ sleepers' = sleepers
  BY <1>1 DEF BootStart, FreeSlots, QueueNewTask, Listed, Lives
<1>3. SleeperHeld'
  BY <1>2 DEF Held, SleeperHeld
<1>4. started + 1 \in Nat /\ WorkersStarted(started) \subseteq WorkersStarted(started + 1)
  BY DEF WorkersStarted
<1>5. CASE BootOrder[started + 1] = "worker"
  <2>1. Workers' = Workers \union {t} /\ t \notin Workers
    BY <1>2, <1>5 DEF Workers
  <2>2. /\ WorkersStarted(started + 1) = WorkersStarted(started) \union {started + 1}
        /\ started + 1 \notin WorkersStarted(started)
    BY <1>5 DEF WorkersStarted
  <2>3. Cardinality(Workers') = Cardinality(Workers) + 1
    BY <2>1, CountWorkers, FS_AddElement
  <2>4. Cardinality(WorkersStarted(started + 1)) = Cardinality(WorkersStarted(started)) + 1
    BY <2>2, CountWorkers, FS_AddElement
  <2>5. Cardinality(Workers') <= Cardinality(WorkersStarted(started'))
    BY <1>2, <2>3, <2>4, CountWorkers DEF Held
  <2> QED
    BY <1>3, <2>5 DEF Held
<1>6. CASE BootOrder[started + 1] # "worker"
  <2>1. Workers' = Workers
    BY <1>2, <1>6 DEF Workers
  <2>2. Cardinality(WorkersStarted(started)) <= Cardinality(WorkersStarted(started + 1))
    BY <1>4, CountWorkers, FS_Subset
  <2>3. Cardinality(Workers') <= Cardinality(WorkersStarted(started + 1))
    BY <1>4, <2>1, <2>2, CountWorkers DEF Held
  <2> QED
    BY <1>2, <1>3, <2>3 DEF Held
<1> QED
  BY <1>5, <1>6

(* The task that goes to sleep is a worker outside the queue: there is a   *)
(* place for it.                                                           *)
LEMMA SysSleepHeld ==
    ASSUME Roomy, IInv, Own, Times, Listed, Held, NEW f \in Flow, SysSleep(f)
    PROVE  Held'
<1> USE Types
<1>1. /\ cpu = f /\ f \in Task /\ pos = "out" /\ pc[f] = "run" /\ prog[f] = "worker"
      /\ state' = [state EXCEPT ![current] = "SLEEPING"] /\ PushSleeper(current)
      /\ UNCHANGED <<prog, started>>
  BY DEF SysSleep, Runs
<1>2. current = f /\ state[f] = "RUNNING"
  BY <1>1, CurrentRuns
<1>3. Cardinality(sleepers) # MAX_SLEEP_TASKS
  <2>1. sleepers \subseteq Workers \ {f} /\ f \in Workers
    BY <1>1, <1>2 DEF Listed, Intact, Lives, Workers
  <2>2. /\ IsFiniteSet(Workers \ {f})
        /\ Cardinality(Workers \ {f}) = Cardinality(Workers) - 1
    BY <2>1, CountWorkers, FS_RemoveElement
  <2>3. Cardinality(sleepers) <= Cardinality(Workers) - 1 /\ Cardinality(sleepers) \in Nat
    BY <2>1, <2>2, FS_Subset, FS_CardinalityType
  <2>4. WorkersStarted(started) \subseteq WorkersStarted(Len(BootOrder))
        /\ Len(BootOrder) \in Nat
    <3>1. BootOrder \in Seq(Programs)
      BY SchedulerAssumption DEF BootOrder, Programs
    <3> QED
      BY <3>1 DEF WorkersStarted, IInv, TypeOK
  <2>5. Cardinality(WorkersStarted(started)) <= Cardinality(WorkersStarted(Len(BootOrder)))
    BY <2>4, CountWorkers, FS_Subset
  <2>6. MAX_SLEEP_TASKS \in Nat /\ Cardinality(Workers) \in Nat
        /\ Cardinality(WorkersStarted(started)) \in Nat
        /\ Cardinality(WorkersStarted(Len(BootOrder))) \in Nat
    BY <2>4, CountWorkers, SchedulerAssumption
  <2> QED
    BY <2>3, <2>5, <2>6 DEF Held, Roomy
<1>4. sleepers' = sleepers \union {current}
  BY <1>1, <1>3 DEF PushSleeper
<1>5. Workers' = Workers
  BY <1>1 DEF Workers
<1> QED
  BY <1>1, <1>2, <1>4, <1>5 DEF Held, SleeperHeld

LEMMA NextHeld ==
    ASSUME ~MayStart, Roomy
    PROVE  IInv /\ Own /\ Times /\ Listed /\ Open /\ Held /\ [Next]_vars => Held'
<1> SUFFICES ASSUME IInv, Own, Times, Listed, Open, Held, [Next]_vars PROVE Held'
  OBVIOUS
<1> USE Types
<1>1. ASSUME UNCHANGED <<prog, started>>,
             \A t \in Task : state'[t] = "SLEEPING" => state[t] = "SLEEPING" /\ t \in sleepers'
      PROVE  Held'
  <2>1. Workers' = Workers
    BY <1>1 DEF Workers
  <2> QED
    BY <1>1, <2>1 DEF Held, SleeperHeld
<1>2. CASE BootEnable
  BY <1>1, <1>2 DEF BootEnable, taskVars, queueVars, Held, SleeperHeld
<1>3. CASE Tick
  BY <1>1, <1>3 DEF Tick, Held, SleeperHeld
<1>4. CASE WakeSleeper
  <2>1. PICK t \in Due : EnqueueReady(t) /\ sleepers' = sleepers \ {t}
    BY <1>4 DEF WakeSleeper
  <2>2. t \in Task /\ UNCHANGED <<prog, started>>
    BY <1>4 DEF Due, NextSleepers, WakeSleeper
  <2>3. state'[t] # "SLEEPING" /\ \A u \in Task : u # t => state'[u] = state[u]
    BY <2>1, <2>2 DEF EnqueueReady
  <2> QED
    BY <1>1, <2>1, <2>2, <2>3 DEF Held, SleeperHeld
<1>5. CASE PutBackAndPop
  BY <1>1, <1>5 DEF PutBackAndPop, Held, SleeperHeld
<1>6. CASE Dispatch
  <2>1. state[nxt] \in {"RUNNING", "CREATED"} /\ nxt \in Task
    BY <1>6 DEF Dispatch, Listed, Hands
  <2>2. StartTask \/ ResumeTask
    BY <1>6, <2>1 DEF Dispatch
  <2>3. /\ UNCHANGED <<prog, started, sleepers>>
        /\ state' = state \/ state' = [state EXCEPT ![nxt] = "RUNNING"]
    BY <1>6, <2>2 DEF Dispatch, StartTask, ResumeTask
  <2> QED
    BY <1>1, <2>1, <2>3 DEF Held, SleeperHeld
<1>7. CASE UNCHANGED vars
  BY <1>1, <1>7 DEF vars, taskVars, queueVars, Held, SleeperHeld
<1>8. ASSUME NEW f \in Flow, Halt(f) PROVE UNCHANGED vars
  BY <1>8 DEF Halt
<1>9. ASSUME NEW f \in Flow, IdleYield(f) \/ CallMask(f) \/ CallSchedule(f) PROVE Held'
  BY <1>1, <1>9 DEF IdleYield, CallMask, CallSchedule, taskVars, queueVars, Held, SleeperHeld
<1>10. ASSUME NEW f \in Flow, StartMask(f) \/ StartKthread(f) PROVE FALSE
  <2>1. StartKthread(f) /\ cpu = f /\ pos = "out" /\ pc[f] = "createMasking"
    BY <1>10 DEF StartMask, StartKthread, Runs
  <2> QED
    BY <2>1, RunnerTask DEF Open
<1>11. ASSUME NEW f \in Flow, SysExit(f) PROVE Held'
  BY <1>1, <1>11 DEF SysExit, queueVars, Held, SleeperHeld
<1> QED
  BY <1>2, <1>3, <1>4, <1>5, <1>6, <1>7, <1>8, <1>9, <1>10, <1>11, BootStartHeld, SysSleepHeld
  DEF Next, BootStep, RoundRobin, InCall

(* sleep_queue_push: the heap never drops a task, when it has a place for  *)
(* every thread that kernel_main starts and that may sleep.                *)
THEOREM NoSleeperDropped ==
    ASSUME ~MayStart, Roomy, Unwrapped, Long
    PROVE  Spec => []SleeperHeld
<1>1. Held => SleeperHeld
  BY DEF Held
<1>2. IInv /\ Own /\ Open /\ [Next]_vars => Open'
  BY NextOpen
<1>3. IInv /\ Own /\ Times /\ Listed /\ Open /\ Held /\ [Next]_vars => Held'
  BY NextHeld
<1> QED
  BY <1>1, <1>2, <1>3, ListedHeld, InitOpen, InitHeld, PTL DEF Spec

(* ENABLE_INTERRUPTS: with depth at zero interrupts are on, when only      *)
(* kernel_main creates threads.                                            *)
THEOREM AlwaysOpenAtZero ==
    ASSUME ~MayStart, Unwrapped, Long
    PROVE  Spec => []UnmaskedAtZero
<1>1. NoPanic /\ (NoPanic => UnmaskedAtZero) => UnmaskedAtZero
  OBVIOUS
<1> QED
  BY <1>1, OpenAtZero, NeverPanics, PTL
=============================================================================
