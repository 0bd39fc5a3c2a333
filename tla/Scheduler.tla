----------------------------- MODULE Scheduler ------------------------------
(***************************************************************************)
(* The round-robin scheduler of the kernel (scheduler.c), the interrupt    *)
(* masking it rests on (util.h), the timer interrupt that drives it        *)
(* (programable-interval-timer.c, interrupts.s), thread creation (task.c)  *)
(* and the boot path that starts it (kernel-main.c).                       *)
(*                                                                         *)
(* There is one CPU.  A FLOW is a thread of control with its own stack:    *)
(* one per task, and Boot, the flow that runs kernel_main and then halts.  *)
(* `cpu' is the flow that executes; `current' is current_tasks[0], what    *)
(* the kernel believes executes.  A flow can be interrupted exactly when   *)
(* IF is set, so everything between a cli and the next sti is split only   *)
(* where its own loops take a step.                                        *)
(*                                                                         *)
(* `pos' is the position inside the masked block of scheduler_schedule or  *)
(* scheduler_exit:                                                         *)
(*   "out"       not inside                                                *)
(*   "wake"      in round_robin, before the current task is put back       *)
(*   "dispatch"  in round_robin, a task `nxt' is popped                    *)
(*   "panic"     PANIC(): cli and an endless loop                          *)
(***************************************************************************)
EXTENDS Integers, FiniteSets, Sequences, TaskList

CONSTANTS
    MAX_SLEEP_TASKS,  \* capacity of the sleep queue (128 in scheduler.c)
    KernelThreads,    \* the threads kernel_main starts after scheduler_init
    SleepMs,          \* the arguments workers pass to sleep()
    Hz,               \* timer frequency (500 in kernel_main)
    Word,             \* uint32_t arithmetic is modulo Word ...
    TickWord,         \* ... and the tick counter is modulo TickWord
    MaxTick,          \* bound: the counter stops at MaxTick (none if >= TickWord)
    MayStart,         \* whether workers call kthread_start themselves
    Boot              \* the flow of kernel_main

Programs == {"cleaner", "idle", "colin", "worker"}

ASSUME SchedulerAssumption ==
    /\ Task \subseteq Nat /\ IsFiniteSet(Task)   \* indices of task_table
    /\ Boot \notin Task
    /\ MAX_SLEEP_TASKS \in Nat
    /\ KernelThreads \in Seq(Programs)
    /\ SleepMs \subseteq Nat /\ Hz \in Nat
    /\ Word \in Nat \ {0} /\ TickWord \in Nat \ {0} /\ MaxTick \in Nat
    /\ MayStart \in BOOLEAN

Flow == Task \union {Boot}
TaskState == {"STOPPED", "RUNNING", "CREATED", "SLEEPING", "ZOMBIE"}

VARIABLES
    state,     \* task_t.state
    prog,      \* the registered thread a task runs (thread_eip), "none" if unset
    wakeTick,  \* task_t.wake_tick
    link,      \* task_t.next
    ctx,       \* task_t.ctx: the flow whose registers are saved there
    ready,     \* ready_queue
    zombie,    \* zombie_queue
    sleepers,  \* sleep_queue, as the set of tasks in the heap
    current,   \* current_tasks[0]
    cpu,       \* the flow that executes
    pc,        \* where a flow is in its own code
    via,       \* how the last switch of a flow returns: "isr", "call", "syscall"
    flags,     \* the IF that a flow's system call will restore
    tickArg,   \* the tick argument a flow will hand to scheduler_schedule
    rrTick,    \* the tick argument of the running round_robin (0 when none runs)
    nxt,       \* `next' of the running round_robin
    pos,       \* position in the masked block
    depth,     \* system_interrupt_disable_counter
    intOn,     \* the interrupt flag of the CPU
    ticks,     \* the tick counter of the timer
    started    \* how many threads kernel_main has started

taskVars == <<state, prog, wakeTick, link, ctx>>
queueVars == <<ready, zombie, sleepers>>
flowVars == <<cpu, pc, via, flags, tickArg>>
rrVars == <<current, rrTick, nxt, pos>>
maskVars == <<depth, intOn, ticks>>
vars == <<taskVars, queueVars, flowVars, rrVars, maskVars, started>>

-----------------------------------------------------------------------------
(* Positions of a flow in its own code.  In the two "masking" positions    *)
(* the flow has executed system_interrupt_disable_counter++ and not yet    *)
(* the cli after it: DISABLE_INTERRUPTS is two instructions.               *)
Masking == {"callMasking", "createMasking"}
Place == {"boot", "run", "call", "exited"} \union Masking

BootOrder == <<"cleaner", "idle">> \o KernelThreads

Init ==
    /\ state = [t \in Task |-> "STOPPED"]
    /\ prog = [t \in Task |-> "none"]
    /\ wakeTick = [t \in Task |-> 0]
    /\ link = [t \in Task |-> NULL]
    /\ ctx = [t \in Task |-> t]
    /\ ready = EmptyQueue /\ zombie = EmptyQueue /\ sleepers = {}
    /\ current = NULL
    /\ cpu = Boot
    /\ pc = [f \in Flow |-> IF f = Boot THEN "boot" ELSE "run"]
    /\ via = [f \in Flow |-> "isr"]
    /\ flags = [f \in Flow |-> TRUE]
    /\ tickArg = [f \in Flow |-> 0]
    /\ rrTick = 0 /\ nxt = NULL /\ pos = "out"
    /\ depth = 1 /\ intOn = FALSE   \* kernel_main begins with DISABLE_INTERRUPTS
    /\ ticks = 0
    /\ started = 0

-----------------------------------------------------------------------------
(* A definition with a suffix _Bug... is a variant of the definition it     *)
(* precedes, with a fault the code could well have had.  No specification  *)
(* uses it; substituting it shows which property notices the fault.        *)

(* enqueue_ready(t): anything but a CREATED task becomes RUNNING. *)
EnqueueReady(t) ==
    /\ state' = [state EXCEPT ![t] = IF @ = "CREATED" THEN @ ELSE "RUNNING"]
    /\ ready' = PushQueue(ready, t)
    /\ link' = PushLink(ready, link, t)

PushSleeper_BugFull(t) ==   \* the last place of the heap is never used
    sleepers' = IF Cardinality(sleepers) + 1 = MAX_SLEEP_TASKS
                THEN sleepers ELSE sleepers \union {t}

(* sleep_queue_push: a full heap drops the task without a word. *)
PushSleeper(t) ==
    sleepers' = IF Cardinality(sleepers) = MAX_SLEEP_TASKS
                THEN sleepers ELSE sleepers \union {t}

(* The tasks sleep_queue_peek may return: those with the least wake_tick.  *)
(* Which of several equals is at the root of the heap is left open.        *)
NextSleepers == {t \in sleepers : \A u \in sleepers : wakeTick[t] <= wakeTick[u]}

Due_BugEarly == {t \in NextSleepers : wakeTick[t] <= rrTick + 1}   \* off by one

Due == {t \in NextSleepers : wakeTick[t] <= rrTick}

(* ms * hz and tick_now + ticks_to_sleep are uint32_t expressions. *)
TicksToSleep(ms) ==
    LET n == ((ms * Hz) % Word) \div 1000 IN IF n = 0 THEN 1 ELSE n

AfterEnable_BugOrder(f) == IF depth = 0 THEN TRUE ELSE f   \* tested, then decremented

(* ENABLE_INTERRUPTS by a flow whose IF was f: sti only at depth 0. *)
AfterEnable(f) == IF depth - 1 = 0 THEN TRUE ELSE f

EnterMasked_BugCli(cur, w, tick) ==   \* the counter without the cli
    /\ ctx' = [ctx EXCEPT ![cur] = cpu]
    /\ via' = [via EXCEPT ![cpu] = w]
    /\ rrTick' = tick
    /\ pos' = "wake"
    /\ UNCHANGED intOn

(* INTERRUPT_SAFE_BLOCK in scheduler_schedule and scheduler_exit, up to    *)
(* round_robin: the calling flow is saved in the context of the current    *)
(* task, and w is how it will return when it is restored.                  *)
EnterMasked(cur, w, tick) ==
    /\ ctx' = [ctx EXCEPT ![cur] = cpu]
    /\ via' = [via EXCEPT ![cpu] = w]
    /\ rrTick' = tick
    /\ pos' = "wake"
    /\ intOn' = FALSE

-----------------------------------------------------------------------------
(* task_create_kthread, called with interrupts off.  The slot is marked    *)
(* CREATED before the stack is allocated: when that fails the slot stays   *)
(* taken, and the task is on no queue.                                     *)
FreeSlots == {t \in Task : state[t] = "STOPPED"}

QueueNewTask(t, p) ==
    /\ state' = [state EXCEPT ![t] = "CREATED"]
    /\ prog' = [prog EXCEPT ![t] = p]
    /\ ready' = PushQueue(ready, t)
    /\ link' = PushLink(ready, link, t)

LeakNewTask(t) ==
    /\ state' = [state EXCEPT ![t] = "CREATED"]
    /\ UNCHANGED <<prog, ready, link>>

CreateKthread(p) ==
    \/ /\ FreeSlots = {}
       /\ UNCHANGED <<state, prog, ready, link>>
    \/ \E t \in FreeSlots :
          /\ \A u \in FreeSlots : t <= u
          /\ QueueNewTask(t, p) \/ LeakNewTask(t)

-----------------------------------------------------------------------------
(* The boot flow.  It holds depth at 1 from its first line to its last, so *)
(* the nested kthread_start calls never reach sti.                         *)

(* scheduler_init starts the cleaner and then the idle thread, kernel_main *)
(* the others.  The boot heap is large enough for their stacks.            *)
BootStart ==
    /\ cpu = Boot /\ pc[Boot] = "boot" /\ started < Len(BootOrder)
    /\ \E t \in FreeSlots :
          /\ \A u \in FreeSlots : t <= u
          /\ QueueNewTask(t, BootOrder[started + 1])
    /\ started' = started + 1
    /\ UNCHANGED <<wakeTick, ctx, zombie, sleepers, flowVars, rrVars, maskVars>>

(* ENABLE_INTERRUPTS ends kernel_main; boot.s then halts for ever. *)
BootEnable ==
    /\ cpu = Boot /\ pc[Boot] = "boot" /\ started = Len(BootOrder)
    /\ pc' = [pc EXCEPT ![Boot] = "run"]
    /\ depth' = depth - 1
    /\ intOn' = AfterEnable(intOn)
    /\ UNCHANGED <<taskVars, queueVars, cpu, via, flags, tickArg, rrVars, ticks,
                   started>>

-----------------------------------------------------------------------------
(* The timer interrupt: timer_handle, then scheduler_schedule as its       *)
(* handle.  The gate clears IF, so no step of another flow can fall in     *)
(* between.  The first tick finds current = NULL and takes the head of the *)
(* ready queue for the flow it interrupted.  At the bound MaxTick the      *)
(* timer still interrupts but no longer counts, and no sleep that would    *)
(* end later begins.                                                       *)
Tick ==
    /\ intOn
    /\ ticks' = IF ticks = MaxTick THEN ticks ELSE (ticks + 1) % TickWord
    /\ IF current = NULL
       THEN /\ current' = ready.head
            /\ IF ready.head = NULL
               THEN UNCHANGED <<ready, link>>
               ELSE /\ ready' = PopQueue(ready, link)
                    /\ link' = PopLink(ready, link)
       ELSE UNCHANGED <<current, ready, link>>
    /\ depth' = depth + 1
    /\ EnterMasked(current', "isr", ticks')
    /\ UNCHANGED <<state, prog, wakeTick, zombie, sleepers, cpu, pc, flags, tickArg,
                   nxt, started>>

-----------------------------------------------------------------------------
(* round_robin, one iteration of a loop at a time. *)

WakeSleeper_BugPop ==   \* all that are due are popped, one is queued
    /\ pos = "wake"
    /\ \E t \in Due : EnqueueReady(t) /\ sleepers' = sleepers \ Due
    /\ UNCHANGED <<prog, wakeTick, ctx, zombie, flowVars, rrVars, maskVars, started>>

(* The first loop: a sleeper whose time has come goes to the ready queue. *)
WakeSleeper ==
    /\ pos = "wake"
    /\ \E t \in Due : EnqueueReady(t) /\ sleepers' = sleepers \ {t}
    /\ UNCHANGED <<prog, wakeTick, ctx, zombie, flowVars, rrVars, maskVars, started>>

(* The pop that follows, on queue q with links l. *)
PopNext(q, l) ==
    /\ nxt' = q.head
    /\ IF q.head = NULL
       THEN ready' = q /\ link' = l /\ pos' = "panic"
       ELSE ready' = PopQueue(q, l) /\ link' = PopLink(q, l) /\ pos' = "dispatch"

PutBackAndPop_BugKeep ==   \* a RUNNING task is not queued behind the others
    /\ pos = "wake" /\ Due = {}
    /\ IF current # NULL /\ state[current] = "RUNNING"
       THEN current' = NULL /\ nxt' = current /\ pos' = "dispatch" /\ UNCHANGED <<ready, link>>
       ELSE UNCHANGED current /\ PopNext(ready, link)
    /\ UNCHANGED <<state, prog, wakeTick, ctx, zombie, sleepers, flowVars, rrTick,
                   maskVars, started>>

(* The current task goes back to the queue only if it is still RUNNING. *)
PutBackAndPop ==
    /\ pos = "wake" /\ Due = {}
    /\ IF current # NULL /\ state[current] = "RUNNING"
       THEN /\ current' = NULL
            /\ PopNext(PushQueue(ready, current), PushLink(ready, link, current))
       ELSE /\ UNCHANGED current
            /\ PopNext(ready, link)
    /\ UNCHANGED <<state, prog, wakeTick, ctx, zombie, sleepers, flowVars, rrTick,
                   maskVars, started>>

(* task_start_impl: the task begins in kthread_entry with IF set; the      *)
(* depth taken by whoever called round_robin is given back here.           *)
StartTask ==
    /\ state' = [state EXCEPT ![nxt] = "RUNNING"]
    /\ current' = nxt /\ cpu' = nxt
    /\ depth' = depth - 1 /\ intOn' = TRUE
    /\ pos' = "out" /\ nxt' = NULL /\ rrTick' = 0
    /\ UNCHANGED <<ready, zombie, sleepers, link>>

(* The flow saved for the task continues behind _task_restore_context with *)
(* ENABLE_INTERRUPTS, and returns: an interrupted flow by iret to code     *)
(* that had IF set, a system call by iret to the flags of its caller.      *)
ReturnIF(f) ==
    CASE via[f] = "isr" -> TRUE
      [] via[f] = "syscall" -> flags[f]
      [] OTHER -> AfterEnable(FALSE)

ResumeTask_BugStale ==   \* current_tasks[0] is set only if it was cleared
    /\ current' = (IF current = NULL THEN nxt ELSE current)
    /\ cpu' = ctx[nxt]
    /\ depth' = depth - 1 /\ intOn' = (pc[cpu'] # "exited" /\ ReturnIF(cpu'))
    /\ pos' = IF pc[cpu'] = "exited" THEN "panic" ELSE "out"
    /\ nxt' = NULL /\ rrTick' = 0
    /\ UNCHANGED <<state, ready, zombie, sleepers, link>>

(* A flow that comes back from scheduler_exit runs off the end of its      *)
(* entry routine into the PANIC() of kthread_entry.                        *)
ResumeTask ==
    /\ current' = nxt /\ cpu' = ctx[nxt]
    /\ depth' = depth - 1 /\ intOn' = (pc[cpu'] # "exited" /\ ReturnIF(cpu'))
    /\ pos' = IF pc[cpu'] = "exited" THEN "panic" ELSE "out"
    /\ nxt' = NULL /\ rrTick' = 0
    /\ UNCHANGED <<state, ready, zombie, sleepers, link>>

(* A popped task in any other state goes where its state says, and the     *)
(* next one is popped.                                                     *)
DivertTask ==
    /\ CASE state[nxt] = "ZOMBIE" ->
              /\ zombie' = PushQueue(zombie, nxt)
              /\ PopNext(ready, PushLink(zombie, link, nxt))
              /\ UNCHANGED <<state, sleepers>>
         [] state[nxt] = "SLEEPING" ->
              /\ PushSleeper(nxt)
              /\ PopNext(ready, link)
              /\ UNCHANGED <<state, zombie>>
         [] OTHER ->
              /\ state' = [state EXCEPT ![nxt] = "RUNNING"]
              /\ PopNext(PushQueue(ready, nxt), PushLink(ready, link, nxt))
              /\ UNCHANGED <<zombie, sleepers>>
    /\ UNCHANGED <<cpu, current, depth, intOn, rrTick>>

Dispatch ==
    /\ pos = "dispatch"
    /\ CASE state[nxt] = "CREATED" -> StartTask
         [] state[nxt] = "RUNNING" -> ResumeTask
         [] OTHER -> DivertTask
    /\ UNCHANGED <<prog, wakeTick, ctx, pc, via, flags, tickArg, ticks, started>>

-----------------------------------------------------------------------------
(* What a flow does between two interrupts. *)
Runs(f, p) == cpu = f /\ pos = "out" /\ pc[f] = p

(* The loops of kernel_colin, of the cleaner, whose queue is empty, and of *)
(* boot.s: hlt, until an interrupt comes, or for ever if IF is clear.      *)
Halting ==
    {Boot} \union {t \in Task : prog[t] = "colin" \/ (prog[t] = "cleaner" /\ zombie.head = NULL)}

Halt(f) == Runs(f, "run") /\ f \in Halting /\ UNCHANGED vars

(* scheduler_yield, called by kthread_idle: the tick is read first ...     *)
IdleYield(f) ==
    /\ Runs(f, "run") /\ f \in Task /\ prog[f] = "idle"
    /\ tickArg' = [tickArg EXCEPT ![f] = ticks]
    /\ pc' = [pc EXCEPT ![f] = "call"]
    /\ UNCHANGED <<taskVars, queueVars, cpu, via, flags, rrVars, maskVars, started>>

(* ... then scheduler_schedule masks interrupts, in two instructions.      *)
CallMask(f) ==
    /\ Runs(f, "call")
    /\ pc' = [pc EXCEPT ![f] = "callMasking"]
    /\ depth' = depth + 1
    /\ UNCHANGED <<taskVars, queueVars, cpu, via, flags, tickArg, rrVars, intOn, ticks, started>>

CallSchedule(f) ==
    /\ Runs(f, "callMasking")
    /\ pc' = [pc EXCEPT ![f] = "run"]
    /\ EnterMasked(current, IF prog[f] = "idle" THEN "call" ELSE "syscall", tickArg[f])
    /\ tickArg' = [tickArg EXCEPT ![f] = 0]
    /\ UNCHANGED <<state, prog, wakeTick, link, queueVars, cpu, flags, current, nxt, depth,
                   ticks, started>>

SysSleep_BugState(f) ==   \* in the sleep queue, but still RUNNING
    /\ Runs(f, "run") /\ f \in Task /\ prog[f] = "worker"
    /\ \E ms \in SleepMs :
          LET wake == (ticks + TicksToSleep(ms)) % TickWord
          IN  wake <= MaxTick /\ wakeTick' = [wakeTick EXCEPT ![current] = wake]
    /\ PushSleeper(current)
    /\ flags' = [flags EXCEPT ![f] = intOn]
    /\ tickArg' = [tickArg EXCEPT ![f] = ticks]
    /\ pc' = [pc EXCEPT ![f] = "call"]
    /\ intOn' = (depth = 0)
    /\ UNCHANGED <<state, prog, link, ctx, ready, zombie, cpu, via, rrVars, depth, ticks,
                   started>>

(* The sleep system call.  int 0x80 clears IF and saves it; the safe block *)
(* of scheduler_sleep ends with sti unless a flow elsewhere still holds    *)
(* depth, and only then is scheduler_schedule called.                      *)
SysSleep(f) ==
    /\ Runs(f, "run") /\ f \in Task /\ prog[f] = "worker"
    /\ \E ms \in SleepMs :
          LET wake == (ticks + TicksToSleep(ms)) % TickWord
          IN  wake <= MaxTick /\ wakeTick' = [wakeTick EXCEPT ![current] = wake]
    /\ state' = [state EXCEPT ![current] = "SLEEPING"]
    /\ PushSleeper(current)
    /\ flags' = [flags EXCEPT ![f] = intOn]
    /\ tickArg' = [tickArg EXCEPT ![f] = ticks]
    /\ pc' = [pc EXCEPT ![f] = "call"]
    /\ intOn' = (depth = 0)
    /\ UNCHANGED <<prog, link, ctx, ready, zombie, cpu, via, rrVars, depth, ticks, started>>

SysExit_BugState(f) ==   \* the task is switched out, still RUNNING
    /\ Runs(f, "run") /\ f \in Task /\ prog[f] = "worker"
    /\ flags' = [flags EXCEPT ![f] = intOn]
    /\ pc' = [pc EXCEPT ![f] = "exited"]
    /\ depth' = depth + 1
    /\ EnterMasked(current, "syscall", ticks)
    /\ UNCHANGED <<state, prog, wakeTick, link, queueVars, cpu, tickArg, current, nxt, ticks,
                   started>>

(* The exit system call: scheduler_exit with IF clear throughout. *)
SysExit(f) ==
    /\ Runs(f, "run") /\ f \in Task /\ prog[f] = "worker"
    /\ state' = [state EXCEPT ![current] = "ZOMBIE"]
    /\ flags' = [flags EXCEPT ![f] = intOn]
    /\ pc' = [pc EXCEPT ![f] = "exited"]
    /\ depth' = depth + 1
    /\ EnterMasked(current, "syscall", ticks)
    /\ UNCHANGED <<prog, wakeTick, link, queueVars, cpu, tickArg, current, nxt, ticks, started>>

(* kthread_start called by a kernel thread, with IF set or not. *)
StartMask(f) ==
    /\ MayStart
    /\ Runs(f, "run") /\ f \in Task /\ prog[f] = "worker"
    /\ pc' = [pc EXCEPT ![f] = "createMasking"]
    /\ depth' = depth + 1
    /\ UNCHANGED <<taskVars, queueVars, cpu, via, flags, tickArg, rrVars, intOn, ticks, started>>

StartKthread_BugReturn(f) ==   \* out of slots: returns without ENABLE_INTERRUPTS
    /\ Runs(f, "createMasking")
    /\ CreateKthread("worker")
    /\ pc' = [pc EXCEPT ![f] = "run"]
    /\ depth' = IF FreeSlots = {} THEN depth ELSE depth - 1
    /\ intOn' = (FreeSlots # {} /\ AfterEnable(FALSE))
    /\ UNCHANGED <<wakeTick, ctx, zombie, sleepers, cpu, via, flags, tickArg, rrVars, ticks,
                   started>>

StartKthread(f) ==
    /\ Runs(f, "createMasking")
    /\ CreateKthread("worker")
    /\ pc' = [pc EXCEPT ![f] = "run"]
    /\ depth' = depth - 1
    /\ intOn' = AfterEnable(FALSE)
    /\ UNCHANGED <<wakeTick, ctx, zombie, sleepers, cpu, via, flags, tickArg, rrVars, ticks,
                   started>>

-----------------------------------------------------------------------------
BootStep == BootStart \/ BootEnable
RoundRobin == WakeSleeper \/ PutBackAndPop \/ Dispatch
InCall(f) == CallMask(f) \/ CallSchedule(f) \/ StartKthread(f)

Next ==
    \/ BootStep \/ Tick \/ RoundRobin
    \/ \E f \in Flow : \/ Halt(f) \/ IdleYield(f) \/ InCall(f)
                       \/ SysSleep(f) \/ SysExit(f) \/ StartMask(f)

Spec == Init /\ [][Next]_vars

(***************************************************************************)
(* Fairness.  The CPU executes: round_robin and kernel_main, which nothing *)
(* interrupts, go on.  A worker may compute for ever.  The PIC latches     *)
(* IRQ 0 until IF is set, so code that keeps clearing IF cannot hold off   *)
(* the timer: strong fairness.  A timer period is long against the few     *)
(* instructions of a call, so a flow that is dispatched again and again is *)
(* not interrupted in the same call for ever: strong fairness as well.     *)
(***************************************************************************)
Fairness ==
    /\ WF_vars(BootStep)
    /\ WF_vars(RoundRobin)
    /\ SF_vars(\E f \in Task : IdleYield(f))
    /\ \A f \in Task : SF_vars(InCall(f))
    /\ SF_vars(Tick)

LiveSpec == Spec /\ Fairness

-----------------------------------------------------------------------------
(* Properties *)

(* Every variable stays in its type: the queues hold task pointers or      *)
(* NULL, and depth never goes below zero.                                  *)
TypeOK ==
    /\ state \in [Task -> TaskState]
    /\ prog \in [Task -> Programs \union {"none"}]
    /\ wakeTick \in [Task -> Nat]
    /\ link \in Links
    /\ ctx \in [Task -> Flow]
    /\ ready \in Queue /\ zombie \in Queue /\ sleepers \subseteq Task
    /\ current \in Pointer
    /\ cpu \in Flow
    /\ pc \in [Flow -> Place]
    /\ via \in [Flow -> {"isr", "call", "syscall"}]
    /\ flags \in [Flow -> BOOLEAN]
    /\ tickArg \in [Flow -> Nat]
    /\ rrTick \in Nat
    /\ nxt \in Pointer
    /\ pos \in {"out", "wake", "dispatch", "panic"}
    /\ depth \in Nat
    /\ intOn \in BOOLEAN
    /\ ticks \in Nat
    /\ started \in 0 .. Len(BootOrder)

(* No interrupt can arrive while round_robin works on the queues, nor      *)
(* while kernel_main runs.                                                 *)
MaskedInside == pos # "out" \/ pc[Boot] = "boot" => ~intOn

(* The interrupt-disable counter is one global, handed from flow to flow   *)
(* by every switch.  At any time it equals the number of flows that were   *)
(* stopped between its increment and their cli, plus one for the masked    *)
(* block that is executing, plus one until kernel_main ends.  A switch     *)
(* that lost or kept one count would leave interrupts off for ever, or on  *)
(* inside round_robin.                                                     *)
MaskingFlows == {f \in Flow : pc[f] \in Masking}
MaskAccounting ==
    pos # "panic" =>
        depth = Cardinality(MaskingFlows)
                + (IF pos = "out" THEN 0 ELSE 1)
                + (IF pc[Boot] = "boot" THEN 1 ELSE 0)

(* round_robin always finds a task to pop, whatever sleeps or exits, and   *)
(* no exited task ever executes again: neither PANIC() is reached.         *)
NoPanic == pos # "panic"

(* The flow that executes is the one the kernel takes it for, and every    *)
(* context holds the flow of its own task.  The exception is the cleaner:  *)
(* the first tick saved the boot flow over it.                             *)
Casualties == {t \in Task : ctx[t] = Boot}
Identity ==
    /\ pos = "out" /\ current # NULL => cpu = current
    /\ \A t \in Task : ctx[t] = t \/ (t \in Casualties /\ prog[t] = "cleaner")

(* A runnable task is the current one or is found by a walk of the ready   *)
(* queue, whatever preempts the sleepers (round_robin).  Holds while every *)
(* sleep lasts two ticks or more and the tick counter does not wrap:       *)
(* ticks_to_sleep may be one (scheduler.c:219), and then a task can be     *)
(* queued twice and the list cut off behind it.  LossHasCause says what    *)
(* is lost then.  The one exception is the task that the first tick took   *)
(* for the boot flow.                                                      *)
Runnable == {t \in Task : state[t] \in {"RUNNING", "CREATED"} /\ prog[t] # "none"}
NoLostTask ==
    pos = "out" => Runnable \subseteq {current} \union Queued(ready, link) \union Casualties

(* A step loses a task for one of three reasons, whatever sleeps last and  *)
(* whenever the counter wraps.  The task goes to sleep and the sleep queue *)
(* is full; round_robin puts back a current task that it has just woken,   *)
(* and the second push cuts the list off before the lost one; or the first *)
(* tick took it for the boot flow.  No wake, exit, creation or switch      *)
(* loses any other, and a cut loses nothing queued before the task that is *)
(* pushed again (sleep_queue_push, enqueue_ready, round_robin).            *)
Astray ==
    ({t \in Task : state[t] = "SLEEPING"} \ sleepers)
    \union (Runnable \ ({current, nxt} \union Queued(ready, link)))
CutOff ==
    IF pos = "wake" /\ current \in Queued(ready, link)
    THEN Queued([ready EXCEPT !.head = link[current]], link) ELSE {}
LossHasCause ==
    [][\A t \in Astray' \ Astray :
          \/ state'[t] = "SLEEPING" /\ t \notin sleepers /\ Cardinality(sleepers) = MAX_SLEEP_TASKS
          \/ t \in CutOff
          \/ t \in Casualties]_<<taskVars, queueVars, rrVars>>

(* The task that executes is not also queued, where another dispatch of    *)
(* its stale context would find it; no sleeper is queued as runnable, and  *)
(* a task that is back from sleep() is not in the sleep queue any more.    *)
(* scheduler_exit hands its task to no queue: the one the cleaner reads    *)
(* stays empty, and an exited task keeps its slot and its stack.           *)
OnePlace ==
    pos = "out" => /\ zombie.head = NULL
                   /\ current \notin Queued(ready, link)
                   /\ sleepers \intersect Queued(ready, link) = {}
                   /\ \A t \in sleepers : state[t] = "SLEEPING" /\ ~Runs(t, "run")

(* A task is never back from sleep() before its wake_tick, even when a     *)
(* timer interrupt falls between the enqueue and the reschedule.  Holds    *)
(* while the tick counter does not wrap.                                   *)
NoEarlyWake ==
    \A f \in Task : Runs(f, "run") /\ prog[f] = "worker" => wakeTick[f] <= ticks

(* A sleeping task is in the sleep queue.  Holds while the queue has room  *)
(* for every task; SleeperReturns rests on it.                             *)
SleeperHeld == \A t \in Task : state[t] = "SLEEPING" => t \in sleepers

(* With depth at zero interrupts are on, whoever executes.  Holds while no *)
(* thread but kernel_main calls kthread_start.                             *)
UnmaskedAtZero == depth = 0 => intOn

(* Every task that may run gets the CPU, the victim of the first tick      *)
(* excepted.                                                               *)
RunnableRuns ==
    \A t \in Task : (pos = "out" /\ t \in Runnable)
                      ~> (pos = "out" /\ cpu = t) \/ t \in Casualties

(* Every sleeper returns to its own code. *)
SleeperReturns == \A t \in Task : state[t] = "SLEEPING" ~> Runs(t, "run")

=============================================================================
