------------------------------- MODULE Tasks --------------------------------
(***************************************************************************)
(* The table of tasks (task.c), the user stacks (user-stack-manager.c),    *)
(* the allocation table of a task (allocation-table.c) with the system     *)
(* calls malloc and free (scheduler.c), and the cleanup of a task.         *)
(*                                                                         *)
(* Everything but task_cleanup runs in one piece with interrupts off.      *)
(* task_cleanup turns them off for its first and its last part; between    *)
(* them, and between two statements of its loop, other tasks run.  A heap  *)
(* is what Heap shows it to be: malloc gives a block nobody has, or NULL;  *)
(* the calls that cleanup makes to it outside its safe blocks are taken to *)
(* be whole.                                                               *)
(*                                                                         *)
(* A process has a heap of its own, which its threads share; cleanup gives *)
(* it back whole.  What a task does that is left with such a heap (gone)   *)
(* changes its table and is not followed in memory.                        *)
(*                                                                         *)
(* Creation of kernel threads is what the kernel does today.  For threads  *)
(* of processes the code has no caller yet, processes nothing creates, and *)
(* no task is handed to the cleaner (OnePlace in Scheduler): here all are  *)
(* there the way their code expects it.                                    *)
(***************************************************************************)
EXTENDS Integers, FiniteSets

CONSTANTS
    NumTasks,     \* TASKS_MAX
    NumEntries,   \* ALLOCATION_MAX_COUNT
    NumStacks,    \* USER_STACKS_MAX
    Blocks,       \* bound: what the heaps can give
    MaxArgs,      \* bound: arguments of a thread
    NULL

ASSUME TasksAssumption ==
    /\ NumTasks \in Nat /\ NumEntries \in Nat /\ NumStacks \in Nat /\ MaxArgs \in Nat
    /\ IsFiniteSet(Blocks) /\ NULL \notin Blocks /\ NULL \notin -1 .. NumTasks - 1

Slots == 0 .. NumTasks - 1
Entries == 1 .. NumEntries
Kernel == -1   \* the heap of the kernel; that of a process has its slot as name

VARIABLES
    task,        \* task_table
    task_count,
    in_use,      \* the user stacks taken
    origin,      \* the heap that has given a block, NULL if none has
    cleaner,     \* where task_cleanup is, and with which task
    failed,      \* history: slots whose creation failed half way
    forgotten,   \* history: blocks no table or task leads to any more
    asleep,      \* the tasks in the sleep queue
    held,        \* history: what each task has got by malloc and not given back
    missed,      \* history: threads that were asleep when their parent was cleaned
    gone         \* history: tasks whose heap was given back

tasksVars == <<task, task_count, in_use, origin, cleaner, failed, forgotten, asleep, held,
               missed, gone>>

FreeEntry == [address |-> NULL, size |-> 0]
Stopped == [state |-> "STOPPED", mode |-> "KTHREAD", parent |-> NULL, heap |-> NULL,
            stackptr |-> NULL, argv |-> {}, table |-> [e \in Entries |-> FreeEntry]]
Resting == [pc |-> "idle", pid |-> 0, entry |-> 0]

(* A definition with a suffix _Bug... is a faulty variant of the one it    *)
(* precedes; no specification uses it.                                     *)

(* task_init *)
TasksInit ==
    /\ task = [s \in Slots |-> Stopped]
    /\ task_count = 0 /\ in_use = {} /\ origin = [b \in Blocks |-> NULL]
    /\ cleaner = Resting /\ failed = {} /\ forgotten = {} /\ asleep = {}
    /\ held = [s \in Slots |-> {}] /\ missed = {} /\ gone = {}

Min(S) == CHOOSE n \in S : \A k \in S : n <= k
Free == {s \in Slots : task[s].state = "STOPPED"}

(* What the heaps have given, and what a call to one of them does to that. *)
allocated == {b \in Blocks : origin[b] # NULL}
Take(S, from) == origin' = [b \in Blocks |-> IF b \in S THEN from ELSE origin[b]]
GiveBack(S) == Take(S, NULL)

-----------------------------------------------------------------------------
(* Creation. *)

(* get_free_task *)
get_free_task(s) == Free # {} /\ s = Min(Free)

(* task_create_kthread with argc arguments: the stack, the array of the    *)
(* arguments and each argument are allocated in turn.  If one allocation   *)
(* fails, the call returns as it stands.                                   *)
Fail(s, stack, rest) ==
    /\ task' = [task EXCEPT ![s].state = "CREATED", ![s].mode = "KTHREAD",
                            ![s].stackptr = stack, ![s].argv = rest]
    /\ failed' = failed \union {s}
    /\ UNCHANGED task_count

task_create_kthread(argc) ==
    LET wanted == IF argc = 0 THEN 0 ELSE 1 + argc
    IN  \E s \in Slots, stack \in (Blocks \ allocated) \union {NULL},
           rest \in SUBSET (Blocks \ allocated) :
          /\ get_free_task(s)
          /\ stack \notin rest /\ Cardinality(rest) <= wanted /\ (stack = NULL => rest = {})
          /\ Take(rest \union ({stack} \ {NULL}), Kernel)
          /\ IF stack # NULL /\ Cardinality(rest) = wanted
             THEN /\ task' = [task EXCEPT ![s].state = "CREATED", ![s].mode = "KTHREAD",
                                          ![s].heap = Kernel,
                                          ![s].stackptr = stack, ![s].argv = rest]
                  /\ task_count' = task_count + 1 /\ UNCHANGED failed
             ELSE Fail(s, stack, rest)
          /\ UNCHANGED <<in_use, cleaner, forgotten, asleep, held, missed, gone>>

(* A process, with a heap of its own and a kernel stack.                   *)
create_process ==
    \E s \in Slots, stack \in (Blocks \ allocated) \union {NULL} :
        /\ get_free_task(s)
        /\ Take({stack} \ {NULL}, Kernel)
        /\ IF stack # NULL
           THEN /\ task' = [task EXCEPT ![s].state = "CREATED", ![s].mode = "PROCESS",
                                        ![s].heap = s, ![s].stackptr = stack]
                /\ task_count' = task_count + 1 /\ UNCHANGED failed
           ELSE Fail(s, NULL, {})
        /\ UNCHANGED <<in_use, cleaner, forgotten, asleep, held, missed, gone>>

(* user_stack_alloc: no caller ever gives one back *)
user_stack_alloc(k) == in_use # 1 .. NumStacks /\ k = Min(1 .. NumStacks \ in_use)

(* task_create_thread_process, called by a running task of the process     *)
task_create_thread_process(parent) ==
    \E s \in Slots, stack \in (Blocks \ allocated) \union {NULL} :
        /\ task[parent].state = "RUNNING" /\ get_free_task(s)
        /\ Take({stack} \ {NULL}, Kernel)
        /\ \/ /\ stack # NULL
              /\ \E k \in 1 .. NumStacks : user_stack_alloc(k) /\ in_use' = in_use \union {k}
              /\ task' = [task EXCEPT ![s].state = "CREATED", ![s].mode = "THREAD",
                                      ![s].parent = parent, ![s].heap = task[parent].heap,
                                      ![s].stackptr = stack]
              /\ gone' = IF parent \in gone THEN gone \union {s} ELSE gone
              /\ task_count' = task_count + 1 /\ UNCHANGED failed
           \/ /\ stack = NULL \/ in_use = 1 .. NumStacks
              /\ Fail(s, stack, {}) /\ UNCHANGED <<in_use, gone>>
        /\ UNCHANGED <<cleaner, forgotten, asleep, held, missed>>

-----------------------------------------------------------------------------
(* A task starts, sleeps and wakes, exits.  enqueue_ready makes a task     *)
(* that wakes RUNNING whatever its state is.                               *)
Start(s) ==
    /\ task[s].state = "CREATED" /\ s \notin failed
    /\ task' = [task EXCEPT ![s].state = "RUNNING"]
    /\ UNCHANGED <<task_count, in_use, origin, cleaner, failed, forgotten, asleep, held, missed,
                   gone>>

Sleep(s) ==
    /\ task[s].state = "RUNNING"
    /\ task' = [task EXCEPT ![s].state = "SLEEPING"]
    /\ asleep' = asleep \union {s}
    /\ UNCHANGED <<task_count, in_use, origin, cleaner, failed, forgotten, held, missed, gone>>

Wake(s) ==
    /\ s \in asleep
    /\ task' = [task EXCEPT ![s].state = "RUNNING"]
    /\ asleep' = asleep \ {s}
    /\ UNCHANGED <<task_count, in_use, origin, cleaner, failed, forgotten, held, missed, gone>>

scheduler_exit(s) ==
    /\ task[s].state = "RUNNING"
    /\ task' = [task EXCEPT ![s].state = "ZOMBIE"]
    /\ UNCHANGED <<task_count, in_use, origin, cleaner, failed, forgotten, asleep, held, missed,
                   gone>>

-----------------------------------------------------------------------------
(* System calls.  *)

(* allocation_table_add: into the first free entry, or nowhere *)
Add(table, address) ==
    LET free == {e \in Entries : table[e] = FreeEntry}
    IN  IF free = {} THEN table
        ELSE [table EXCEPT ![Min(free)] = [address |-> address, size |-> 1]]

(* allocation_table_remove: the first entry with that address *)
Remove_BugKeep(table, address) == table   \* the entry stays

Remove(table, address) ==
    LET same == {e \in Entries : table[e].address = address}
    IN  IF same = {} THEN table ELSE [table EXCEPT ![Min(same)] = FreeEntry]

Listed(table) == {table[e].address : e \in Entries} \ {NULL}

(* A malloc that failed is entered all the same, as NULL with a size.  A   *)
(* heap that was given back may give any address.                          *)
syscall_malloc(s, b) ==
    LET table == Add(task[s].table, b)
        new == {b} \ {NULL}
    IN  /\ task[s].state = "RUNNING"
        /\ task' = [task EXCEPT ![s].table = table]
        /\ \/ /\ s \notin gone /\ b \notin allocated
              /\ Take(new, task[s].heap)
              /\ forgotten' = forgotten \union (new \ Listed(table))
              /\ held' = [held EXCEPT ![s] = @ \union new]
           \/ s \in gone /\ UNCHANGED <<origin, forgotten, held>>
        /\ UNCHANGED <<task_count, in_use, cleaner, failed, asleep, missed, gone>>

(* A task gives back what it got, or NULL.  *)
syscall_free(s, b) ==
    /\ task[s].state = "RUNNING"
    /\ task' = [task EXCEPT ![s].table = Remove(@, b)]
    /\ \/ /\ s \notin gone /\ b \in held[s] \union {NULL}
          /\ GiveBack({b})
          /\ held' = [held EXCEPT ![s] = @ \ {b}]
          /\ forgotten' = forgotten \ {b}
       \/ s \in gone /\ UNCHANGED <<origin, forgotten, held>>
    /\ UNCHANGED <<task_count, in_use, cleaner, failed, asleep, missed, gone>>

-----------------------------------------------------------------------------
(* task_cleanup *)

(* the first safe block: the threads of the task are told to end *)
MarkChildren_BugLast(s) ==   \* one thread is marked
    LET threads == {c \in Slots : task[c].parent = s /\ task[c].mode = "THREAD"}
    IN  /\ cleaner.pc = "idle" /\ task[s].state = "ZOMBIE" /\ s \notin asleep
        /\ task' = [c \in Slots |-> IF threads # {} /\ c = Min(threads)
                                    THEN [task[c] EXCEPT !.state = "ZOMBIE"] ELSE task[c]]
        /\ missed' = missed \union (threads \intersect asleep)
        /\ cleaner' = [Resting EXCEPT !.pc = "free", !.pid = s]
        /\ UNCHANGED <<task_count, in_use, origin, failed, forgotten, asleep, held, gone>>

MarkChildren(s) ==
    LET threads == {c \in Slots : task[c].parent = s /\ task[c].mode = "THREAD"}
    IN  /\ cleaner.pc = "idle" /\ task[s].state = "ZOMBIE" /\ s \notin asleep
        /\ task' = [c \in Slots |-> IF c \in threads THEN [task[c] EXCEPT !.state = "ZOMBIE"]
                                    ELSE task[c]]
        /\ missed' = missed \union (threads \intersect asleep)
        /\ cleaner' = [Resting EXCEPT !.pc = "free", !.pid = s]
        /\ UNCHANGED <<task_count, in_use, origin, failed, forgotten, asleep, held, gone>>

(* between the safe blocks: a process gives its heap back, threads and all *)
FreeHeap ==
    LET p == cleaner.pid
        own == {b \in Blocks : origin[b] = p}
        users == {c \in Slots : task[c].heap = p}
    IN  /\ cleaner.pc = "free" /\ task[p].mode = "PROCESS"
        /\ GiveBack(own)
        /\ forgotten' = forgotten \ own
        /\ held' = [c \in Slots |-> IF c \in users THEN {} ELSE held[c]]
        /\ gone' = gone \union users
        /\ cleaner' = [cleaner EXCEPT !.pc = "reset"]
        /\ UNCHANGED <<task, task_count, in_use, failed, asleep, missed>>

(* any other task goes through its table: the next block is freed, ...     *)
FreeEntries ==
    LET s == cleaner.pid
        full == {e \in Entries : task[s].table[e].address # NULL /\ task[s].table[e].size > 0}
    IN  /\ cleaner.pc = "free" /\ task[s].mode # "PROCESS"
        /\ IF full = {} THEN cleaner' = [cleaner EXCEPT !.pc = "reset"] /\ UNCHANGED origin
           ELSE /\ cleaner' = [cleaner EXCEPT !.pc = "clear", !.entry = Min(full)]
                /\ IF s \in gone THEN UNCHANGED origin
                   ELSE GiveBack({task[s].table[Min(full)].address})
        /\ UNCHANGED <<task, task_count, in_use, failed, forgotten, asleep, held, missed, gone>>

(* ... and then its entry is cleared *)
ClearEntry ==
    /\ cleaner.pc = "clear"
    /\ task' = [task EXCEPT ![cleaner.pid].table[cleaner.entry] = FreeEntry]
    /\ cleaner' = [cleaner EXCEPT !.pc = "free", !.entry = 0]
    /\ UNCHANGED <<task_count, in_use, origin, failed, forgotten, asleep, held, missed, gone>>

(* the second safe block: the stack is freed, the arguments are not *)
Reset_BugStack ==   \* the stack is not freed
    LET s == cleaner.pid
    IN  /\ cleaner.pc = "reset"
        /\ task' = [task EXCEPT ![s] = Stopped]
        /\ task_count' = task_count - 1
        /\ forgotten' = forgotten \union task[s].argv
        /\ held' = [held EXCEPT ![s] = {}]
        /\ cleaner' = Resting
        /\ missed' = missed \ {s} /\ gone' = gone \ {s}
        /\ UNCHANGED <<in_use, failed, asleep, origin>>

Reset ==
    LET s == cleaner.pid
    IN  /\ cleaner.pc = "reset"
        /\ GiveBack({task[s].stackptr})
        /\ task' = [task EXCEPT ![s] = Stopped]
        /\ task_count' = task_count - 1
        /\ forgotten' = forgotten \union task[s].argv
        /\ held' = [held EXCEPT ![s] = {}]
        /\ cleaner' = Resting
        /\ missed' = missed \ {s} /\ gone' = gone \ {s}
        /\ UNCHANGED <<in_use, failed, asleep>>

TasksNext ==
    \/ \E argc \in 0 .. MaxArgs : task_create_kthread(argc)
    \/ create_process
    \/ FreeHeap \/ FreeEntries \/ ClearEntry \/ Reset
    \/ \E s \in Slots :
          \/ task_create_thread_process(s)
          \/ Start(s) \/ Sleep(s) \/ Wake(s) \/ scheduler_exit(s)
          \/ \E b \in Blocks \union {NULL} : syscall_malloc(s, b) \/ syscall_free(s, b)
          \/ MarkChildren(s)

TasksSpec == TasksInit /\ [][TasksNext]_tasksVars

-----------------------------------------------------------------------------
(* Properties. *)

(* The stack and the arguments of a task; the memory its table stands for, *)
(* which is all it lists but for the entry that the cleaner has freed and  *)
(* not cleared yet, and nothing once its heap was given back; and both.    *)
Given(s) == ({task[s].stackptr} \ {NULL}) \union task[s].argv
Freed(s, e) == cleaner.pc = "clear" /\ cleaner.pid = s /\ cleaner.entry = e
Live(s) == {e \in Entries : task[s].table[e].address # NULL /\ s \notin gone /\ ~Freed(s, e)}
Owns(s) == {task[s].table[e].address : e \in Live(s)}
References(s) == Given(s) \union Owns(s)

(* Stacks, arguments and recorded allocations are allocated memory and     *)
(* belong to one task in one way, at any time between the steps of a       *)
(* cleanup and after any failed creation: no task runs on a freed stack,   *)
(* and none but what is left of a process frees what it does not have.     *)
(* The block that the cleaner has just freed stays listed until the next   *)
(* statement and may be another task's by then; until that statement the   *)
(* task which lists it is a ZOMBIE, so it frees nothing (task_cleanup,     *)
(* syscall_free, heap_manager_free_all).                                   *)
OneOwner ==
    /\ \A s \in Slots : References(s) \subseteq allocated
    /\ \A s, c \in Slots : s # c => References(s) \intersect References(c) = {}
    /\ \A s \in Slots : /\ task[s].stackptr \notin task[s].argv
                        /\ Given(s) \intersect Owns(s) = {}
    /\ \A s \in Slots : \A d, e \in Live(s) :
          d # e => task[s].table[d].address # task[s].table[e].address
    /\ cleaner.pc = "clear" => task[cleaner.pid].state = "ZOMBIE"

(* Allocated memory that no task leads to is what was dropped from a full  *)
(* allocation table or was an argument of a task that is gone: these are   *)
(* the only leaks of malloc, creation and cleanup.  task_count counts the  *)
(* tasks that were created and not cleaned up; slots whose creation failed *)
(* stay taken and are not counted.                                         *)
AccountedFor ==
    /\ allocated \subseteq forgotten \union UNION {References(s) : s \in Slots}
    /\ task_count = Cardinality(Slots \ Free) - Cardinality(failed)

(* Once a task is gone from its slot, the threads it created have been     *)
(* told to end, and none of them runs, unless it slept when they were      *)
(* told: a sleeper becomes RUNNING when it wakes.  Threads that a thread   *)
(* created are not told (task_cleanup, enqueue_ready).                     *)
OrphansStop ==
    [][\A s, c \in Slots :
          task[s].state # "STOPPED" /\ task'[s].state = "STOPPED" /\ task[c].parent = s =>
              task[c].state \in {"ZOMBIE", "STOPPED"} \/ c \in missed]_tasksVars

=============================================================================
