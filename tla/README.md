# Specifications of the kernel

TLA+ specifications of the 32-bit x86 kernel in this repository, the TLC
configurations that check them, and TLAPS proofs. Paths below are relative to
the repository root; `scheduler.c` without a path is
`src/kernel/scheduler/scheduler.c`, and so on.

    tlc -workers 2 -config MCSchedulerCore.cfg MCScheduler
    tlapm SchedulerProofs.tla

## 1. The system

A multiboot2 kernel for one CPU. `boot.s` enters the higher half and calls
`kernel_main`, which sets up descriptors, memory, PCI, VESA and then
multitasking, turns interrupts on and returns to a `hlt` loop. From then on
everything happens in kernel threads and in interrupt handlers:

    PIT --IRQ0--> ir_common_stub -> ir_handler -> timer_handle -> scheduler_schedule
    thread --int 0x80--> ir_common_stub -> syscalls_table -> scheduler_sleep / exit / malloc ...
    scheduler_schedule -> round_robin -> {sleep_queue, ready_queue, zombie_queue}
    kthread_start -> task_create_kthread -> {task_table, kernel heap, scheduler_add}
    ide_read -> ata_pio_read_sector <- irq_fired - ata_primary_irq_handle <--IRQ14--  drive
    heap expand/contract -> paging_manager -> physical_memory_manager -> bitmap

There is no second CPU, so the spinlocks never contend except against an
interrupt; mutual exclusion rests on `INTERRUPT_SAFE_BLOCK`
(`include/kernel/util.h`), which counts nesting in ONE global counter.

### Inventory

| Component | State | Operations | Hard behaviour |
|---|---|---|---|
| Scheduler (`scheduler.c`, `scheduler.s`, `task.s`) | `current_tasks[0]`, three queues, `task_t.state/ctx/wake_tick/next` | init, schedule, add, yield, sleep, exit, round_robin | timer preemption between any two unmasked instructions; the context saved belongs to whoever `current` names |
| Interrupt masking (`util.h`), timer (`programable-interval-timer.c`, `interrupts.s`) | `system_interrupt_disable_counter`, IF, `ticks` | DISABLE, ENABLE, safe block, PANIC, tick | the counter is taken by one flow and given back by another |
| Task queue (`task-queue.c`) | head, tail, size, links in the tasks | push, peek, pop | one link field for all queues; double push |
| Sleep queue (`sleep-queue.c`) | array heap | push, peek, pop | index arithmetic, full heap |
| Tasks (`task.c`, `user-stack-manager.c`, `allocation-table.c`) | 256 slots, user stacks, per-task allocations | create kthread/thread, cleanup | every failure path leaks something |
| Boot, kthread registry (`kernel-main.c`, `kthread.c`) | progress of boot | start threads, enable | the first tick arrives while `current` is NULL |
| ATA/IDE (`ata-pio.c`, `ide-controller.c`) | `irq_expected`, `irq_fired`, controller status, drive registers | identify, read, write, IRQ handler | the interrupt races the code that arms for it; late interrupts |
| Heap (`heap-manager.c`, `ordered-array.c`, `kernel-memory.c`) | boundary tags, hole index | init, malloc, aligned malloc, free, free_all, expand, contract | address arithmetic, stale tags in memory, stale order of the index |
| Paging and frames (`paging-manager.c`, `physical-memory-manager.c`, `bitmap.c`) | page directory and tables, frame bitmap | allocate, free, identity map, translate | frame exhaustion; frames mapped but not recorded |
| Storage manager (`storage-manager.c`), IDE probe (`ide-controller.c`) | 8 controllers, uid counter, 4 devices | setup, add, remove, get, iterate, probe | uid width, a table that shifts under its pointers, a drive that fails a later probe |
| PCI (`pci.c`) | visited buses, decoded places, devices | recursive scan, driver binding | bus loops, table limit |
| Interrupt dispatch, PIC (`interrupts.c`, `pic-8259.c`) | handler table, in-service registers, frames on every stack | add, dispatch, EOI | a handler that switches tasks before it returns, two EOIs for one interrupt, nesting |
| VESA (`vesa.c`) | table of modes, `video_state` | read the list, select, set | a list longer than the table, a card that refuses |
| bios32, serial, descriptors, multiboot, boot code | registers and memory | port I/O, BIOS calls | none that a state machine shows |

### What makes each component correct

* Scheduler: a runnable task is never lost and runs again; a sleeper is not back
  early and does come back; the running flow is the one `current` names, and a
  context is that of its own task; the ready queue is never found empty.
* Masking: IF is clear in every critical block; the counter returns to zero;
  interrupts are never off for ever.
* Task queue: FIFO, with a size that counts. Sleep queue: the root is least,
  nothing is lost or duplicated.
* Tasks: a slot is taken by one task, and freed with everything it owns.
* ATA: a transfer ends with the data of its own command, or with an error.
* Heap: blocks are disjoint, aligned when asked and inside the heap; every hole is
  found again. Paging: a frame backs one page,
  the bitmap agrees with the tables.
* Storage manager: removal takes the one asked for and keeps the others; every drive
  that answers has a controller that leads to it.
* PCI: what is reachable is found once, and the scan ends.
* Interrupts: nothing stays in service while interrupts are on, an EOI ends the
  interrupt of the handler that sends it, every request is delivered.
* VESA: the kernel boots in the first mode that suits it and that the card takes.

## 2. Modules and how they correspond to the code

| Module | Models | Remarks |
|---|---|---|
| `TaskList` | the list operations of `task-queue.c` as operators on (head, tail) and the shared link function | used by `TaskQueue` and `Scheduler` |
| `TaskFifos` | abstract: named FIFO queues | what `task-queue.c` promises |
| `TaskQueue` | `task-queue.c` with `size`, for clients that push a task only while it is unqueued | refines `TaskFifos` |
| `TaskListProofs` | lemmas about the shared links: a push and a pop on one queue seen from it and from the others | used by the next two |
| `TaskQueueProofs` | proofs | |
| `SleepSet` | abstract: a bounded set from which a least element is taken | what `Scheduler` relies on |
| `SleepQueue` | `sleep-queue.c`, one iteration of a heapify loop per step | refines `SleepSet` |
| `SleepQueueProofs` | proofs | |
| `Ata` | the transfers of `ata-pio.c` and `ide-controller.c` for one channel, with external drives | |
| `AtaProofs` | proofs | |
| `Paging` | `paging-manager.c`, `physical-memory-manager.c`, `bitmap.c`, the mapping part of `kernel_main`, the heap's use of pages | |
| `Scheduler` | `scheduler.c`, `scheduler.s`, `task.s`, the masking macros, the tick, kthread creation, boot | composes `TaskList` and, as its contract, `SleepSet` |
| `SchedulerProofs` | proofs in three parts: masking and the counter; who executes, sleeps, unmasking; the queues | |
| `Heap` | `heap-manager.c` after its initialisation, with `ordered-array.c` and the malloc family of `kernel-memory.c` | tags are words in memory |
| `Tasks` | `task.c`, `user-stack-manager.c`, `allocation-table.c`, the malloc and free calls of `scheduler.c` | takes from the heap what `Heap` promises |
| `MemoryProofs` | proofs about `Paging`, `Tasks` and `Heap` | |
| `Pci` | `pci.c` | recursion as a stack of calls |
| `Storage` | `storage-manager.c`, `ide_pci_probe`, `ata_pio_init_drive` | |
| `Interrupts` | `ir_handler` with the handlers behind it, `pic-8259.c`, external controllers | composes nesting, task switches and EOI |
| `InterruptsProofs` | proofs | |
| `Vesa` | `vesa.c` and its use at boot | |
| `DeviceProofs` | proofs about `Storage`, `Vesa` and `Pci` | |
| `MCScheduler`, `MCSleepQueue`, `MCTasks`, `MCPci`, `MCVesa` | instances for TLC | |

Operators keep the names of the C functions where there is one function
(`Push`, `Pop`, `EnqueueReady`, `WakeSleeper` for the wake loop of
`round_robin`, `StartTask` for `task_start_impl`). Definitions with `_Bug` in
their name are faulty variants used to see that a property notices the fault.
`Tasks`, `Heap`, `Pci` and `Vesa` write their own name into those of their specification
(`TasksSpec`, `PciInit`, `vesaVars`), so that one module of proofs can extend several.

### Scheduler

A *flow* is a stack: one per task, and `Boot` for the stack of `kernel_main`.
`cpu` is the flow that executes, `current` what the kernel believes. The two
agree only by virtue of the code, which is what `Identity` states.

* Atomicity. Whatever runs with IF clear is cut only at its own loops
  (`WakeSleeper`, `PutBackAndPop`, `Dispatch`). Where IF is set, a flow is cut
  wherever an interrupt could make a difference: between reading the tick and
  calling `scheduler_schedule` (`IdleYield`, `SysSleep` / `CallMask`), and
  between the increment and the `cli` of `DISABLE_INTERRUPTS` (`CallMask` /
  `CallSchedule`, `StartMask` / `StartKthread`).
* Context switch. `_task_save_context(current)` stores the executing flow in
  `ctx[current]`; `_task_restore_context(next)` continues `ctx[next]` behind the
  call, so the flow executes the ENABLE half of the safe block of the switch
  that saved it, and returns as `via` says: an interrupted flow by `iret` with
  IF set, a system call by `iret` to its caller's flags, `kthread_idle` by
  `ret`. That the compiled function finds its locals again on the saved stack
  was checked in the code the compiler produces at -O2.
* `round_robin`. The wake loop pops the least sleeper while it is due; the
  current task is put back only if RUNNING; the popped task is started, resumed
  or diverted by its state.
* Creation. Slots are taken lowest first. `LeakNewTask` is the path on which the
  stack cannot be allocated: the slot stays CREATED and is queued nowhere.
* Programs. The cleaner, the idle thread and colin are the shipped ones; a
  *worker* is any kernel thread that sleeps and exits by system call, as `aids`
  in `kernel-main.c` does, and, where `MayStart` holds, calls `kthread_start`.
  The rest of a worker's code is irrelevant here.

### ATA channel

The driver's thread, the drives and the interrupt handler are concurrent. `pc`
is the place of the thread in the call; a step of it ends wherever a drive or an
interrupt could come between: `Command` (the command register) is one step,
`Expect` and `Clear` (`irq_expected = 1`, `irq_fired = 0`) two more, the polling
loop is `Woken` or `Timeout`. `Irq` is the handler: drives that expect nothing
are passed over, and reading the status register withdraws the request of the
*selected* drive. The line to the PIC is edge triggered (`latched`).

The drives are external: a command to an idle drive makes it busy; it answers
when it likes, with data, an error or never; a busy drive ignores commands, as
the emulated drives of `qemu.sh` do. A drive may take the data of a write without
raising the interrupt that the driver waits for first (`Done`, silent).
`NumLba` is the size of a drive and `Addressable` the number of sectors a command can
name, 2^28 in the code: the address registers take that many bits of the `uint64_t`
(`ata-pio.c:199-205`, `Address`). Neither `ide_read` nor the transfer checks a sector
number against either, so a call may name sectors behind the end of the drive, which
answers with an error, or ones that only exist modulo `Addressable`. `Lbas` and
`MaxSectors` bound what a call asks for.

### Paging and frames

Addresses are page numbers, and a range is mapped one page per step: `MakeTable`
is the first half of `allocate_page` (the page table, from whichever heap is
alive), `MapPage` the second (the frame). `stage` follows `kernel_main`: kernel
range, heap, low memory, BIOS helper, then any sequence of `Expand` and
`Contract`, which are what the heap asks of paging. Where a page table is placed
by `heap_manager_malloc` after boot is a choice among the places where an aligned
block with its header and footer fits. `Contract` does what `contract` does: it
passes the *distance* from the start of the heap to `free_page`.
Three stages have no way out: `failed` (no frame; `hlt`), `lost` (no hole for the
page table: `expand` recurses), `fault` (never reached, `NoFault`).

### Heap

Memory is a function from word addresses to words, and each operator maps a heap
(memory, index, end) to a heap, so that a call is the composition the code is:
`allocate` with `find_smallest_hole`, `expand` and the split; `unallocate` with the
two merges, `contract` and the removal from the index. Tags are read back from
memory; a block that its client did not overwrite (`Wiped`) leaves stale tags
behind, which later calls may take for real. `Place` is the binary search of
`ordered_array_insert` over the sizes the holes have *now*.

Five coincidences break the heap, each named by `odd` at the step in which it
happens; nothing is claimed afterwards, because the code then follows tags that
are not there:

* `sliver` (`heap-manager.c:326`): an aligned block leaves in front of it a piece
  smaller than its own header and footer; the size of the piece underflows.
* `grewInside` (`:274`): no hole is large enough, the heap grows, and the hole that
  `find_last` gives is not the one at the end of the heap.
* `foreign` (`:402`): the right neighbour is looked for at `footer +
  sizeof(heap_footer_t)` in units of the footer, 64 bytes behind it. Adjacent
  holes are therefore not merged, and a hole that begins exactly there is merged
  over whatever lies between.
* `emptied` (`:421-447`): `contract` gives all of the last hole back and leaves a
  header at the end of the heap in the index.
* `fault` (`:404`): `free_all` has unmapped all pages from the new end on (`:133-138`),
  also the one behind the heap that `expand` had mapped (`:215`), and the far neighbour
  of a block at the end is looked for there. `behind` says whether that page is mapped.

The variable `i` at `:437` is uninitialised when the hole is not in the index; no
call reaches that, as `IndexComplete` shows.

### Tasks

Slots, user stacks, blocks of the heaps and the table of allocations of each task.
`origin` says which heap has given a block: the kernel's or that of a process, which its
threads share. Creation is one step with the failure after each thing it takes; `failed`
and `forgotten` are histories that say what may be missing from the books.

`task_cleanup` is cut wherever interrupts are on. `MarkChildren` is its first safe
block and `Reset` the last. Between them a process gives its heap back whole (`FreeHeap`);
any other task goes through its table, and for each entry `FreeEntries` frees the block
and `ClearEntry` clears the entry, two statements (`task.c:153` and `154-155`) between
which another task may get the block. That entry is the one exception in `OneOwner`. The
calls to the heap are taken to be whole.

The tasks whose heap was given back (`gone`) still list blocks of it. Their own cleanup
frees these again, and a thread that a thread created was not told to end at all. What
such a task does with that heap is not followed: it changes its table, and `OneOwner`
speaks of its stack and arguments only.

Kernel threads are created the way the kernel does it. The creation of processes and of
their threads and the hand-over to the cleaner have no caller yet and are there as
`task_cleanup` expects them; `create_process` is external.

### PCI scan

The hardware is chosen by `PciInit`: up to `MaxBridges` bridges anywhere, with any bus
numbers, circles and overlaps included, functions with and without known header types,
and each device says or does not say that it has several functions (`multi`). Which other
places are filled and which devices say so are choices from `Populations` and `Multiples`,
bounds for TLC that the proofs leave open.
What a scan should find, `Reachable`, is the least set of buses that is closed under the
bridges on it. The recursion is a stack
of frames; a step is one function of one device. Bus numbers wrap as `uint8_t`
does. A driver's match fields are left out: `offered` is the order in which devices
meet the list of drivers.

### Storage manager

A probe walks over the four drives of the legacy channels, once for every PCI
function of the IDE class, and each drive that answers is added to the table,
whether it is there already or not. `healthy` drives answer every probe; the others
may answer one and fail the next. Removal and lookup take the uid modulo
`ByteValues`. The histories `asked` and `held` are the uids that were removed by
request and a pointer that a lookup returned.

### Interrupts

Each flow has a stack of interrupt frames, each with its vector and the place it has
reached: `handler`, `schedule` (the timer's EOI is sent, the scheduler not called yet),
`handled` (the handler is over), `slaveTold` (the first of the two writes of `IR_EOI`),
`iret`. `Switch` leaves a frame unfinished and continues another flow, as `timer_handle`
and the sleep call do. `SafeBlock` is the end of a safe block inside a handler, from which
on the handler can be interrupted itself. The controllers are external: fixed priority,
the second behind line 2, an unspecific EOI that ends the line of highest priority in
service, spurious requests on 7 and 15. They forget what they hold when they are set up
(`pic_8259_remap`), which `kernel_main` does once and every BIOS call again
(`bios32.c:63,72`); all of these calls come before the timer is registered and within
`kernel_main`'s DISABLE, so the `ENABLE_INTERRUPTS` at their end enables nothing.
`MaxFrames` bounds the nesting on one stack; the code has no bound (`util.h:29`).

### VESA

`Init` chooses the BIOS's list and what becomes of every mode; the steps are the
loop over the list, the selection in `kernel_main` and the setting of the mode,
whose refusal sends the selection on to the next.

## 3. Runs

| Run | Configuration | Shows |
|---|---|---|
| `core` | `LiveSpec`; two workers, sleeps of 2 and 3 ticks, a place in the sleep queue for each, 5 ticks | `NoLostTask`, `NoEarlyWake`, `UnmaskedAtZero`, `RunnableRuns`, `SleeperReturns` |
| `start` | a worker starts workers, which start more; five slots, allocation may fail, sleeps of one tick, sleep queue of two, ticks modulo 3, 2 ticks | `MaskedInside`, `MaskAccounting`, `NoPanic`, `Identity`, `OnePlace`, `LossHasCause` |
| `task_queue` | four tasks, two queues | `Represented`, `Implements` |
| `sleep_queue` | six tasks, five places, two wake ticks | `HeapOrder`, `Implements` |
| `ata` | `LiveSpec`; two drives of two sectors, with 48-bit addressing or not, commands that can name three, calls of one or two sectors that begin at sector 1 or 3 | `OwnSectors`, `Quiet`, `CallReturns` |
| `paging` | eight pages per table, 23 frames, a heap that can grow over a table boundary | `FrameOnce`, `BitmapAgrees`, `DirectoryTrue`, `NoFault`, `PagesStay` |
| `heap` | seven calls, two sizes, pages of 24 words, heap of two to four pages, three blocks at a time | `Tiled`, `OwnMemory`, `IndexComplete` |
| `tasks` | three slots, two user stacks, three blocks, tables of one entry | `OneOwner`, `AccountedFor`, `OrphansStop` |
| `pci` | four buses, every choice of up to two bridges, two functions per slot of which none, all or the second is there and which no, every or some device admits to; table of five | `Complete`, `TableSound`, `ScanEnds` |
| `storage` | two probes of four drives, table of five, bytes of five values | `Accounted`, `DrivesServed`, `HeldRight` |
| `interrupts` | `LiveSpec`; two flows, lines 0, 7, 8, 14, 15, three requests, three frames on a stack | `NothingWithheld`, `EndsOwn`, `Delivered` |
| `vesa` | every list of five words over four modes, table of three | `TableRight`, `ModeRight` |

Bounds. `MaxTick` stops the count of the timer, not the timer: it still
interrupts, so every preemption is explored; in `core` sleeps that would end beyond
it do not begin, and five ticks let both workers sleep, overlap, wake and exit in
every order. In `start` what wraps is the sum: a sleep that begins in the last
tick gets a wake tick in the past, again and again. Five tasks are in `core` the three
shipped threads and two workers. `start` has the cleaner, the idle thread and one worker,
so creation succeeds, fails for want of a stack and fails for want of a slot; with three
workers the sleep queue of two can be full, and one task can be behind another in the
ready list when that is pushed a second time. All of these cases are reached. A heap of five is the smallest in
which `heapify_down` iterates twice and meets a node with one child. `Word` is 2^16
instead of 2^32; no product reaches it there, and the proofs hold for every value.

Two drives and two sectors are what it takes for one drive's interrupt to be taken
for the other's, or for the previous sector's; the calls of `ata` name a
sector of the drive (1), one behind it (2) and two that are truncated (3 and 4, to 0 and 1). The layout of `paging` keeps the
order of `linker.ld` (`PagingAssumption`) at one 128th of a table; its frames run
out one page before the heap's largest size, in the second table of the heap.
Deadlock is not checked there: a kernel without frames stops. It is not checked
either where a bound on calls, requests or probes ends the behaviours (`heap`,
`tasks`, `pci`, `storage`, `interrupts`, `vesa`).

In `heap` seven calls are enough to split, merge, grow, contract and reach each of
the five coincidences; a page of 24 words leaves room for two small blocks and their
tags, and 19 words force an aligned block to the next page. Two bridges and four
buses contain a bridge behind a bridge, two to the same bus, a bridge to its own bus
and a range that wraps. A slot with a second function is enough for a device with
several. A table of five takes one probe of four drives and not two.
The lines of `interrupts` are the timer, both spurious lines and the two ATA lines
with one that has no handler (8) above them on the second controller.

A property with two parts is one where a reader would ask for both at once:
`PagesStay` is that the heap and low memory stay mapped, `DrivesServed` that every
drive has a controller and that it leads to the drive, `Tiled` contains that footers
lead back to their headers, `Accounted` that uids grow.

`tasks` has what it takes for a freed block to become another task's while it is listed
(two stacks and a block), for a full table, for arguments, and for a process with two
threads or a thread with one of its own. Tables of more entries are left to the proofs,
which hold for any number.

Where a property needs a precondition it is in its comment and in the
configuration: `NoLostTask` while no sleep is shorter than two ticks and the counter does
not wrap (`LossHasCause` is for the rest), `NoEarlyWake` until the tick counter wraps, `SleeperReturns` while
the sleep queue has room for all, `UnmaskedAtZero` while only `kernel_main` calls
`kthread_start` (a creator preempted between increment and `cli` leaves others
with a counter that does not reach zero).

### Fairness

`LiveSpec` asks: weak fairness of boot and of `round_robin`, which nothing can
interrupt; strong fairness of the timer, whose request the PIC latches until IF
is set, however briefly; strong fairness of the idle thread's steps and of calls
under way, because a timer period (2 ms) is long against the few instructions
of a call, so a flow that is dispatched again and again gets through. Nothing is
asked of workers: they may compute for ever and never sleep or exit.

`LiveSpec` of `Ata` asks weak fairness of the calling thread only: it polls, so it
runs whenever it has the CPU, and the scheduler gives it the CPU (`RunnableRuns`).
Nothing is asked of drives or interrupts.

`Spec` of `Pci` asks weak fairness of the only flow there is at boot. `LiveSpec` of
`Interrupts` asks that the flow that has the CPU goes on, that a handler that does not
wait for another flow is not cut for ever, and strong fairness of the delivery of a
request, which the controller keeps until it gets through; nothing is asked of the
devices.

### Behaviour of the code the models show

These are consequences of the code; nothing in the repository says otherwise,
so they are recorded here and not as disagreements.

* The first tick finds `current` NULL, pops the cleaner and saves the boot stack
  over its context. The cleaner never starts; it is the `Casualties` exception
  in `NoLostTask`, `Identity` and `RunnableRuns`.
* `scheduler_exit` marks a task ZOMBIE and queues it nowhere, and `round_robin`
  drops it: nothing ever reaches the queue the cleaner reads (`OnePlace`), so an exited task
  keeps its slot, its stack and its allocations.
* With sleeps of one tick and two sleepers, a sleeper that is preempted between
  `enqueue_sleeper` and `scheduler_schedule` can be woken while it is current and
  then be put back a second time. If it is in the middle of the ready list by
  then, `task_queue_push` cuts the list behind it and the tasks after it are
  lost. `core` stays on one side of that line, where `NoLostTask` holds, which by
  `NothingLost` (section 4) is every kernel whose sleeps last at least two ticks. On the
  other side `start` checks that nothing else is lost (`LossHasCause`) and that no task
  is in two places (`OnePlace`).
* A full sleep queue drops the sleeper for good; `core` has a place for every worker,
  `start` has not, and `LossHasCause` says that no other sleeper is dropped.
* ATA: the command goes out before `irq_expected` is set, so the interrupt of a fast
  drive is passed over and the wait times out. After a timeout `irq_expected` stays
  set and the drive may still be busy, ignore the next command and answer for the
  old one; `OwnSectors` and `Quiet` therefore speak of drives without a timeout
  (`late`), and show that a timeout of one drive does not harm the other. A drive
  with 48-bit addressing is always refused. The result of the cache flush is not
  looked at. A sector number of 2^28 or more is truncated without a check: the call moves
  other sectors and reports success.
* Paging: `contract` unmaps nothing, because it passes distances instead of
  addresses and those lie between low memory and the kernel; the frames stay with
  the heap and `expand` finds them again. If no hole takes a page table when the
  heap crosses a 4 MB boundary, `expand` recurses without end.
* After a wrap of `ticks`, or of `ms * hz`, sleepers wake early.
* Heap: the five coincidences above. Since adjacent holes are not merged to the right
  (`foreign`), memory fragments more than the code suggests.
* Tasks: a creation that fails after it took a slot, a stack or arguments gives none
  of them back. An allocation that finds the table full, or a malloc that fails, is
  taken all the same. `argv` and user stacks are never given back. A thread of a
  process that sleeps when its process is cleaned is marked ZOMBIE in the sleep
  queue, and `enqueue_ready` makes it RUNNING again when it wakes. When a process is
  cleaned, its threads' tables still list blocks of the heap it gave back, and their own
  cleanup frees these once more; threads of its threads are not told to end.
* PCI: a bridge whose subordinate bus is 255 makes the loop over its buses endless;
  a bridge found after the table is full hides its buses; a function with an unknown
  header type is looked at again when its bus is walked again. The marks of buses and
  of decoded functions are what ends the recursion in circles.
* Storage: a second function of the IDE class registers all drives twice. A drive that
  fails a later probe is zeroed under its controller, which from then on names drive 0
  of channel 0. From the 256th uid on, removal takes another controller or none. The
  result of an addition to a full table is not looked at. The wait of IDENTIFY
  (`ata-pio.c:118`) has no bound.
* Interrupts: the ATA handlers send an EOI and `ir_handler` sends another; the system
  call sends one for no interrupt. Neither ends anything it should not (`EndsOwn`),
  because nothing is in service by then. A request that comes before a BIOS call is
  dropped by the remap at its end (`bios32.c:72`). Exceptions halt the machine. Handlers nest
  without bound if requests come fast enough.
* VESA: the kernel boots in text mode, without a word, if the table is empty or the
  last mode that suits is refused.

## 4. Proofs

`SchedulerProofs` has three parts. In the first `TypeCorrect`, `InterruptsMasked` and `CounterAccounted` hold
for every set of slots, list of threads, sleep argument, frequency and word
width, from `SchedulerAssumption` and `NullAssumption`. The inductive invariant
`IInv` adds to the three properties what they rest on: the boot flow is the only
one until boot ends (`BootAlone`), a popped task is at hand exactly while
dispatching (`NextAtHand`), and a block is entered with a current task
(`CurrentSet`). The counter argument counts the flows in a masking position; one
lemma says how the set changes by a step, the cardinality facts come from
`FiniteSetTheorems`.

The second part rests on the same assumptions and needs nothing about the queues,
so what it proves holds on the paths, too, on which tasks are lost. `RunningIsCurrent`
(`Identity`): once the first tick has been taken, the flow that executes is the
one `current` names, and each saved context is that of its own task, but for the task
over whose context the first tick saves the boot stack. The invariant `Own` says which
task that is and that no dispatch leads back to it, and `Dawn` what boot may look like
before the first tick. `NobodyWakesEarly` (`NoEarlyWake`): if the
ticks do not wrap (`MaxTick < TickWord`), no sleeper is made RUNNING before its time.
`OpenAtZero` (`UnmaskedAtZero`): if only `kernel_main` starts threads, interrupts are
on whenever the counter is zero, until a PANIC. A PANIC masks for ever without looking
at the counter, so the theorem stops there; `AlwaysOpenAtZero` does without that
exception, since the third part shows that none comes.

The third part is about the queues. Its hypotheses are conditions on the constants, and
the shipped kernel satisfies them: `Unwrapped`, the ticks and the wake ticks do not wrap
(in the model `MaxTick` stops the count; in the kernel it is 2^32 ticks, 99 days);
`Long`, every sleep lasts at least two ticks (its one caller sleeps 1000 ms, 500 ticks);
for `NoSleeperDropped` and `AlwaysOpenAtZero` also that only `kernel_main` starts threads
(`~MayStart`), and for the former `Roomy`, that the sleep queue has a place for each of
them that sleeps. Under `Unwrapped` and `Long`: `NothingLost` (`NoLostTask`), a task that
may run is current or is met by the walk of the ready list; `OnePlaceEach` (`OnePlace`),
and `NeverPanics` (`NoPanic`). The invariant `Listed` says that the links
of the ready list spell a sequence of distinct tasks that may run (`Intact`); that the task
in the hands of `round_robin`, or on the CPU, is not in it (`Hands`); that a task that may
run is in one of these places (`Found`), the idle thread always (`IdleThere`: it neither
sleeps nor exits), so that no pop is empty; and that a current task which has queued itself
to sleep is not due at the next tick (`Asleep`): here two ticks are needed, for the tick
that takes it off the CPU may be the first but not the second. `TaskListProofs` says what a
push and a pop do to such a sequence.
`NoSleeperDropped` (`SleeperHeld`, which `SleeperReturns` rests on and no run checks
by itself) counts the workers that boot has started.

`TaskQueueProofs`: `SizeIsLength` (`Represented`), `PeekIsNext` and `Refinement` for any number
of tasks and queues. The invariant is `Represented` with `Distinct` and the
types; the frame lemma says that a push or pop on one queue leaves the links of
the others alone, because the tasks are distinct.

`SleepQueueProofs`: `HeapOrdered`, `PeekIsLeast` and `Refinement` for any capacity. The
invariant is `HeapOrder` with its excused edge while a loop runs, and `Distinct`.
That the root is least follows from the heap order by descent to a least
counterexample (well-foundedness of the naturals).

`MemoryProofs`, of `Paging`: all five properties of the run, `FramesExclusive`, `BitmapTrue`,
`DirectoryCorrect`, `TablesMapped` and `PagesHeld`, for every
memory size and every layout that `PagingAssumption` allows: the kernel within one
table, the initial heap within another, low memory below the image, below
`HEAP_MIN_SIZE` and below the kernel, and a heap smaller than the address of the
kernel. The heart of the invariant is `LinearKernel`: first fit gives kernel page
`i` frame `i` (`FirstFitIsLinear`), which is why the subtraction made before paging
is on stays right, why the table of the heap lies in mapped memory, and why low
memory belongs to the kernel's pages and never to the heap's. `ContractFreesNothing`
says that the distances `contract` passes are never mapped pages.

`MemoryProofs`, of `Tasks`: all three properties of its runs, `NothingFreedTwice`
(`OneOwner`), `LeaksKnown` (`AccountedFor`) and `ThreadsEndFirst` (`OrphansStop`), for any
number of tasks, entries, stacks, blocks and arguments. `OneOwner` alone is not inductive:
a task may free whatever `malloc` gave it, also a block its full table has dropped, so the
invariant needs what each task still holds (`held`) to be apart from all that others lead
to (`HeldApart`). That stops being true of a task whose entries the cleaner is freeing, and
need not be, because it cannot run any more (`CleanerTrue`); this also gives `OrphansStop`.
The entry whose block was freed and that is not cleared yet is left out of what its task
owns (`Live`), so that the block may go to another. `OriginTrue` says which heap each block
is from: what a process gives back with its heap is then nobody's stack and nobody's but
the tasks' that share it (`Apart`, `Shrinks`).
`TablesSound` says that every listed address has a size, or the cleaner would pass it over,
and is listed once. A slot counts as created unless it is in `failed` (`Counted`).

`MemoryProofs`, of `Heap`: all three properties of the run, `HeapTiled` (`Tiled`),
`HeapOwnMemory` (`OwnMemory`) and `HeapIndexComplete` (`IndexComplete`), for every sequence
of calls, every size of the heap and every page of more than 19 words (`HeapAssumption`;
the kernel's has 1024), until one of the five coincidences. What makes the tags right is a
set that the code keeps nowhere, the places where pieces begin. `HeapInvariant` says that
there is one on which three things agree: the tags in memory divide the heap into these
pieces (`Tiles`), the blocks that clients hold are those that are not holes (`Clients`), and
the index lists holes only, each once (`IndexTrue`). What a call does is replace a piece or
two: a cut makes up to three of one (`CutTiles`), a free makes one of two (`MergeGives`), the
last may be lengthened or shortened with the heap (`ExpandKeeps`, `ShrinkGives`), and a
division depends on its own words only (`TilesFrame`), so that what lies beside stays.
Walking from tag to tag finds the same pieces (`PiecesAre`); the walk and the binary search
are recursive functions, whose existence is proved by descent (`Walk`, `PlaceRange`). Where
the binary search puts a hole does not matter, and cannot: the index is not sorted.
`HeapIndexComplete` assumes an index that is never full, since `ordered_array_insert` then
drops the hole in silence, and that has two places, for the new hole of an expansion and
what its split leaves. The shipped index has 2^17; `HeapIndexCompleteAtFirst` says that
it cannot be full before there were as many calls.

`InterruptsProofs`: `RequestsGetThrough` (`NothingWithheld`), `EoiEndsOwn`
(`EndsOwn`) and `TypeCorrect`, for any flows, lines, number of requests and depth of
nesting. The invariant says who can have something in service: nobody, while
interrupts are on; with interrupts off only the innermost frame of the running flow,
before its first EOI, and then only its own line, with line 2 if it is one of the
second controller. Every frame that was switched out or interrupted is therefore
behind its EOI, and an EOI too many finds nothing to end.

`DeviceProofs`, of `Storage`: `ControllersAccounted`, `LookupsStayRight` and `EveryDriveServed`,
for every size of the table (the last from four entries on), every width of the uids
and any number of probes. The uids grow along the table, so a lookup finds one entry
at most and the shift of a removal loses that one only. For the drives the invariant
follows the first probe: behind it every healthy drive has a controller, and there are
no more controllers than places passed, so the table cannot be full before its end;
later probes write into a device what it holds already.

`DeviceProofs`, of `Vesa`: `TableCorrect` (`TableRight`) and `FirstFitChosen`
(`ModeRight`), for every list, every table and every behaviour of the card. The invariant
says what the table holds when a part of the list has been read, and that the modes passed
over by the selection did not suit or were refused.

`DeviceProofs`, of `Pci`: `NothingTwice` (`TableSound`) and `AllFound` (`Complete`), for any
number of buses, slots and functions and any bridges. The recursion is a depth-first
search, and the invariant follows it: a scanned bus is one that has been left with all its
functions entered, or has a frame on the stack that says how far it has come; a bridge
that is entered has its buses scanned up to where its frame is (`Covered`), unless the
table was full or its range wraps; and nothing is entered that cannot be reached. When the
stack is empty the scanned buses are therefore closed under bridges and contain bus 0.

`AtaProofs`: `CallsMoveTheirOwn` (`OwnSectors`) and `NothingLeftOver` (`Quiet`), for any
drives, sizes and sequences of calls, with sector numbers of any size: the sectors that
were moved are those the address registers name, the caller's own below 2^28. The
invariant follows a drive for which no wait has
timed out: outside its call it rests; during the call a request for an interrupt means
that it has finished, and `irq_fired` means that besides the handler has withdrawn the
request. So the driver, when it goes on, finds the drive with the answer to its own
command. Other drives may answer at any time without harm, because a latched interrupt is
always that of the selected drive (`LineHeld`).

Only model-checked: the liveness properties (`RunnableRuns`, `SleeperReturns`,
`CallReturns`, `ScanEnds`, `Delivered`), which are out of reach of the prover: it has no
rule for fairness; and `LossHasCause`, whose lists with a cut in them are outside the
invariant of the queues. Every other safety property of a run has a theorem. `NoPanic` and `OnePlace` are model-checked by `start`
beyond the hypotheses of their theorems, with sleeps of one tick and a counter that wraps.

## 5. Plan

In order of importance; the first twelve are done.

1. Scheduler with its queues.
2. The two queues and their abstract specifications.
3. Proofs of masking, of both queues and their refinements.
4. ATA and IDE: command, data and interrupt, with a drive that answers late,
   early or never.
5. Paging with the frame allocator: exclusivity of frames, agreement of bitmap and
   tables, the linear map of the kernel.
6. Tasks: slots, stacks, allocation tables, cleanup; what each failure leaks.
7. Heap: boundary tags on a small address space, against disjoint blocks.
8. Storage manager, PCI scan, interrupt dispatch with EOI, VESA.
9. Proofs of interrupts and of the storage manager.
10. Proofs of the ATA channel, and of `Identity`, `NoEarlyWake` and `UnmaskedAtZero` of
    the scheduler.
11. Proofs of the queues of the scheduler (`NoLostTask`, `OnePlace`, `NoPanic`,
    `SleeperHeld`), of `Vesa`, `Pci` and `Tasks`.
12. Proofs about `Heap`: that the tags divide the heap (`Tiled`), `OwnMemory` and
    `IndexComplete`, for every page size and every sequence of calls.
13. The heap beyond the five coincidences, once the code handles them; interleavings of
    two heap calls, which the cleaner makes possible (`task.c:145` and `:153` run outside its
    safe blocks); a proof of `LossHasCause`.

Small points no module settles: `init_user_stack` stores the address of a local as
stack pointer (`task.c:92`, user threads have no caller); `free_page` does not
invalidate the TLB; a range that ends in the last page of the address space does not end
(`paging-manager.c:117`); `free_block` does not notice a double free.

## 6. Not modelled

The system call table (a constant), GDT, IDT and TSS set-up, serial and `dbgprintf`,
`string.h`, multiboot parsing and the boot code: straight-line port and table writes
with no state that later code depends on beyond being set. BIOS32: the switch to real
mode and back, and the time between `pic_8259_disable` and the remap, in which nothing of
the kernel runs. `vesa_destroy`, `kernel_realloc`, `user_stack_free` and
`scheduler_consume`: no caller. In `Tasks`: a switch inside a call to the heap, and what
tasks do with a heap that was given back. In `Paging`: the rw and user bits, the TLB,
identity-mapped heaps (no caller asks for one). In `Ata`: the `controller_status`
flags, and two threads on one channel, which the driver does not guard against. In
`Pci`: the match fields of drivers and the layout of the headers. In `Heap`: the
content of blocks, and the bootstrap placement of the heap, which is in `Paging`.
