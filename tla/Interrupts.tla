----------------------------- MODULE Interrupts ------------------------------
(***************************************************************************)
(* ir_handler of interrupts.c, the handlers behind it, and the protocol it *)
(* keeps with the two interrupt controllers: which end-of-interrupt        *)
(* command is sent by whom, when, and with which interrupt in service.     *)
(*                                                                         *)
(* A flow (a task's stack) holds the frames of the interrupts that have    *)
(* not returned, innermost first.  A handler that calls the scheduler      *)
(* leaves the CPU to another flow with its frame unfinished, and every     *)
(* INTERRUPT_SAFE_BLOCK in a handler ends with an sti when it brings the   *)
(* counter to 0: from there on the handler itself can be interrupted.      *)
(*                                                                         *)
(* The controllers are as the code sets them up: fixed priorities, lines   *)
(* 8 .. 15 behind line 2, an EOI that names no line, nothing masked.       *)
(***************************************************************************)
EXTENDS Integers, Sequences

CONSTANTS
    Flow,        \* the flows of control
    Lines,       \* the lines on which requests come
    MaxRaises,   \* bound: requests
    MaxFrames    \* bound: frames on one stack

ASSUME InterruptsAssumption ==
    /\ Flow # {} /\ Lines \subseteq (0 .. 15) \ {2}
    /\ MaxRaises \in Nat /\ MaxFrames \in Nat \ {0}

Cascade == 2     \* CASCADE_IRQ
Timer == 32
Ata == {46, 47}
Syscall == 128
Fault == 14      \* any vector below 32

VARIABLES
    irr,        \* lines with a request that was not delivered
    isr,        \* lines in service, Cascade among them
    raises,     \* requests so far
    cur,        \* the flow that runs
    intOn,      \* the interrupt flag
    frames,     \* per flow: its frames, innermost first
    handles,    \* the vectors with a handler in interrupts_handles
    booted      \* kernel_main has enabled interrupts

vars == <<irr, isr, raises, cur, intOn, frames, handles, booted>>

Init ==
    /\ irr = {} /\ isr = {} /\ raises = 0
    /\ cur \in Flow /\ intOn = FALSE   \* kernel_main begins with DISABLE_INTERRUPTS
    /\ frames = [f \in Flow |-> <<>>]
    /\ handles = {} /\ booted = FALSE

-----------------------------------------------------------------------------
Frame == Head(frames[cur])
InFrame(at) == frames[cur] # <<>> /\ Frame.at = at
GoTo(at) == frames' = [frames EXCEPT ![cur] = <<[Frame EXCEPT !.at = at]>> \o Tail(@)]
Push(vector) ==
    frames' = [frames EXCEPT ![cur] = <<[vector |-> vector, at |-> "handler", flag |-> intOn]>> \o @]

(* The controllers: the lines of each in service, and what an EOI without  *)
(* a line ends, which is the one of highest priority.                      *)
Master == {l \in isr : l < 8}
Slave == {l \in isr : l >= 8}
Rank(l) == IF l >= 8 THEN Cascade ELSE l
Ended(lines) == isr \ {l \in lines : \A m \in lines : l <= m}

(* A request gets through when nothing of its priority or above is in      *)
(* service and no request of a higher one waits.                           *)
Deliverable(l) ==
    /\ l \in irr
    /\ \A m \in Master : Rank(l) < m
    /\ l >= 8 => \A m \in Slave : l < m
    /\ \A m \in irr : Rank(l) < Rank(m) \/ (Rank(l) = Rank(m) /\ l <= m)

Raise(l) ==
    /\ raises < MaxRaises /\ l \notin irr
    /\ irr' = irr \union {l} /\ raises' = raises + 1
    /\ UNCHANGED <<isr, cur, intOn, frames, handles, booted>>

-----------------------------------------------------------------------------
(* A definition with a suffix _Bug... is a faulty variant of the one it    *)
(* precedes; no specification uses it.                                     *)

(* kernel_main: the handlers are entered while interrupts are off.         *)
Register(v) ==
    /\ ~booted /\ v \notin handles
    /\ v \in {Syscall, Timer} \union Ata
    /\ handles' = handles \union {v}
    /\ UNCHANGED <<irr, isr, raises, cur, intOn, frames, booted>>

(* kernel_main and each BIOS call set the controllers up again: they       *)
(* forget what they hold.  All BIOS calls are made before the timer's      *)
(* handler is entered, inside kernel_main's DISABLE_INTERRUPTS.            *)
pic_8259_remap ==
    /\ ~booted /\ Timer \notin handles
    /\ irr' = {} /\ isr' = {}
    /\ UNCHANGED <<raises, cur, intOn, frames, handles, booted>>

BootEnable_BugEarly ==   \* interrupts are enabled before the timer is set up
    /\ ~booted /\ Syscall \in handles
    /\ booted' = TRUE /\ intOn' = TRUE
    /\ UNCHANGED <<irr, isr, raises, cur, frames, handles>>

BootEnable ==
    /\ ~booted /\ {Syscall, Timer} \subseteq handles
    /\ booted' = TRUE /\ intOn' = TRUE
    /\ UNCHANGED <<irr, isr, raises, cur, frames, handles>>

(* The gates and the cli of the stubs: a handler begins with interrupts    *)
(* off, and iret gives back the flag of the code it interrupted.           *)
Interrupt(l) ==
    /\ intOn /\ Deliverable(l) /\ Len(frames[cur]) < MaxFrames
    /\ irr' = irr \ {l}
    /\ isr' = isr \union {l, Rank(l)}
    /\ Push(l + 32)
    /\ intOn' = FALSE
    /\ UNCHANGED <<raises, cur, handles, booted>>

(* A request that is withdrawn before it is acknowledged comes as the last *)
(* line of its controller, which is not put in service.                    *)
Spurious(l) ==
    /\ intOn /\ l \in {7, 15} \intersect Lines /\ raises < MaxRaises
    /\ Len(frames[cur]) < MaxFrames
    /\ Master = {} /\ Slave = {}
    /\ raises' = raises + 1
    /\ isr' = IF l = 15 THEN isr \union {Cascade} ELSE isr
    /\ Push(l + 32)
    /\ intOn' = FALSE
    /\ UNCHANGED <<irr, cur, handles, booted>>

SyscallEnters ==   \* int 0x80
    /\ booted /\ frames[cur] = <<>> /\ intOn
    /\ Push(Syscall)
    /\ intOn' = FALSE
    /\ UNCHANGED <<irr, isr, raises, cur, handles, booted>>

Faults ==   \* an exception, of a flow or in a system call
    /\ booted /\ (frames[cur] = <<>> \/ (InFrame("handler") /\ Frame.vector = Syscall))
    /\ Len(frames[cur]) < MaxFrames
    /\ Push(Fault)
    /\ intOn' = FALSE
    /\ UNCHANGED <<irr, isr, raises, cur, handles, booted>>

-----------------------------------------------------------------------------
(* Another flow runs on where it left off, or starts.  What it runs first  *)
(* is the end of a safe block or, for a new one, an iret: interrupts are   *)
(* on, unless the counter was not 1.                                       *)
Switch ==
    \E g \in Flow :
        /\ cur' = g
        /\ intOn' \in {TRUE, intOn}

(* timer_handle *)
TimerEoi_BugLate ==   \* the timer's EOI is left to ir_handler
    /\ InFrame("handler") /\ Frame.vector = Timer /\ Timer \in handles
    /\ GoTo("schedule")
    /\ UNCHANGED <<irr, isr, raises, cur, intOn, handles, booted>>

TimerEoi ==
    /\ InFrame("handler") /\ Frame.vector = Timer /\ Timer \in handles
    /\ isr' = Ended(Master)
    /\ GoTo("schedule")
    /\ UNCHANGED <<irr, raises, cur, intOn, handles, booted>>

Schedule ==
    /\ InFrame("schedule")
    /\ GoTo("handled")
    /\ Switch
    /\ UNCHANGED <<irr, isr, raises, handles, booted>>

(* ata_primary_irq_handle, ata_secondary_irq_handle: IR_EOI is given the   *)
(* line and not the vector, so that the master alone is told.              *)
AtaEoi ==
    /\ InFrame("handler") /\ Frame.vector \in Ata \intersect handles
    /\ isr' = Ended(Master)
    /\ GoTo("handled")
    /\ UNCHANGED <<irr, raises, cur, intOn, handles, booted>>

(* The flow's own safe block ends, after which the counter is 0.           *)
Unmask ==
    /\ booted /\ frames[cur] = <<>> /\ ~intOn
    /\ intOn' = TRUE
    /\ UNCHANGED <<irr, isr, raises, cur, frames, handles, booted>>

(* A system call: some have safe blocks, some call the scheduler.          *)
SafeBlock ==
    /\ InFrame("handler") /\ Frame.vector = Syscall /\ ~intOn
    /\ intOn' = TRUE
    /\ UNCHANGED <<irr, isr, raises, cur, frames, handles, booted>>

CallsScheduler ==   \* also called by kernel threads in their own code
    /\ booted
    /\ (InFrame("handler") /\ Frame.vector = Syscall) \/ (frames[cur] = <<>> /\ intOn)
    /\ Switch
    /\ UNCHANGED <<irr, isr, raises, frames, handles, booted>>

HandlerReturns ==
    /\ InFrame("handler")
    /\ Frame.vector # Fault
    /\ Frame.vector \notin handles \/ Frame.vector = Syscall
    /\ GoTo("handled")
    /\ UNCHANGED <<irr, isr, raises, cur, intOn, handles, booted>>

-----------------------------------------------------------------------------
(* ir_handler after the handler: IR_EOI is two writes.                     *)
NeedsSlave_BugBound == Frame.vector > 40   \* > for >= in IR_EOI

NeedsSlave == Frame.vector >= 40

NeedsMaster == Frame.vector > 32

SlaveEoi ==
    /\ InFrame("handled") /\ NeedsSlave
    /\ isr' = Ended(Slave)
    /\ GoTo("slaveTold")
    /\ UNCHANGED <<irr, raises, cur, intOn, handles, booted>>

MasterEoi ==
    /\ InFrame("slaveTold") \/ (InFrame("handled") /\ NeedsMaster /\ ~NeedsSlave)
    /\ isr' = Ended(Master)
    /\ GoTo("iret")
    /\ UNCHANGED <<irr, raises, cur, intOn, handles, booted>>

Iret ==
    /\ InFrame("iret") \/ (InFrame("handled") /\ ~NeedsMaster)
    /\ intOn' = Frame.flag
    /\ frames' = [frames EXCEPT ![cur] = Tail(@)]
    /\ UNCHANGED <<irr, isr, raises, cur, handles, booted>>

Runs == \/ TimerEoi \/ Schedule \/ AtaEoi \/ HandlerReturns
        \/ SlaveEoi \/ MasterEoi \/ Iret \/ Unmask
Arrives == \E l \in Lines : Interrupt(l)

Next ==
    \/ Runs \/ Arrives \/ pic_8259_remap \/ BootEnable
    \/ SyscallEnters \/ Faults \/ SafeBlock \/ CallsScheduler
    \/ \E v \in {Syscall, Timer} \union Ata : Register(v)
    \/ \E l \in Lines : Raise(l) \/ Spurious(l)

Spec == Init /\ [][Next]_vars

(* The CPU executes handlers and safe blocks to their end, and takes a     *)
(* request at the next instruction boundary at which it may: being         *)
(* interruptible now and then is enough for that.                          *)
LiveSpec == Spec /\ WF_vars(Runs) /\ SF_vars(Arrives)

-----------------------------------------------------------------------------
(* Properties. *)

At == {"handler", "schedule", "handled", "slaveTold", "iret"}
FrameType == [vector : Nat, at : At, flag : BOOLEAN]

TypeOK ==
    /\ irr \subseteq Lines /\ isr \subseteq Lines \union {Cascade}
    /\ raises \in Nat /\ cur \in Flow /\ intOn \in BOOLEAN
    /\ frames \in [Flow -> Seq(FrameType)]
    /\ handles \subseteq {Syscall, Timer} \union Ata /\ booted \in BOOLEAN

(* Whenever the CPU can be interrupted, nothing is in service: no handler  *)
(* that was left to run later, and none that opened interrupts in a safe   *)
(* block, holds back the requests of the others.                           *)
NothingWithheld == intOn => isr = {}

(* An EOI that ends anything ends the interrupt whose handler sends it:    *)
(* the second EOI of the ATA interrupts, the EOI after a system call and   *)
(* the one after a spurious interrupt find nothing else to end.            *)
EndsOwn ==
    [][\A l \in isr \ isr' :
          \/ Frame.vector = l + 32
          \/ l = Cascade /\ Frame.vector \in 40 .. 47]_vars

(* Once kernel_main has enabled interrupts, every request is delivered,    *)
(* unless an exception stops the machine: system calls, switches and other *)
(* interrupts delay it, none of them for ever.                             *)
Faulted == \E f \in Flow : \E i \in DOMAIN frames[f] : frames[f][i].vector = Fault
Delivered == \A l \in Lines : (booted /\ l \in irr) ~> (l \notin irr \/ Faulted)

=============================================================================
