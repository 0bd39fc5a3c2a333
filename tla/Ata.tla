-------------------------------- MODULE Ata ---------------------------------
(***************************************************************************)
(* One ATA channel: ide_read and ide_write of ide-controller.c, the sector *)
(* transfers of ata-pio.c, the interrupt handler of the channel, and the   *)
(* drives on it as the driver uses them (external).                        *)
(*                                                                         *)
(* The drives and the interrupt are concurrent with the driver.  The       *)
(* driver writes a command first and tells the handler that it waits for   *)
(* an interrupt afterwards, so an answer may come early, late or never.    *)
(* There is no lock: one thread at a time is assumed to use the channel.   *)
(***************************************************************************)
EXTENDS Integers, Sequences

CONSTANTS
    Drives,      \* the drives on the channel
    NumLba,      \* sectors of a drive
    Addressable, \* the sector numbers a command can carry (2^28)
    Lbas,        \* bound: the sector numbers at which calls begin
    MaxSectors   \* bound: sectors of one call

ASSUME AtaAssumption ==
    /\ Drives # {} /\ NumLba \in Nat /\ Addressable \in Nat \ {0}
    /\ Lbas \subseteq Nat /\ MaxSectors \in Nat

None == "none"
NoSector == <<None>>   \* what the data register gives when no drive offers any

VARIABLES
    pc,        \* where the calling thread is
    call,      \* the running or last call: op, dev, lba, count
    i,         \* the sector of the call that is being transferred
    moved,     \* history: for each sector of the call, the one the drive moved
    result,    \* what the last call returned
    expected,  \* ide_device_t.irq_expected
    fired,     \* ide_device_t.irq_fired
    selected,  \* the drive the channel talks to
    drive,     \* what each drive is doing, and for which command
    intrq,     \* whether a drive asks for an interrupt
    latched,   \* whether the interrupt controller has seen the request
    late,      \* history: the drives for which a wait has timed out
    lba48      \* the hardware: the drives that report 48-bit addressing

driverVars == <<pc, call, i, moved, result>>
irqVars == <<expected, fired>>
deviceVars == <<selected, drive, intrq, latched>>
vars == <<driverVars, irqVars, deviceVars, late, lba48>>

Idle == [st |-> "idle", op |-> None, lba |-> 0]

(* Nothing compares a sector number with the size of the drive.            *)
Calls == [op : {"read", "write"}, dev : Drives, lba : Lbas, count : 1 .. MaxSectors]

Init ==
    /\ pc = "idle"
    /\ call \in [op : {"read"}, dev : Drives, lba : {0}, count : {1}]
    /\ i = 0 /\ moved = <<>> /\ result = "ok"
    /\ expected = [d \in Drives |-> FALSE] /\ fired = [d \in Drives |-> FALSE]
    /\ selected \in Drives
    /\ drive = [d \in Drives |-> Idle]
    /\ intrq = [d \in Drives |-> FALSE] /\ latched = FALSE
    /\ late = {}
    /\ lba48 \in SUBSET Drives

dev == call.dev

(* The interrupt line follows the selected drive; the controller, which is *)
(* edge triggered, latches a rise and forgets a request that is withdrawn. *)
Line(sel, req) == req[sel]
Latch == latched' = IF Line(selected', intrq') = Line(selected, intrq)
                    THEN latched ELSE Line(selected', intrq')

-----------------------------------------------------------------------------
(* The drives. *)

(* A command written to the selected drive.  A busy drive ignores it.      *)
Accept(op, lba) ==
    IF drive[selected].st \in {"idle", "error"}
    THEN /\ drive' = [drive EXCEPT ![selected] = [st |-> "busy", op |-> op, lba |-> lba]]
         /\ intrq' = [intrq EXCEPT ![selected] = FALSE]
    ELSE UNCHANGED <<drive, intrq>>

(* A drive finishes what it does and asks for an interrupt.  When it takes *)
(* the data of a write only after the command, it may do without.  A       *)
(* sector it does not have is an error.                                    *)
Done(d, st, silent) ==
    /\ drive' = [drive EXCEPT ![d].st = st]
    /\ \/ intrq' = [intrq EXCEPT ![d] = TRUE]
       \/ silent /\ UNCHANGED intrq

Answer(d) ==
    /\ drive[d].st = "busy"
    /\ CASE drive[d].op \in {"read", "write"} ->
              \/ drive[d].lba < NumLba /\ Done(d, "drq", drive[d].op = "write")
              \/ Done(d, "error", FALSE)
         [] OTHER -> Done(d, "idle", FALSE) \/ Done(d, "error", FALSE)
    /\ UNCHANGED selected /\ Latch
    /\ UNCHANGED <<driverVars, irqVars, late, lba48>>

-----------------------------------------------------------------------------
(* A definition with a suffix _Bug... is a faulty variant of the one it    *)
(* precedes; no specification uses it.                                     *)

(* Reading the status register of the selected drive withdraws its request. *)
ReadStatus == intrq' = [intrq EXCEPT ![selected] = FALSE]

(* ata_primary_irq_handle: drives that expect no interrupt are passed over, *)
(* and if none does, the request stays on the line.                        *)
Irq_BugStatus ==   \* the status is not read
    /\ latched
    /\ fired' = [d \in Drives |-> fired[d] \/ expected[d]]
    /\ UNCHANGED intrq
    /\ latched' = FALSE
    /\ UNCHANGED <<driverVars, expected, selected, drive, late, lba48>>

Irq ==
    /\ latched
    /\ fired' = [d \in Drives |-> fired[d] \/ expected[d]]
    /\ IF \E d \in Drives : expected[d] THEN ReadStatus ELSE UNCHANGED intrq
    /\ latched' = FALSE
    /\ UNCHANGED <<driverVars, expected, selected, drive, late, lba48>>

-----------------------------------------------------------------------------
(* ide_read, ide_write *)
Begin(c) ==
    /\ pc = "idle"
    /\ call' = c /\ i' = 0 /\ moved' = <<>>
    /\ pc' = "select"
    /\ UNCHANGED <<result, irqVars, deviceVars, late, lba48>>

(* A drive with 48-bit addressing is refused. *)
Refuse ==
    /\ pc = "select" /\ dev \in lba48
    /\ pc' = "failed"
    /\ UNCHANGED <<call, i, moved, result, irqVars, deviceVars, late, lba48>>

(* ata_pio_select_drive, whose error is ignored. *)
Select ==
    /\ pc = "select" /\ dev \notin lba48
    /\ selected' = dev
    /\ intrq' = [intrq EXCEPT ![dev] = FALSE]
    /\ Latch
    /\ pc' = "command"
    /\ UNCHANGED <<call, i, moved, result, irqVars, drive, late, lba48>>

(* The address registers take 28 bits of a sector number, the rest is lost. *)
Address(lba) == lba % Addressable

Command ==
    /\ pc = "command"
    /\ Accept(call.op, Address(call.lba + i))
    /\ UNCHANGED selected /\ Latch
    /\ pc' = "expect"
    /\ UNCHANGED <<call, i, moved, result, irqVars, late, lba48>>

(* ata_wait_irq, for the command and again for the cache flush. *)
Expect ==
    /\ pc \in {"expect", "flushExpect"}
    /\ expected' = [expected EXCEPT ![dev] = TRUE]
    /\ pc' = IF pc = "expect" THEN "clear" ELSE "flushClear"
    /\ UNCHANGED <<call, i, moved, result, fired, deviceVars, late, lba48>>

Clear ==
    /\ pc \in {"clear", "flushClear"}
    /\ fired' = [fired EXCEPT ![dev] = FALSE]
    /\ pc' = IF pc = "clear" THEN "wait" ELSE "flushWait"
    /\ UNCHANGED <<call, i, moved, result, expected, deviceVars, late, lba48>>

Woken ==
    /\ pc \in {"wait", "flushWait"} /\ fired[dev]
    /\ expected' = [expected EXCEPT ![dev] = FALSE]
    /\ fired' = [fired EXCEPT ![dev] = FALSE]
    /\ pc' = IF pc = "wait" THEN "check" ELSE "next"
    /\ UNCHANGED <<call, i, moved, result, deviceVars, late, lba48>>

Timeout_BugEndless ==   \* the polling loop has no bound
    /\ pc \in {"wait", "flushWait"} /\ ~fired[dev]
    /\ UNCHANGED vars

(* The polling loop is bounded.  irq_expected stays set, and the flush of  *)
(* a write is not asked for its result.                                    *)
Timeout ==
    /\ pc \in {"wait", "flushWait"} /\ ~fired[dev]
    /\ pc' = IF pc = "wait" THEN "failed" ELSE "next"
    /\ late' = late \union {dev}
    /\ UNCHANGED <<call, i, moved, result, irqVars, deviceVars, lba48>>

Check_BugError ==   \* the error bits are not looked at
    /\ pc = "check"
    /\ pc' = "transfer"
    /\ ReadStatus
    /\ UNCHANGED <<selected, drive>> /\ Latch
    /\ UNCHANGED <<call, i, moved, result, irqVars, late, lba48>>

(* ata_post_irq_check *)
Check ==
    /\ pc = "check"
    /\ pc' = IF drive[selected].st = "drq" THEN "transfer" ELSE "failed"
    /\ ReadStatus
    /\ UNCHANGED <<selected, drive>> /\ Latch
    /\ UNCHANGED <<call, i, moved, result, irqVars, late, lba48>>

(* The 256 words of a sector go through the data register. *)
Transfer ==
    /\ pc = "transfer"
    /\ IF drive[selected].st = "drq" /\ drive[selected].op = call.op
       THEN /\ moved' = Append(moved, <<selected, drive[selected].lba>>)
            /\ drive' = [drive EXCEPT ![selected] =
                   IF call.op = "write" THEN [@ EXCEPT !.st = "busy", !.op = "store"] ELSE Idle]
       ELSE /\ moved' = Append(moved, NoSector)
            /\ UNCHANGED drive
    /\ pc' = IF call.op = "write" THEN "flush" ELSE "next"
    /\ UNCHANGED <<call, i, result, irqVars, selected, intrq, latched, late, lba48>>

Flush ==
    /\ pc = "flush"
    /\ Accept("flush", 0)
    /\ UNCHANGED selected /\ Latch
    /\ pc' = "flushExpect"
    /\ UNCHANGED <<call, i, moved, result, irqVars, late, lba48>>

(* The loop over the sectors, and the two ways out of it. *)
NextSector ==
    /\ pc = "next"
    /\ IF i + 1 < call.count
       THEN i' = i + 1 /\ pc' = "select" /\ UNCHANGED result
       ELSE pc' = "idle" /\ result' = "ok" /\ UNCHANGED i
    /\ UNCHANGED <<call, moved, irqVars, deviceVars, late, lba48>>

Fail ==
    /\ pc = "failed"
    /\ pc' = "idle" /\ result' = "error"
    /\ UNCHANGED <<call, i, moved, irqVars, deviceVars, late, lba48>>

-----------------------------------------------------------------------------
Call ==
    \/ Refuse \/ Select \/ Command \/ Expect \/ Clear \/ Woken \/ Timeout
    \/ Check \/ Transfer \/ Flush \/ NextSector \/ Fail

Next ==
    \/ Call \/ Irq
    \/ \E c \in Calls : Begin(c)
    \/ \E d \in Drives : Answer(d)

Spec == Init /\ [][Next]_vars

(* The calling thread gets the CPU; nothing is asked of the drives. *)
LiveSpec == Spec /\ WF_vars(Call)

-----------------------------------------------------------------------------
(* Properties.  Each is about a drive for which no wait has timed out yet: *)
(* afterwards the drive may still be busy with the command that was given  *)
(* up, ignore the next one and answer for the old.  A timeout of one drive *)
(* must not harm the other.                                                *)

(* A successful call has moved, in order and from its own drive, the       *)
(* sectors the address registers name, which the drive has: no interrupt   *)
(* was taken for another command's, no error for success.  They are its    *)
(* own sectors as far as the 28 bits reach; a call beyond moves others.    *)
OwnSectors ==
    pc = "idle" /\ moved # <<>> /\ result = "ok" /\ dev \notin late =>
        /\ moved = [k \in 1 .. call.count |-> <<dev, Address(call.lba + k - 1)>>]
        /\ \A k \in 1 .. call.count : Address(call.lba + k - 1) < NumLba
        /\ call.lba + call.count <= Addressable =>
              moved = [k \in 1 .. call.count |-> <<dev, call.lba + k - 1>>]

(* Between calls the drive does nothing, asks for nothing, and the handler *)
(* expects nothing of it: no interrupt is left over for the next call.     *)
Quiet ==
    pc = "idle" => \A d \in Drives \ late :
        drive[d].st \in {"idle", "error"} /\ ~intrq[d] /\ ~expected[d]

(* Every call returns, whatever the drives do. *)
CallReturns == pc # "idle" ~> pc = "idle"
=============================================================================
