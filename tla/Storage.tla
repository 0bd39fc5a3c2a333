------------------------------- MODULE Storage -------------------------------
(***************************************************************************)
(* storage-manager.c: the table of storage controllers, and the probe of   *)
(* the IDE driver that fills it (ide_pci_probe, ata_pio_init_drive).       *)
(*                                                                         *)
(* The probe runs at boot with interrupts off, once for every PCI function *)
(* of the IDE class, and talks to the same legacy ports each time.  A      *)
(* drive may answer one probe and fail the next.  The kernel adds          *)
(* controllers only; storage_manager_remove_controller and                 *)
(* storage_manager_get_controller are open to the rest of the kernel and   *)
(* are called here between probes with any uid that was given.             *)
(***************************************************************************)
EXTENDS Integers

CONSTANTS
    MaxControllers,  \* STORAGE_MANAGER_MAX_CONTROLLERS
    ByteValues,      \* 2^8: removal and lookup take the uid as uint8_t
    MaxProbes        \* bound: PCI functions of the IDE class

ASSUME StorageAssumption ==
    /\ MaxControllers \in Nat \ {0} /\ ByteValues \in Nat \ {0} /\ MaxProbes \in Nat

Channels == 0 .. 1   \* ATA_PRIMARY, ATA_SECONDARY
Drives == 0 .. 1     \* ATA_MASTER, ATA_SLAVE

Place(channel, drive) == (2 * channel) + drive   \* the index into ide_devices
Places == {Place(c, d) : c \in Channels, d \in Drives}
Zeroed == [channel |-> 0, drive |-> 0, ready |-> FALSE]
Empty == [impl |-> 0, uid |-> 0]
None == [at |-> 0, uid |-> 0, stale |-> FALSE]

VARIABLES
    healthy,              \* the hardware: the drives that answer every probe
    controllers,          \* the table; an entry behind the count keeps its content
    controller_count,
    next_controller_uid,
    ide_devices,
    probe,                \* [channel, drive, waiting] of the probe under way, or idle
    probes,               \* probes begun
    answered,             \* history: the drives whose latest identification succeeded
    asked,                \* history: uids that a removal that succeeded was asked for
    held                  \* history: a pointer that a lookup returned

table == <<controllers, controller_count, next_controller_uid>>
disk == <<healthy, ide_devices, probe, probes, answered>>
vars == <<table, disk, asked, held>>

Idle == [channel |-> 2, drive |-> 0, waiting |-> FALSE]

Init ==   \* after storage_manager_setup
    /\ controllers = [i \in 1 .. MaxControllers |-> Empty] /\ controller_count = 0
    /\ next_controller_uid = 1
    /\ healthy \in SUBSET Places
    /\ ide_devices = [p \in Places |-> Zeroed]
    /\ probe = Idle /\ probes = 0 /\ answered = {}
    /\ asked = {} /\ held = None

-----------------------------------------------------------------------------
(* A definition with a suffix _Bug... is a faulty variant of the one it    *)
(* precedes; no specification uses it.                                     *)

(* The loops over the channels and their drives                            *)
After(c, d) ==
    IF d = 0 THEN [channel |-> c, drive |-> 1, waiting |-> FALSE]
    ELSE [channel |-> c + 1, drive |-> 0, waiting |-> FALSE]

Probing == probe.channel \in Channels
Here == Place(probe.channel, probe.drive)

(* storage_manager_add_controller with uid -1, which no entry has: the     *)
(* test for STORAGE_MANAGER_EXISTS never holds.  The result is ignored.    *)
Add(impl) ==
    IF controller_count >= MaxControllers
    THEN UNCHANGED table
    ELSE /\ controllers' = [controllers EXCEPT ![controller_count + 1] =
                               [impl |-> impl, uid |-> next_controller_uid]]
         /\ controller_count' = controller_count + 1
         /\ next_controller_uid' = next_controller_uid + 1

ide_pci_probe ==
    /\ ~Probing /\ probes < MaxProbes
    /\ probe' = [channel |-> 0, drive |-> 0, waiting |-> FALSE]
    /\ probes' = probes + 1
    /\ UNCHANGED <<healthy, table, ide_devices, answered, asked, held>>

(* ata_pio_init_drive up to the first status: a drive that is not there is *)
(* forgotten.                                                              *)
Absent ==
    /\ Probing /\ ~probe.waiting /\ Here \notin healthy
    /\ ide_devices' = [ide_devices EXCEPT ![Here] = Zeroed]
    /\ answered' = answered \ {Here}
    /\ probe' = After(probe.channel, probe.drive)
    /\ UNCHANGED <<healthy, table, probes, asked, held>>

Select_BugDrive ==   \* the drive is written into the entry of the channel's master
    /\ Probing /\ ~probe.waiting
    /\ ide_devices' = [ide_devices EXCEPT ![Place(probe.channel, 0)].channel = probe.channel,
                                          ![Place(probe.channel, 0)].drive = probe.drive]
    /\ probe' = [probe EXCEPT !.waiting = TRUE]
    /\ UNCHANGED <<healthy, table, probes, answered, asked, held>>

Select ==
    /\ Probing /\ ~probe.waiting
    /\ ide_devices' = [ide_devices EXCEPT ![Here].channel = probe.channel,
                                          ![Here].drive = probe.drive]
    /\ probe' = [probe EXCEPT !.waiting = TRUE]
    /\ UNCHANGED <<healthy, table, probes, answered, asked, held>>

(* The wait for DRQ or ERR, which a drive that stays busy never ends       *)
Aborted ==
    /\ Probing /\ probe.waiting /\ Here \notin healthy
    /\ ide_devices' = [ide_devices EXCEPT ![Here] = Zeroed]
    /\ answered' = answered \ {Here}
    /\ probe' = After(probe.channel, probe.drive)
    /\ UNCHANGED <<healthy, table, probes, asked, held>>

Identified ==
    /\ Probing /\ probe.waiting
    /\ ide_devices' = [ide_devices EXCEPT ![Here].ready = TRUE]
    /\ answered' = answered \union {Here}
    /\ Add(Here)
    /\ probe' = After(probe.channel, probe.drive)
    /\ UNCHANGED <<healthy, probes, asked, held>>

-----------------------------------------------------------------------------
(* The first entry whose uid is the asked one as uint8_t, or 0             *)
Find(uid) ==
    LET hits == {i \in 1 .. controller_count : controllers[i].uid = uid % ByteValues}
    IN  IF hits = {} THEN 0 ELSE CHOOSE i \in hits : \A j \in hits : i <= j

Shift_BugEnd(index) ==   \* the loop ends one entry early
    [i \in 1 .. MaxControllers |->
        IF i \in index .. controller_count - 2 THEN controllers[i + 1] ELSE controllers[i]]

Shift_BugStart(index) ==   \* the loop begins one entry early
    [i \in 1 .. MaxControllers |->
        IF i \in index - 1 .. controller_count - 1 THEN controllers[i + 1] ELSE controllers[i]]

Shift(index) ==
    [i \in 1 .. MaxControllers |->
        IF i \in index .. controller_count - 1 THEN controllers[i + 1] ELSE controllers[i]]

storage_manager_remove_controller(uid) ==
    /\ ~Probing /\ Find(uid) # 0
    /\ controllers' = Shift(Find(uid))
    /\ controller_count' = controller_count - 1
    /\ asked' = asked \union {uid}
    /\ held' = [held EXCEPT !.stale = @ \/ Find(uid) <= held.at]
    /\ UNCHANGED <<next_controller_uid, disk>>

storage_manager_get_controller(uid) ==
    /\ ~Probing /\ Find(uid) # 0
    /\ held' = [at |-> Find(uid), uid |-> uid, stale |-> FALSE]
    /\ UNCHANGED <<table, disk, asked>>

Next ==
    \/ ide_pci_probe \/ Absent \/ Select \/ Aborted \/ Identified
    \/ \E uid \in 1 .. next_controller_uid - 1 :
           storage_manager_remove_controller(uid) \/ storage_manager_get_controller(uid)

Spec == Init /\ [][Next]_vars

-----------------------------------------------------------------------------
(* Properties. *)

Live == 1 .. controller_count
Narrow(uids) == \A u \in uids : u < ByteValues

TypeOK ==
    /\ controller_count \in 0 .. MaxControllers
    /\ next_controller_uid \in Nat \ {0}
    /\ controllers \in [1 .. MaxControllers -> [impl : Places, uid : Nat]]
    /\ ide_devices \in [Places -> [channel : Channels, drive : Drives, ready : BOOLEAN]]
    /\ probe \in [channel : 0 .. 2, drive : Drives, waiting : BOOLEAN]
    /\ healthy \in SUBSET Places /\ asked \in SUBSET Nat
    /\ probes \in Nat /\ answered \in SUBSET Places
    /\ held \in [at : 0 .. MaxControllers, uid : Nat, stale : BOOLEAN]

(* The table is in the order of the uids, which are all different and were *)
(* all given: removals in any order, and later additions, keep it so, and  *)
(* a lookup by uid can find one entry only.                                *)
UidsIncrease ==
    /\ \A i \in Live : controllers[i].uid \in 1 .. next_controller_uid - 1
    /\ \A i, j \in Live : i < j => controllers[i].uid < controllers[j].uid

(* Every controller that was added is in the table until its own removal   *)
(* was asked for, as long as no uid that does not fit in a byte was asked  *)
(* for; from then on another controller may be removed in its place.       *)
Accounted ==
    /\ UidsIncrease
    /\ Narrow(asked) =>
          {controllers[i].uid : i \in Live} = 1 .. next_controller_uid - 1 \ asked

(* A controller of a drive that answered last time refers to the device    *)
(* of that drive, though every probe writes into the same four devices.    *)
(* (One that failed a later probe is zeroed under its controller, which    *)
(* from then on names the first drive of the first channel.)               *)
Refers ==
    \A i \in Live, c \in Channels, d \in Drives :
        (controllers[i].impl = Place(c, d) /\ Place(c, d) \in answered) =>
            ide_devices[Place(c, d)] = [channel |-> c, drive |-> d, ready |-> TRUE]

(* From the end of the first probe on, as long as no removal was asked     *)
(* for, every drive that answers has a controller: the probe looks at all  *)
(* places, and what it adds a second time, when a second function of the   *)
(* IDE class is probed and the table overflows, costs no drive its entry.  *)
EveryDrive ==
    probes > 0 /\ (probes = 1 => ~Probing) /\ asked = {} =>
        healthy \subseteq {controllers[i].impl : i \in Live}

(* What the rest of the kernel relies on when it reads a disk: the drive   *)
(* is in the table and its entry leads to it.                              *)
DrivesServed == Refers /\ EveryDrive

(* A pointer that a lookup returned refers to the controller that was      *)
(* asked for until that one or one before it is removed, which shifts the  *)
(* table under the pointer.                                                *)
HeldRight ==
    held # None /\ ~held.stale /\ held.uid < ByteValues =>
        /\ held.at \in Live
        /\ controllers[held.at].uid = held.uid

=============================================================================
