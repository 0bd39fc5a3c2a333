-------------------------------- MODULE Pci ---------------------------------
(***************************************************************************)
(* pci.c: the recursive walk over the buses from pci_scan_bus(0), the      *)
(* table of devices, and the binding of a device to a driver.              *)
(*                                                                         *)
(* The recursion is a stack of frames, innermost first: a bus that is      *)
(* being scanned, or a bridge whose buses are being walked.  Bus numbers   *)
(* are NumBuses values that wrap, as uint8_t does at 256.  The hardware is *)
(* whatever Init chooses: firmware may number the buses as it likes, and a *)
(* bridge may name its own bus or one above it.                            *)
(***************************************************************************)
EXTENDS Integers, Sequences, FiniteSets

CONSTANTS
    NumBuses,    \* 256
    NumSlots,    \* 32
    NumFuncs,    \* 8
    MaxDevices,  \* PCI_MAX_DEVICES
    MaxBridges,  \* bound: bridges in the machine
    Populations, \* bound: the sets of places that other functions may fill
    Multiples    \* bound: the sets of devices that may have several functions

Bus == 0 .. NumBuses - 1
Addresses == [bus : Bus, slot : 0 .. NumSlots - 1, func : 0 .. NumFuncs - 1]
Bridge == [at : Addresses, sec : Bus, sub : Bus]

ASSUME PciAssumption ==
    /\ NumBuses \in Nat \ {0} /\ NumSlots \in Nat \ {0} /\ NumFuncs \in Nat \ {0}
    /\ MaxDevices \in Nat /\ MaxBridges \in Nat /\ Populations \subseteq SUBSET Addresses
    /\ Multiples \subseteq SUBSET Addresses

VARIABLES
    bridges,   \* the hardware: bridges, with their secondary and subordinate bus
    plain,     \* the hardware: places of the other functions
    strange,   \* the hardware: those of them with an unknown header type
    multi,     \* the hardware: the devices that say they have several functions
    stack,     \* the calls under way
    scanned,   \* pci_scanned_bus
    devices,   \* pci_devices
    decoded,   \* pci_decoded
    offered    \* the devices in the order they were offered to the drivers

hardware == <<bridges, plain, strange, multi>>
pciVars == <<hardware, stack, scanned, devices, decoded, offered>>

Present == plain \union {b.at : b \in bridges}
BridgeAt(p) == CHOOSE b \in bridges : b.at = p
At(bus, slot, func) == [bus |-> bus, slot |-> slot, func |-> func]
Scan(bus) == [call |-> "scan", bus |-> bus, slot |-> 0, func |-> 0]

PciInit ==
    /\ \E n \in 0 .. MaxBridges : \E f \in [1 .. n -> Bridge] :
          /\ \A i, j \in 1 .. n : i < j => f[i].at # f[j].at
          /\ bridges = {f[i] : i \in 1 .. n}
    /\ plain \in {S \ {b.at : b \in bridges} : S \in Populations}
    /\ strange \in {S \intersect plain : S \in Populations}
    /\ multi \in Multiples
    /\ stack = <<Scan(0)>> /\ scanned = {0}   \* the call from kernel_main
    /\ devices = <<>> /\ decoded = {} /\ offered = <<>>

-----------------------------------------------------------------------------
Call == Head(stack)
Return == stack' = Tail(stack)
Continue(frame) == stack' = <<frame>> \o Tail(stack)

(* A definition with a suffix _Bug... is a faulty variant of the one it    *)
(* precedes; no specification uses it.                                     *)

(* pci_scan_bus: a bus that has been scanned is left alone *)
Enter_BugRescan(bus, frame) ==
    /\ stack' = <<Scan(bus), frame>> \o Tail(stack)
    /\ scanned' = scanned \union {bus}

Enter(bus, frame) ==
    IF bus \in scanned THEN Continue(frame) /\ UNCHANGED scanned
    ELSE /\ stack' = <<Scan(bus), frame>> \o Tail(stack)
         /\ scanned' = scanned \union {bus}

(* The loop of pci_scan_bus, where nothing answers *)
Functions(bus, slot) == IF At(bus, slot, 0) \in multi THEN NumFuncs ELSE 1

NextFunction ==
    LET p == At(Call.bus, Call.slot, Call.func)
    IN  /\ stack # <<>> /\ Call.call = "scan"
        /\ Call.slot < NumSlots /\ p \notin Present
        /\ Continue(IF Call.func = 0 \/ Call.func + 1 >= Functions(Call.bus, Call.slot)
                    THEN [Call EXCEPT !.slot = @ + 1, !.func = 0]
                    ELSE [Call EXCEPT !.func = @ + 1])
        /\ UNCHANGED <<hardware, scanned, devices, decoded, offered>>

ScanReturns ==
    /\ stack # <<>> /\ Call.call = "scan" /\ Call.slot = NumSlots
    /\ Return
    /\ UNCHANGED <<hardware, scanned, devices, decoded, offered>>

Full == Len(devices) >= MaxDevices

(* pci_decode_device: an unknown header type is not marked as decoded *)
Decode(p) == decoded' = decoded \union ({p} \ strange)

(* pci_register_device_to_driver; what the driver does is in Storage *)
Offer(p) == offered' = Append(offered, p)

(* pci_register_device, up to the walk of a bridge's buses, and the step   *)
(* of the loop that called it                                              *)
Register ==
    LET p == At(Call.bus, Call.slot, Call.func)
        on == IF Call.func + 1 >= Functions(Call.bus, Call.slot)
              THEN [Call EXCEPT !.slot = @ + 1, !.func = 0]
              ELSE [Call EXCEPT !.func = @ + 1]
    IN  /\ stack # <<>> /\ Call.call = "scan"
        /\ Call.slot < NumSlots /\ p \in Present
        /\ IF Full \/ p \in decoded
           THEN Continue(on) /\ UNCHANGED <<devices, decoded, offered>>
           ELSE /\ devices' = Append(devices, p)
                /\ Decode(p)
                /\ IF p \in plain THEN Continue(on) /\ Offer(p)
                   ELSE /\ stack' = <<[call |-> "bridge", at |-> p, bus |-> BridgeAt(p).sec], on>>
                                        \o Tail(stack)
                        /\ UNCHANGED offered
        /\ UNCHANGED <<hardware, scanned>>

(* The loop over the buses behind a bridge; then the bridge is offered to  *)
(* the drivers.                                                            *)
WalkBridge_BugFirst ==   \* only the secondary bus is walked
    /\ stack # <<>> /\ Call.call = "bridge"
    /\ Call.bus = BridgeAt(Call.at).sec /\ Call.bus <= BridgeAt(Call.at).sub
    /\ Enter(Call.bus, [Call EXCEPT !.bus = BridgeAt(Call.at).sub + 1])
    /\ UNCHANGED <<hardware, devices, decoded, offered>>

WalkBridge_BugStay ==   \* a bus that was scanned before is not stepped over
    /\ stack # <<>> /\ Call.call = "bridge"
    /\ Call.bus <= BridgeAt(Call.at).sub
    /\ Enter(Call.bus, IF Call.bus \in scanned THEN Call
                       ELSE [Call EXCEPT !.bus = (@ + 1) % NumBuses])
    /\ UNCHANGED <<hardware, devices, decoded, offered>>

WalkBridge ==
    /\ stack # <<>> /\ Call.call = "bridge"
    /\ Call.bus <= BridgeAt(Call.at).sub
    /\ Enter(Call.bus, [Call EXCEPT !.bus = (@ + 1) % NumBuses])
    /\ UNCHANGED <<hardware, devices, decoded, offered>>

BridgeDone ==
    /\ stack # <<>> /\ Call.call = "bridge"
    /\ Call.bus > BridgeAt(Call.at).sub
    /\ Return
    /\ Offer(Call.at)
    /\ UNCHANGED <<hardware, scanned, devices, decoded>>

PciNext == NextFunction \/ ScanReturns \/ Register \/ WalkBridge \/ BridgeDone

PciSpec == PciInit /\ [][PciNext]_pciVars /\ WF_pciVars(PciNext)

-----------------------------------------------------------------------------
(* Properties. *)

Done == stack = <<>>

(* The functions that can be seen on a bus: those of slots whose function  *)
(* 0 answers.                                                              *)
Visible(bus) ==
    {p \in Present : /\ p.bus = bus /\ At(bus, p.slot, 0) \in Present
                     /\ p.func < Functions(p.bus, p.slot)}

(* The buses one can get to from bus 0 through visible bridges: the least  *)
(* set with bus 0 that is closed under them.                               *)
Closed(S) ==
    /\ 0 \in S
    /\ \A bus \in S, b \in bridges : b.at \in Visible(bus) => b.sec .. b.sub \subseteq S

Reachable == {bus \in Bus : \A S \in SUBSET Bus : Closed(S) => bus \in S}

(* However the bridges refer to each other's buses, when the scan ends     *)
(* with room in the table, it has entered every function on every bus that *)
(* can be reached, each once, and offered each to the drivers once: the    *)
(* bus marks neither hide a bus nor let one be scanned twice.              *)
Complete ==
    Done /\ Len(devices) < MaxDevices =>
        /\ {devices[i] : i \in DOMAIN devices} = UNION {Visible(bus) : bus \in Reachable}
        /\ {offered[i] : i \in DOMAIN offered} = {devices[i] : i \in DOMAIN devices}

(* At any time of the scan, and also when the table is full: no function   *)
(* is entered or offered twice, although the recursion comes to a bus from *)
(* every bridge that names it, and the table is not overrun, although a    *)
(* bridge's devices are entered before the call for the bridge returns.    *)
TableSound ==
    /\ Len(devices) <= MaxDevices
    /\ \A i, j \in DOMAIN devices : i < j => devices[i] # devices[j]
    /\ \A i, j \in DOMAIN offered : i < j => offered[i] # offered[j]

(* The scan ends, also when bridges name each other's buses in a circle,   *)
(* provided that no bridge ends at the last bus number: the counter of the *)
(* loop in pci_register_device cannot exceed that.                         *)
ScanEnds == (\A b \in bridges : b.sub < NumBuses - 1) => <>Done

=============================================================================
