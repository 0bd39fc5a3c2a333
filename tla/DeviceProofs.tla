---------------------------- MODULE DeviceProofs -----------------------------
(***************************************************************************)
(* Proofs about what is done with the devices at boot: Storage, for every  *)
(* size of the table, every width of the uids and any number of probes;    *)
(* Vesa, for every list of modes and every length of the table; Pci, for   *)
(* any number of buses, slots, functions and bridges.                      *)
(*                                                                         *)
(* Storage: the inductive invariant adds to the properties that the uids   *)
(* grow along the table, so that a lookup finds one entry at most; that a  *)
(* drive which waits for its identification has been written into its own  *)
(* place of ide_devices; and how far the first probe has come when it is   *)
(* under way.                                                              *)
(*                                                                         *)
(* Vesa: the invariant says what the table holds when a part of the list   *)
(* has been read, and what is known of the modes that were passed over.    *)
(*                                                                         *)
(* Pci: the recursion is a depth-first search.  The invariant says of each *)
(* bus that is scanned, while its scan is under way and after it, which of *)
(* its functions are entered; and of each bridge, which of its buses.      *)
(***************************************************************************)
EXTENDS Storage, Vesa, Pci, TLAPS

-----------------------------------------------------------------------------
(* Storage. *)

Impls == {controllers[i].impl : i \in Live}
Uids == {controllers[i].uid : i \in Live}

AskedGiven == asked \subseteq 1 .. next_controller_uid - 1

Names(device, c, d) == device.channel = c /\ device.drive = d /\ device.ready

(* The drive at `Here' that waits, and the drives that answered, are in    *)
(* their places.                                                           *)
DevicesTrue ==
    /\ Probing /\ probe.waiting =>
          ide_devices[Here].channel = probe.channel /\ ide_devices[Here].drive = probe.drive
    /\ \A c \in Channels, d \in Drives :
          Place(c, d) \in answered => Names(ide_devices[Place(c, d)], c, d)

(* The first probe has left behind it a controller for every healthy drive *)
(* up to `Here', and no more controllers than drives.                      *)
Progress ==
    /\ ~Probing => probe = Idle
    /\ asked = {} =>
          /\ probes = 0 => ~Probing /\ controller_count = 0
          /\ probes = 1 => controller_count <= Here /\ \A p \in healthy : p < Here => p \in Impls
          /\ probes > 1 => healthy \subseteq Impls

Table == TypeOK /\ AskedGiven /\ Accounted /\ HeldRight

-----------------------------------------------------------------------------
(* The four places, and the order in which the probe takes them.           *)
LEMMA PlaceNumber ==
    /\ \A c \in Channels, d \in Drives : Place(c, d) \in 0 .. 3
    /\ \A c, b \in Channels, d, e \in Drives : Place(c, d) = Place(b, e) => c = b /\ d = e
    /\ Places = 0 .. 3
<1>1. Channels = {0, 1} /\ Drives = {0, 1}
  BY DEF Channels, Drives
<1>2. Places = {Place(0, 0), Place(0, 1), Place(1, 0), Place(1, 1)}
  BY <1>1 DEF Places
<1> QED
  BY <1>1, <1>2 DEF Place

LEMMA NextPlace ==
    ASSUME TypeOK, Probing
    PROVE  /\ probe.channel \in Channels /\ probe.drive \in Drives /\ Here \in Places
           /\ After(probe.channel, probe.drive) \in
                 [channel : 0 .. 2, drive : Drives, waiting : BOOLEAN]
           /\ LET a == After(probe.channel, probe.drive)
              IN  /\ Place(a.channel, a.drive) = Here + 1 /\ ~a.waiting
                  /\ a.channel \notin Channels => a = Idle
<1>1. probe.channel \in {0, 1} /\ probe.drive \in {0, 1}
  BY DEF TypeOK, Probing, Channels, Drives
<1>2. Here \in Places
  BY <1>1 DEF Here, Places, Channels, Drives
<1>3. CASE probe.drive = 0
  BY <1>1, <1>2, <1>3 DEF After, Idle, Place, Here, Channels, Drives
<1>4. CASE probe.drive = 1
  <2>1. After(probe.channel, probe.drive) =
            [channel |-> probe.channel + 1, drive |-> 0, waiting |-> FALSE]
    BY <1>4 DEF After
  <2>2. probe.channel + 1 \notin Channels => probe.channel + 1 = 2
    BY <1>1 DEF Channels
  <2>3. Here = 2 * probe.channel + 1
    BY <1>4 DEF Here, Place
  <2>4. Place(probe.channel + 1, 0) = Here + 1
    BY <1>1, <2>3 DEF Place
  <2>5. probe.channel + 1 \in 0 .. 2
    BY <1>1
  <2>6. After(probe.channel, probe.drive) \in
            [channel : 0 .. 2, drive : Drives, waiting : BOOLEAN]
    BY <2>1, <2>5 DEF Drives
  <2>7. /\ After(probe.channel, probe.drive).channel = probe.channel + 1
        /\ After(probe.channel, probe.drive).drive = 0
        /\ ~After(probe.channel, probe.drive).waiting
    BY <2>1
  <2>8. probe.channel \in Channels /\ probe.drive \in Drives
    BY <1>1 DEF Channels, Drives
  <2>9. After(probe.channel, probe.drive).channel \notin Channels =>
            After(probe.channel, probe.drive) = Idle
    BY <2>1, <2>2, <2>7 DEF Idle
  <2> QED
    BY <1>2, <2>4, <2>6, <2>7, <2>8, <2>9
<1> QED
  BY <1>1, <1>3, <1>4

(* A lookup finds the one entry with that uid.                             *)
LEMMA FindOne ==
    ASSUME TypeOK, UidsIncrease, NEW uid \in Nat, Find(uid) # 0
    PROVE  Find(uid) \in Live /\ controllers[Find(uid)].uid = uid % ByteValues
<1> DEFINE hits == {i \in 1 .. controller_count : controllers[i].uid = uid % ByteValues}
<1>1. Find(uid) = CHOOSE i \in hits : \A j \in hits : i <= j
  BY DEF Find
<1>2. PICK i \in hits : TRUE
  BY DEF Find
<1>3. \A j \in hits : i <= j
  <2>1. SUFFICES ASSUME NEW j \in hits, ~(i <= j) PROVE FALSE
    OBVIOUS
  <2>2. i \in Live /\ j \in Live /\ j < i /\ controllers[i].uid = controllers[j].uid
    BY <1>2, <2>1 DEF Live, TypeOK
  <2>3. controllers[j].uid < controllers[i].uid /\ controllers[j].uid \in Nat
    BY <2>2 DEF UidsIncrease
  <2> QED
    BY <2>2, <2>3
<1>4. Find(uid) \in hits
  BY <1>1, <1>2, <1>3
<1> QED
  BY <1>4 DEF Live

(* What a removal leaves: the entries of the table but the one at `index'. *)
LEMMA Removed ==
    ASSUME TypeOK, UidsIncrease, NEW index \in Live,
           controllers' = Shift(index), controller_count' = controller_count - 1
    PROVE  /\ controller_count' \in 0 .. MaxControllers /\ Live' \subseteq Live
           /\ controllers' \in [1 .. MaxControllers -> [impl : Places, uid : Nat]]
           /\ \A i \in Live' : IF i < index THEN controllers'[i] = controllers[i]
                              ELSE i + 1 \in Live /\ controllers'[i] = controllers[i + 1]
           /\ Uids' = Uids \ {controllers[index].uid}
<1>1. controller_count \in 0 .. MaxControllers /\ controller_count' = controller_count - 1
      /\ MaxControllers \in Nat /\ index \in 1 .. controller_count
      /\ Live = 1 .. controller_count /\ Live' = 1 .. controller_count - 1
  BY StorageAssumption DEF TypeOK, Live
<1>2. \A i \in 1 .. MaxControllers : controllers[i] \in [impl : Places, uid : Nat]
  BY DEF TypeOK
<1>3. /\ controllers' \in [1 .. MaxControllers -> [impl : Places, uid : Nat]]
      /\ \A i \in Live' : IF i < index THEN controllers'[i] = controllers[i]
                         ELSE i + 1 \in Live /\ controllers'[i] = controllers[i + 1]
  BY <1>1, <1>2 DEF Shift
<1>4. ASSUME NEW u \in Uids' PROVE u \in Uids \ {controllers[index].uid}
  <2>1. PICK i \in Live' : u = controllers'[i].uid
    BY DEF Uids
  <2>2. CASE i < index
    <3>1. i \in Live /\ u = controllers[i].uid /\ u < controllers[index].uid
      BY <1>1, <1>3, <2>1, <2>2 DEF UidsIncrease
    <3> QED
      BY <3>1, <1>1, <1>2 DEF Uids, Live
  <2>3. CASE ~(i < index)
    <3>1. i + 1 \in Live /\ u = controllers[i + 1].uid
      BY <1>3, <2>1, <2>3
    <3>2. index < i + 1 /\ index \in Live
      BY <1>1, <2>1, <2>3
    <3>3. controllers[index].uid < u
      BY <3>1, <3>2 DEF UidsIncrease
    <3> QED
      BY <3>1, <3>2, <3>3, <1>1, <1>2 DEF Uids, Live
  <2> QED
    BY <2>2, <2>3
<1>5. ASSUME NEW u \in Uids, u # controllers[index].uid PROVE u \in Uids'
  <2>1. PICK j \in Live : u = controllers[j].uid
    BY DEF Uids
  <2>2. CASE j < index
    <3>1. j \in Live'
      BY <1>1, <2>1, <2>2
    <3>2. controllers'[j] = controllers[j]
      BY <1>3, <2>2, <3>1
    <3> QED
      BY <3>1, <3>2, <2>1 DEF Uids
  <2>3. CASE j > index
    <3>1. j - 1 \in Live' /\ ~(j - 1 < index) /\ (j - 1) + 1 = j
      BY <1>1, <2>1, <2>3
    <3>2. controllers'[j - 1] = controllers[j]
      BY <1>3, <3>1
    <3> QED
      BY <3>1, <3>2, <2>1 DEF Uids
  <2> QED
    BY <1>1, <1>5, <2>1, <2>2, <2>3
<1> QED
  BY <1>1, <1>3, <1>4, <1>5

(* What a controller that is added leaves.                                 *)
LEMMA Added ==
    ASSUME TypeOK, NEW impl \in Places, Add(impl)
    PROVE  /\ controller_count' \in 0 .. MaxControllers
           /\ next_controller_uid' \in Nat \ {0}
           /\ controllers' \in [1 .. MaxControllers -> [impl : Places, uid : Nat]]
           /\ \/ UNCHANGED table /\ controller_count >= MaxControllers
              \/ /\ controller_count' = controller_count + 1
                 /\ next_controller_uid' = next_controller_uid + 1
                 /\ \A i \in Live : controllers'[i] = controllers[i]
                 /\ controllers'[controller_count + 1] =
                        [impl |-> impl, uid |-> next_controller_uid]
                 /\ Live' = Live \union {controller_count + 1}
<1>1. controller_count \in 0 .. MaxControllers /\ MaxControllers \in Nat
  BY StorageAssumption DEF TypeOK
<1>2. CASE controller_count >= MaxControllers
  BY <1>2 DEF Add, table, TypeOK
<1>3. CASE ~(controller_count >= MaxControllers)
  <2>1. controllers' = [controllers EXCEPT ![controller_count + 1] =
                               [impl |-> impl, uid |-> next_controller_uid]]
        /\ controller_count' = controller_count + 1
        /\ next_controller_uid' = next_controller_uid + 1
    BY <1>3 DEF Add
  <2>2. controller_count + 1 \in 1 .. MaxControllers
    BY <1>1, <1>3
  <2> QED
    BY <1>1, <2>1, <2>2 DEF TypeOK, Live
<1> QED
  BY <1>2, <1>3

-----------------------------------------------------------------------------
(* The types.                                                              *)
LEMMA TypeInit == Init => TypeOK
<1> SUFFICES ASSUME Init PROVE TypeOK
  OBVIOUS
<1>1. 0 \in Places /\ 0 \in Channels /\ 0 \in Drives
  BY PlaceNumber DEF Channels, Drives
<1>2. /\ controllers \in [1 .. MaxControllers -> [impl : Places, uid : Nat]]
      /\ ide_devices \in [Places -> [channel : Channels, drive : Drives, ready : BOOLEAN]]
  BY <1>1 DEF Init, Empty, Zeroed
<1>3. probe \in [channel : 0 .. 2, drive : Drives, waiting : BOOLEAN]
  BY <1>1 DEF Init, Idle
<1>4. held \in [at : 0 .. MaxControllers, uid : Nat, stale : BOOLEAN]
  BY StorageAssumption DEF Init, None
<1> QED
  BY <1>2, <1>3, <1>4, StorageAssumption DEF Init, TypeOK

LEMMA TypeStep == TypeOK /\ UidsIncrease /\ [Next]_vars => TypeOK'
<1> SUFFICES ASSUME TypeOK, UidsIncrease, [Next]_vars PROVE TypeOK'
  OBVIOUS
<1>0. Zeroed \in [channel : Channels, drive : Drives, ready : BOOLEAN]
  BY DEF Zeroed, Channels, Drives
<1>1. CASE ide_pci_probe
  <2>1. probe' \in [channel : 0 .. 2, drive : Drives, waiting : BOOLEAN]
    BY <1>1 DEF ide_pci_probe, Drives
  <2> QED
    BY <1>1, <2>1 DEF ide_pci_probe, TypeOK, table
<1>2. CASE Absent \/ Aborted
  <2>1. Probing /\ probe' = After(probe.channel, probe.drive)
    BY <1>2 DEF Absent, Aborted
  <2>2. Here \in Places /\ probe' \in [channel : 0 .. 2, drive : Drives, waiting : BOOLEAN]
    BY <2>1, NextPlace
  <2>3. ide_devices' \in [Places -> [channel : Channels, drive : Drives, ready : BOOLEAN]]
    BY <1>0, <1>2, <2>2 DEF Absent, Aborted, TypeOK
  <2> QED
    BY <1>2, <2>2, <2>3 DEF Absent, Aborted, TypeOK, table
<1>3. CASE Select
  <2>1. Probing
    BY <1>3 DEF Select
  <2>2. Here \in Places /\ probe.channel \in Channels /\ probe.drive \in Drives
    BY <2>1, NextPlace
  <2>3. ide_devices' \in [Places -> [channel : Channels, drive : Drives, ready : BOOLEAN]]
    BY <1>3, <2>2 DEF Select, TypeOK
  <2> QED
    BY <1>3, <2>3 DEF Select, TypeOK, table
<1>4. CASE Identified
  <2>1. Probing /\ probe' = After(probe.channel, probe.drive) /\ Add(Here)
    BY <1>4 DEF Identified
  <2>2. Here \in Places /\ probe' \in [channel : 0 .. 2, drive : Drives, waiting : BOOLEAN]
    BY <2>1, NextPlace
  <2>3. ide_devices' \in [Places -> [channel : Channels, drive : Drives, ready : BOOLEAN]]
    BY <1>4, <2>2 DEF Identified, TypeOK
  <2>4. /\ controller_count' \in 0 .. MaxControllers
        /\ next_controller_uid' \in Nat \ {0}
        /\ controllers' \in [1 .. MaxControllers -> [impl : Places, uid : Nat]]
    BY <2>1, <2>2, Added
  <2> QED
    BY <1>4, <2>2, <2>3, <2>4 DEF Identified, TypeOK
<1>5. ASSUME NEW uid \in 1 .. next_controller_uid - 1, storage_manager_remove_controller(uid)
      PROVE  TypeOK'
  <2>1. uid \in Nat /\ Find(uid) \in Live
    BY <1>5, FindOne DEF storage_manager_remove_controller, TypeOK
  <2>2. /\ controller_count' \in 0 .. MaxControllers
        /\ controllers' \in [1 .. MaxControllers -> [impl : Places, uid : Nat]]
    BY <1>5, <2>1, Removed DEF storage_manager_remove_controller
  <2>3. held' \in [at : 0 .. MaxControllers, uid : Nat, stale : BOOLEAN]
    BY <1>5 DEF storage_manager_remove_controller, TypeOK
  <2> QED
    BY <1>5, <2>1, <2>2, <2>3 DEF storage_manager_remove_controller, TypeOK, disk
<1>6. ASSUME NEW uid \in 1 .. next_controller_uid - 1, storage_manager_get_controller(uid)
      PROVE  TypeOK'
  <2>1. uid \in Nat /\ Find(uid) \in Live
    BY <1>6, FindOne DEF storage_manager_get_controller, TypeOK
  <2>2. held' \in [at : 0 .. MaxControllers, uid : Nat, stale : BOOLEAN]
    <3>1. Find(uid) \in 0 .. MaxControllers
      BY <2>1, StorageAssumption DEF TypeOK, Live
    <3> QED
      BY <1>6, <2>1, <3>1 DEF storage_manager_get_controller
  <2> QED
    BY <1>6, <2>2 DEF storage_manager_get_controller, TypeOK, disk, table
<1>7. CASE UNCHANGED vars
  BY <1>7 DEF vars, table, disk, TypeOK
<1> QED
  BY <1>1, <1>2, <1>3, <1>4, <1>5, <1>6, <1>7 DEF Next

-----------------------------------------------------------------------------
(* The table and the lookups.                                              *)
LEMMA NarrowUid == \A u \in Nat : u < ByteValues => u % ByteValues = u
  BY StorageAssumption

LEMMA TableStep == Table /\ TypeOK' /\ [Next]_vars => Table'
<1> SUFFICES ASSUME Table, TypeOK', [Next]_vars PROVE AskedGiven' /\ Accounted' /\ HeldRight'
  BY DEF Table
<1>a. TypeOK /\ AskedGiven /\ Accounted /\ UidsIncrease /\ HeldRight
  BY DEF Table, Accounted
<1>b. /\ Narrow(asked) => Uids = 1 .. next_controller_uid - 1 \ asked
      /\ Accounted' <=> UidsIncrease' /\ (Narrow(asked)' =>
                          Uids' = 1 .. next_controller_uid' - 1 \ asked')
  BY <1>a DEF Accounted, Uids
<1>c. /\ next_controller_uid \in Nat \ {0} /\ controller_count \in Nat
      /\ Live = 1 .. controller_count /\ Live' = 1 .. controller_count'
  BY <1>a DEF TypeOK, Live
<1>0. /\ TypeOK /\ AskedGiven /\ Accounted /\ UidsIncrease /\ HeldRight
      /\ Narrow(asked) => Uids = 1 .. next_controller_uid - 1 \ asked
      /\ Accounted' <=> UidsIncrease' /\ (Narrow(asked)' =>
                          Uids' = 1 .. next_controller_uid' - 1 \ asked')
      /\ next_controller_uid \in Nat \ {0} /\ controller_count \in Nat
      /\ Live = 1 .. controller_count /\ Live' = 1 .. controller_count'
  BY <1>a, <1>b, <1>c
<1>1. CASE UNCHANGED <<table, asked, held>>
  BY <1>0, <1>1 DEF table, AskedGiven, UidsIncrease, Narrow, Uids, Live, HeldRight, None
<1>2. CASE Identified /\ ~UNCHANGED table
  <2>1. Probing /\ Add(Here) /\ UNCHANGED <<asked, held>>
    BY <1>2 DEF Identified
  <2>2. Here \in Places
    BY <1>0, <2>1, NextPlace
  <2>3. /\ controller_count' = controller_count + 1
        /\ next_controller_uid' = next_controller_uid + 1
        /\ \A i \in Live : controllers'[i] = controllers[i]
        /\ controllers'[controller_count + 1].uid = next_controller_uid
        /\ Live' = Live \union {controller_count + 1}
    <3>1. \/ UNCHANGED table
          \/ /\ controller_count' = controller_count + 1
             /\ next_controller_uid' = next_controller_uid + 1
             /\ \A i \in Live : controllers'[i] = controllers[i]
             /\ controllers'[controller_count + 1] =
                    [impl |-> Here, uid |-> next_controller_uid]
             /\ Live' = Live \union {controller_count + 1}
      BY <1>0, <2>1, <2>2, Added
    <3> QED
      BY <1>2, <3>1
  <2>4. AskedGiven'
    BY <1>0, <2>1, <2>3 DEF AskedGiven
  <2>5. UidsIncrease'
    <3>1. \A i \in Live : controllers'[i].uid \in 1 .. next_controller_uid - 1
      BY <1>0, <2>3 DEF UidsIncrease
    <3>2. \A i, j \in Live : i < j => controllers'[i].uid < controllers'[j].uid
      BY <1>0, <2>3 DEF UidsIncrease
    <3>3. \A i \in Live : i < controller_count + 1 /\ ~(controller_count + 1 < i)
      BY <1>0
    <3>4. \A i \in Live' : controllers'[i].uid \in 1 .. next_controller_uid' - 1
      BY <1>0, <2>3, <3>1
    <3>5. \A i, j \in Live' : i < j => controllers'[i].uid < controllers'[j].uid
      BY <1>0, <2>3, <3>1, <3>2, <3>3
    <3> QED
      BY <3>4, <3>5 DEF UidsIncrease
  <2>6. Uids' = Uids \union {next_controller_uid}
    BY <2>3 DEF Uids
  <2>7. Narrow(asked)' => Uids' = 1 .. next_controller_uid' - 1 \ asked'
    <3>1. Narrow(asked)' => Narrow(asked)
      BY <2>1 DEF Narrow
    <3>2. next_controller_uid \notin asked
      BY <1>0 DEF AskedGiven
    <3>3. 1 .. next_controller_uid' - 1 = (1 .. next_controller_uid - 1) \union {next_controller_uid}
      BY <1>0, <2>3
    <3> QED
      BY <1>0, <2>1, <2>6, <3>1, <3>2, <3>3
  <2>8. HeldRight'
    BY <1>0, <2>1, <2>3 DEF HeldRight, None
  <2> QED
    BY <1>0, <2>4, <2>5, <2>7, <2>8
<1>3. ASSUME NEW uid \in 1 .. next_controller_uid - 1, storage_manager_remove_controller(uid)
      PROVE  AskedGiven' /\ Accounted' /\ HeldRight'
  <2> DEFINE index == Find(uid)
  <2>1. /\ uid \in Nat /\ index \in Live /\ controllers[index].uid = uid % ByteValues
    BY <1>0, <1>3, FindOne DEF storage_manager_remove_controller
  <2>2. /\ controllers' = Shift(index) /\ controller_count' = controller_count - 1
        /\ asked' = asked \union {uid} /\ next_controller_uid' = next_controller_uid
        /\ held' = [held EXCEPT !.stale = @ \/ index <= held.at]
    BY <1>3 DEF storage_manager_remove_controller
  <2> HIDE DEF index
  <2>3. /\ Live' \subseteq Live
        /\ \A i \in Live' : IF i < index THEN controllers'[i] = controllers[i]
                           ELSE i + 1 \in Live /\ controllers'[i] = controllers[i + 1]
        /\ Uids' = Uids \ {controllers[index].uid}
    BY <1>0, <2>1, <2>2, Removed
  <2>4. AskedGiven'
    BY <1>0, <2>2 DEF AskedGiven
  <2>5. UidsIncrease'
    <3>1. ASSUME NEW i \in Live' PROVE controllers'[i].uid \in 1 .. next_controller_uid' - 1
      BY <1>0, <2>2, <2>3 DEF UidsIncrease
    <3>2. ASSUME NEW i \in Live', NEW j \in Live', i < j
          PROVE  controllers'[i].uid < controllers'[j].uid
      <4> DEFINE old(k) == IF k < index THEN k ELSE k + 1
      <4>1. \A k \in Live' : old(k) \in Live /\ controllers'[k] = controllers[old(k)]
        BY <2>3
      <4>2. old(i) < old(j)
        BY <1>0, <2>1, <3>2
      <4> HIDE DEF old
      <4> QED
        BY <1>0, <3>2, <4>1, <4>2 DEF UidsIncrease
    <3> QED
      BY <3>1, <3>2 DEF UidsIncrease
  <2>6. Narrow(asked)' => Uids' = 1 .. next_controller_uid' - 1 \ asked'
    <3>1. SUFFICES ASSUME Narrow(asked)' PROVE Uids' = 1 .. next_controller_uid' - 1 \ asked'
      OBVIOUS
    <3>2. Narrow(asked) /\ uid < ByteValues
      BY <2>2, <3>1 DEF Narrow
    <3>3. controllers[index].uid = uid
      BY <2>1, <3>2, NarrowUid
    <3> QED
      BY <1>0, <2>2, <2>3, <3>2, <3>3
  <2>7. HeldRight'
    <3>1. SUFFICES ASSUME held' # None, ~held'.stale, held'.uid < ByteValues
                   PROVE  held'.at \in Live' /\ controllers'[held'.at].uid = held'.uid
      BY DEF HeldRight, None
    <3>2. held \in [at : 0 .. MaxControllers, uid : Nat, stale : BOOLEAN]
      BY <1>0 DEF TypeOK
    <3>a. /\ held'.stale = (held.stale \/ index <= held.at)
          /\ held'.at = held.at /\ held'.uid = held.uid
      BY <2>2, <3>2
    <3>b. ~held.stale /\ ~(index <= held.at)
      BY <3>1, <3>a
    <3>c. index \in Nat /\ held.at \in Nat
      BY <1>0, <2>1, <3>2
    <3>d. held' = held
      BY <2>2, <3>2, <3>b
    <3>3. ~held.stale /\ held.at < index /\ held' = held
      BY <3>b, <3>c, <3>d
    <3>4. held.at \in Live /\ controllers[held.at].uid = held.uid
      BY <1>0, <3>1, <3>3 DEF HeldRight
    <3>5. held.at \in Live'
      BY <1>0, <2>1, <2>2, <3>3, <3>4
    <3> QED
      BY <2>3, <3>3, <3>4, <3>5
  <2> QED
    BY <1>0, <2>4, <2>5, <2>6, <2>7
<1>4. ASSUME NEW uid \in 1 .. next_controller_uid - 1, storage_manager_get_controller(uid)
      PROVE  AskedGiven' /\ Accounted' /\ HeldRight'
  <2>1. /\ uid \in Nat /\ Find(uid) \in Live
        /\ controllers[Find(uid)].uid = uid % ByteValues
    BY <1>0, <1>4, FindOne DEF storage_manager_get_controller
  <2>2. held' = [at |-> Find(uid), uid |-> uid, stale |-> FALSE] /\ UNCHANGED <<table, asked>>
    BY <1>4 DEF storage_manager_get_controller
  <2>3. uid < ByteValues => uid % ByteValues = uid
    BY <2>1, NarrowUid
  <2>4. HeldRight'
    BY <1>0, <2>1, <2>2, <2>3 DEF HeldRight, table
  <2>5. AskedGiven' /\ UidsIncrease' /\ Uids' = Uids /\ (Narrow(asked)' <=> Narrow(asked))
    BY <1>0, <2>2 DEF table, AskedGiven, UidsIncrease, Narrow, Uids, Live
  <2> QED
    BY <1>0, <2>2, <2>4, <2>5 DEF table
<1>5. ide_pci_probe \/ Absent \/ Select \/ Aborted \/ (Identified /\ UNCHANGED table)
          => UNCHANGED <<table, asked, held>>
  BY DEF ide_pci_probe, Absent, Select, Aborted, Identified
<1>6. UNCHANGED vars => UNCHANGED <<table, asked, held>>
  BY DEF vars
<1> QED
  BY <1>1, <1>2, <1>3, <1>4, <1>5, <1>6 DEF Next

-----------------------------------------------------------------------------
(* The devices: a probe writes again what it wrote before.                 *)
LEMMA DeviceStep == TypeOK /\ DevicesTrue /\ [Next]_vars => DevicesTrue'
<1> SUFFICES ASSUME TypeOK, DevicesTrue, [Next]_vars PROVE DevicesTrue'
  OBVIOUS
<1>0. \A p \in Places :
          ide_devices[p] \in [channel : Channels, drive : Drives, ready : BOOLEAN]
  BY DEF TypeOK
<1>1. CASE ide_pci_probe
  BY <1>1 DEF ide_pci_probe, DevicesTrue
<1>2. CASE Absent \/ Aborted
  <2>1. Probing /\ probe' = After(probe.channel, probe.drive)
    BY <1>2 DEF Absent, Aborted
  <2>2. ~probe'.waiting /\ Here \in Places
    BY <2>1, NextPlace
  <2>3. /\ ide_devices' = [ide_devices EXCEPT ![Here] = Zeroed]
        /\ answered' = answered \ {Here}
    BY <1>2 DEF Absent, Aborted
  <2>4. \A p \in answered' : p \in answered /\ (p \in Places => ide_devices'[p] = ide_devices[p])
    BY <2>2, <2>3 DEF TypeOK
  <2>5. \A c \in Channels, d \in Drives : Place(c, d) \in Places
    BY DEF Places
  <2> QED
    BY <2>2, <2>4, <2>5 DEF DevicesTrue
<1>3. CASE Select
  <2>1. /\ Probing /\ probe' = [probe EXCEPT !.waiting = TRUE] /\ answered' = answered
        /\ ide_devices' = [ide_devices EXCEPT ![Here].channel = probe.channel,
                                              ![Here].drive = probe.drive]
    BY <1>3 DEF Select
  <2>2. probe.channel \in Channels /\ probe.drive \in Drives /\ Here \in Places
    BY <2>1, NextPlace
  <2>3. /\ probe'.channel = probe.channel /\ probe'.drive = probe.drive /\ Here' = Here
    BY <2>1 DEF Here, TypeOK
  <2>4. /\ ide_devices'[Here].channel = probe.channel /\ ide_devices'[Here].drive = probe.drive
        /\ ide_devices'[Here].ready = ide_devices[Here].ready
        /\ \A p \in Places : p # Here => ide_devices'[p] = ide_devices[p]
    BY <2>1, <2>2 DEF TypeOK
  <2>5. ASSUME NEW c \in Channels, NEW d \in Drives, Place(c, d) \in answered
        PROVE  Names(ide_devices'[Place(c, d)], c, d)
    <3>1. Names(ide_devices[Place(c, d)], c, d)
      BY <2>5 DEF DevicesTrue
    <3>2. Place(c, d) = Here => c = probe.channel /\ d = probe.drive
      BY <2>2, PlaceNumber DEF Here
    <3>3. Place(c, d) \in Places
      BY DEF Places
    <3> QED
      BY <2>4, <3>1, <3>2, <3>3 DEF Names
  <2>6. ide_devices'[Here'].channel = probe'.channel /\ ide_devices'[Here'].drive = probe'.drive
    BY <2>3, <2>4
  <2> QED
    BY <2>1, <2>5, <2>6 DEF DevicesTrue
<1>4. CASE Identified
  <2>1. /\ Probing /\ probe.waiting /\ probe' = After(probe.channel, probe.drive)
        /\ answered' = answered \union {Here}
        /\ ide_devices' = [ide_devices EXCEPT ![Here].ready = TRUE]
    BY <1>4 DEF Identified
  <2>2. /\ probe.channel \in Channels /\ probe.drive \in Drives /\ Here \in Places
        /\ ~probe'.waiting
    BY <2>1, NextPlace
  <2>3. /\ Names(ide_devices'[Here], probe.channel, probe.drive)
        /\ \A p \in Places : p # Here => ide_devices'[p] = ide_devices[p]
    <3>1. ide_devices[Here].channel = probe.channel /\ ide_devices[Here].drive = probe.drive
      BY <2>1 DEF DevicesTrue
    <3> QED
      BY <2>1, <2>2, <3>1 DEF Names, TypeOK
  <2>4. ASSUME NEW c \in Channels, NEW d \in Drives, Place(c, d) \in answered'
        PROVE  Names(ide_devices'[Place(c, d)], c, d)
    <3>1. Place(c, d) = Here => c = probe.channel /\ d = probe.drive
      BY <2>2, PlaceNumber DEF Here
    <3>2. Place(c, d) # Here => Names(ide_devices[Place(c, d)], c, d)
      BY <2>1, <2>4 DEF DevicesTrue
    <3>3. Place(c, d) \in Places
      BY DEF Places
    <3> QED
      BY <2>3, <3>1, <3>2, <3>3
  <2> QED
    BY <2>2, <2>4 DEF DevicesTrue
<1>5. CASE UNCHANGED disk
  BY <1>5 DEF disk, DevicesTrue, Probing, Here
<1>6. ASSUME NEW uid \in 1 .. next_controller_uid - 1,
             storage_manager_remove_controller(uid) \/ storage_manager_get_controller(uid)
      PROVE  UNCHANGED disk
  BY <1>6 DEF storage_manager_remove_controller, storage_manager_get_controller
<1>7. UNCHANGED vars => UNCHANGED disk
  BY DEF vars
<1> QED
  BY <1>1, <1>2, <1>3, <1>4, <1>5, <1>6, <1>7 DEF Next

(* The first probe: it passes the places in order, and at each of them the *)
(* table has room.                                                         *)
LEMMA ProgressStep ==
    ASSUME MaxControllers >= 4
    PROVE  TypeOK /\ Progress /\ [Next]_vars => Progress'
<1> SUFFICES ASSUME TypeOK, Progress, [Next]_vars PROVE Progress'
  OBVIOUS
<1>0. /\ MaxControllers \in Nat /\ controller_count \in Nat /\ probes \in Nat
      /\ healthy \subseteq 0 .. 3 /\ Here \in Int
      /\ Probing => Here \in 0 .. 3
      /\ probe = Idle => Here = 4 /\ ~Probing
  <2>1. MaxControllers \in Nat /\ controller_count \in Nat /\ probes \in Nat
    BY StorageAssumption DEF TypeOK
  <2>2. healthy \subseteq 0 .. 3
    BY PlaceNumber DEF TypeOK
  <2>3. Probing => Here \in 0 .. 3
    BY NextPlace, PlaceNumber
  <2>4. probe = Idle => Here = 4 /\ ~Probing
    BY DEF Idle, Here, Place, Probing, Channels
  <2>5. probe.channel \in Int /\ probe.drive \in Int
    BY DEF TypeOK, Drives
  <2> QED
    BY <2>1, <2>2, <2>3, <2>4, <2>5 DEF Here, Place
<1>1. CASE ide_pci_probe
  <2>1. /\ ~Probing /\ probe' = [channel |-> 0, drive |-> 0, waiting |-> FALSE]
        /\ probes' = probes + 1 /\ UNCHANGED <<healthy, table, asked>>
    BY <1>1 DEF ide_pci_probe
  <2>2. Probing' /\ Here' = 0
    BY <2>1 DEF Probing, Here, Place, Channels
  <2>3. Impls' = Impls /\ controller_count' = controller_count
    BY <2>1 DEF table, Impls, Live
  <2>4. Here = 4
    BY <1>0, <2>1 DEF Progress
  <2>5. asked = {} /\ probes = 0 => controller_count = 0
    BY DEF Progress
  <2>6. asked = {} /\ probes > 0 => healthy \subseteq Impls
    BY <1>0, <2>4 DEF Progress
  <2> QED
    BY <1>0, <2>1, <2>2, <2>3, <2>5, <2>6 DEF Progress
<1>2. CASE Absent \/ Aborted
  <2>1. /\ Probing /\ probe' = After(probe.channel, probe.drive) /\ Here \notin healthy
        /\ UNCHANGED <<healthy, table, probes, asked>>
    BY <1>2 DEF Absent, Aborted
  <2>2. Here' = Here + 1 /\ (~Probing' => probe' = Idle)
    BY <2>1, NextPlace DEF Here, Probing
  <2>3. Impls' = Impls /\ controller_count' = controller_count
    BY <2>1 DEF table, Impls, Live
  <2> QED
    BY <1>0, <2>1, <2>2, <2>3 DEF Progress
<1>3. CASE Select
  <2>1. /\ Probing /\ probe' = [probe EXCEPT !.waiting = TRUE]
        /\ UNCHANGED <<healthy, table, probes, asked>>
    BY <1>3 DEF Select
  <2>2. Here' = Here /\ Probing'
    BY <2>1 DEF Here, Probing, TypeOK
  <2>3. Impls' = Impls /\ controller_count' = controller_count
    BY <2>1 DEF table, Impls, Live
  <2> QED
    BY <1>0, <2>1, <2>2, <2>3 DEF Progress
<1>4. CASE Identified
  <2>1. /\ Probing /\ probe' = After(probe.channel, probe.drive) /\ Add(Here)
        /\ UNCHANGED <<healthy, probes, asked>>
    BY <1>4 DEF Identified
  <2>2. Here' = Here + 1 /\ (~Probing' => probe' = Idle) /\ Here \in Places
    BY <2>1, NextPlace DEF Here, Probing
  <2>3. \/ UNCHANGED table /\ controller_count >= MaxControllers
        \/ controller_count' = controller_count + 1 /\ Impls' = Impls \union {Here}
    <3>1. CASE UNCHANGED table /\ controller_count >= MaxControllers
      BY <3>1
    <3>2. CASE /\ controller_count' = controller_count + 1
               /\ \A i \in Live : controllers'[i] = controllers[i]
               /\ controllers'[controller_count + 1] =
                      [impl |-> Here, uid |-> next_controller_uid]
               /\ Live' = Live \union {controller_count + 1}
      <4>1. Impls' = Impls \union {Here}
        BY <3>2 DEF Impls
      <4> QED
        BY <3>2, <4>1
    <3> QED
      BY <2>1, <2>2, <3>1, <3>2, Added
  <2>4. Impls \subseteq Impls'
    BY <2>3 DEF table, Impls, Live
  <2>5. ASSUME asked = {}, probes = 1
        PROVE  /\ controller_count' <= Here'
               /\ \A p \in healthy : p < Here' => p \in Impls'
    <3>1. controller_count <= Here /\ \A p \in healthy : p < Here => p \in Impls
      BY <2>5 DEF Progress
    <3>2. controller_count' = controller_count + 1 /\ Impls' = Impls \union {Here}
      BY <1>0, <2>1, <2>3, <3>1
    <3>3. \A p \in healthy : p < Here + 1 => p < Here \/ p = Here
      BY <1>0
    <3> QED
      BY <1>0, <2>2, <3>1, <3>2, <3>3
  <2>6. asked = {} => probes # 0
    BY <2>1 DEF Progress
  <2>7. asked = {} /\ probes > 1 => healthy \subseteq Impls'
    BY <2>4 DEF Progress
  <2> QED
    BY <2>1, <2>2, <2>5, <2>6, <2>7 DEF Progress
<1>5. ASSUME NEW uid \in 1 .. next_controller_uid - 1, storage_manager_remove_controller(uid)
      PROVE  Progress'
  <2>1. ~Probing /\ asked' = asked \union {uid} /\ probe' = probe
    BY <1>5 DEF storage_manager_remove_controller, disk
  <2> QED
    BY <2>1 DEF Progress, Probing
<1>6. CASE UNCHANGED <<table, disk, asked>>
  <2>1. /\ Impls' = Impls /\ controller_count' = controller_count /\ Here' = Here
        /\ Probing' = Probing /\ UNCHANGED <<healthy, probe, probes, asked>>
    BY <1>6 DEF table, disk, Impls, Live, Here, Probing
  <2> QED
    BY <2>1 DEF Progress
<1>7. ASSUME NEW uid \in 1 .. next_controller_uid - 1, storage_manager_get_controller(uid)
      PROVE  UNCHANGED <<table, disk, asked>>
  BY <1>7 DEF storage_manager_get_controller
<1>8. UNCHANGED vars => UNCHANGED <<table, disk, asked>>
  BY DEF vars
<1> QED
  BY <1>1, <1>2, <1>3, <1>4, <1>5, <1>6, <1>7, <1>8 DEF Next

-----------------------------------------------------------------------------
(* The types, and the uids that grow along the table, always hold.         *)
LEMMA TableHeld == Spec => []Table
<1>1. Init => Table
  <2> SUFFICES ASSUME Init PROVE Table
    OBVIOUS
  <2>1. TypeOK
    BY TypeInit
  <2>2. controller_count = 0 /\ next_controller_uid = 1 /\ asked = {} /\ held = None
    BY DEF Init
  <2>3. Live = {} /\ 1 .. next_controller_uid - 1 = {}
    BY <2>2 DEF Live
  <2>4. AskedGiven /\ HeldRight /\ Accounted
    BY <2>2, <2>3 DEF AskedGiven, HeldRight, Accounted, UidsIncrease
  <2> QED
    BY <2>1, <2>4 DEF Table
<1>2. Table /\ [Next]_vars => Table'
  <2>1. Table => TypeOK /\ UidsIncrease
    BY DEF Table, Accounted
  <2> QED
    BY <2>1, TypeStep, TableStep
<1> QED
  BY <1>1, <1>2, PTL DEF Spec

(* storage_manager_add_controller and storage_manager_remove_controller:   *)
(* the entries are in the order of their uids, and as long as every uid    *)
(* asked for fits in a byte the table holds exactly the controllers that   *)
(* were added and not removed.                                             *)
THEOREM ControllersAccounted == Spec => []Accounted
<1>1. Table => Accounted
  BY DEF Table
<1> QED
  BY <1>1, TableHeld, PTL

(* storage_manager_get_controller: a pointer stays right until its own     *)
(* controller, or one before it in the table, is removed.                  *)
THEOREM LookupsStayRight == Spec => []HeldRight
<1>1. Table => HeldRight
  BY DEF Table
<1> QED
  BY <1>1, TableHeld, PTL

(* ide_pci_probe, ata_pio_init_drive: with room for the four drives of the *)
(* two channels, whatever the number of probes and whichever of the drives *)
(* fail some of them, every drive that answers keeps its place and has a   *)
(* controller that leads to it.                                            *)
THEOREM EveryDriveServed ==
    ASSUME MaxControllers >= 4
    PROVE  Spec => []DrivesServed
<1>1. Init => DevicesTrue /\ Progress
  <2> SUFFICES ASSUME Init PROVE DevicesTrue /\ Progress
    OBVIOUS
  <2>1. ~Probing /\ probe = Idle /\ answered = {} /\ probes = 0 /\ controller_count = 0
    BY DEF Init, Idle, Probing, Channels
  <2> QED
    BY <2>1 DEF DevicesTrue, Progress
<1>2. TypeOK /\ DevicesTrue /\ Progress /\ [Next]_vars => (DevicesTrue /\ Progress)'
  BY DeviceStep, ProgressStep
<1>3. TypeOK /\ DevicesTrue /\ Progress => DrivesServed
  <2> SUFFICES ASSUME TypeOK, DevicesTrue, Progress PROVE Refers /\ EveryDrive
    BY DEF DrivesServed
  <2>1. ASSUME NEW c \in Channels, NEW d \in Drives, Place(c, d) \in answered
        PROVE  ide_devices[Place(c, d)] = [channel |-> c, drive |-> d, ready |-> TRUE]
    <3>1. Names(ide_devices[Place(c, d)], c, d)
      BY <2>1 DEF DevicesTrue
    <3>2. ide_devices[Place(c, d)] \in [channel : Channels, drive : Drives, ready : BOOLEAN]
      BY DEF TypeOK, Places
    <3>3. ide_devices[Place(c, d)].ready = TRUE
      BY <3>1, <3>2 DEF Names
    <3> QED
      BY <3>1, <3>2, <3>3 DEF Names
  <2>2. Refers
    BY <2>1 DEF Refers
  <2>3. EveryDrive
    <3>1. SUFFICES ASSUME probes > 0, probes = 1 => ~Probing, asked = {}
                   PROVE  healthy \subseteq Impls
      BY DEF EveryDrive, Impls
    <3>2. probes \in Nat /\ healthy \subseteq 0 .. 3
      BY PlaceNumber DEF TypeOK
    <3>3. CASE probes > 1
      BY <3>1, <3>3 DEF Progress
    <3>4. CASE probes = 1
      <4>1. Here = 4
        BY <3>1, <3>4 DEF Progress, Idle, Here, Place
      <4> QED
        BY <3>1, <3>2, <3>4, <4>1 DEF Progress
    <3> QED
      BY <3>1, <3>2, <3>3, <3>4
  <2> QED
    BY <2>2, <2>3
<1>4. Table => TypeOK
  BY DEF Table
<1> QED
  BY <1>1, <1>2, <1>3, <1>4, TableHeld, PTL DEF Spec

-----------------------------------------------------------------------------
(* Vesa. *)

(* What the loop over the list has read so far.                            *)
Read == {list[i] : i \in 1 .. next - 2}
Kept == {modes[i] : i \in DOMAIN modes}

VesaTypes ==
    /\ list \in [1 .. ListLength -> Mode \union {End}]
    /\ kind \in [Mode -> Kind]
    /\ pc \in {"init", "list", "select", "set", "booted", "panic"}
    /\ next \in 1 .. ListLength + 1 /\ modes \in Seq(Mode) /\ selected \in Nat
    /\ pc = "list" => next >= 2

(* The table holds what the words read so far say, each mode once.         *)
Filling ==
    /\ Len(modes) <= VESA_MODE_SIZE
    /\ \A i, j \in DOMAIN modes : modes[i] = modes[j] => i = j
    /\ \A i \in DOMAIN modes : kind[modes[i]] # "filtered"
    /\ pc = "init" => modes = <<>>
    /\ pc = "list" => /\ \A i \in 1 .. next - 2 : list[i] # End
                      /\ Kept = {m \in Read : kind[m] # "filtered"}

(* No mode that the loop of kernel_main has passed fits, and it has passed *)
(* the last one only because the card refused it.                          *)
Choosing ==
    /\ pc \in {"init", "list"} => selected = 0
    /\ selected <= Len(modes)
    /\ \A i \in 1 .. selected : kind[modes[i]] # "fits"
    /\ pc = "select" /\ selected = Len(modes) /\ modes # <<>> =>
          kind[modes[Len(modes)]] = "refused"
    /\ pc = "set" => selected < Len(modes) /\ kind[modes[selected + 1]] # "unsuited"
    /\ pc # "booted" => card = NoMode

VInv == VesaTypes /\ TableRight /\ Filling /\ Choosing /\ ModeRight

LEMMA InitVInv == VesaInit => VInv
<1> SUFFICES ASSUME VesaInit PROVE VInv
  OBVIOUS
<1>1. ListLength \in Nat \ {0} /\ VESA_MODE_SIZE \in Nat \ {0}
  BY VesaAssumption
<1>2. modes = <<>> /\ Len(<<>>) = 0 /\ DOMAIN modes = {} /\ modes \in Seq(Mode)
  BY DEF VesaInit
<1>3. VesaTypes
  BY <1>1, <1>2 DEF VesaInit, VesaTypes
<1>4. TableRight /\ Filling /\ Choosing /\ ModeRight
  BY <1>1, <1>2 DEF VesaInit, TableRight, Filling, Choosing, ModeRight, FirstFit, VideoRight
<1> QED
  BY <1>3, <1>4 DEF VInv

LEMMA BiosStep ==
    ASSUME VInv, vesa_init
    PROVE  VInv'
<1>1. ListLength \in Nat \ {0}
  BY VesaAssumption
<1>2. /\ pc = "init" /\ UNCHANGED <<list, kind, modes, selected, card, video>>
      /\ (pc' = "list" /\ next' = 2) \/ (pc' = "panic" /\ next' = next)
      /\ modes = <<>> /\ DOMAIN modes = {} /\ selected = 0
  BY DEF vesa_init, bios, VInv, Filling, Choosing
<1>3. VesaTypes'
  BY <1>1, <1>2 DEF VInv, VesaTypes
<1>4. pc' = "list" => Read' = {} /\ Kept' = {}
  BY <1>2 DEF Read, Kept
<1>5. TableRight' /\ Filling'
  BY <1>2, <1>4 DEF VInv, TableRight, Filling
<1>6. Choosing' /\ ModeRight'
  BY <1>2 DEF VInv, Choosing, ModeRight, FirstFit, VideoRight
<1> QED
  BY <1>3, <1>5, <1>6 DEF VInv

LEMMA GetModeStep ==
    ASSUME VInv, GetMode
    PROVE  VInv'
<1> DEFINE m == list[next - 1]
<1>1. ListLength \in Nat \ {0} /\ VESA_MODE_SIZE \in Nat \ {0}
  BY VesaAssumption
<1>2. /\ pc = "list" /\ next - 1 < ListLength /\ m # End /\ Len(modes) < VESA_MODE_SIZE
      /\ modes' = IF Wanted(m) THEN Append(modes, m) ELSE modes
      /\ next' = next + 1
      /\ UNCHANGED <<list, kind, pc, selected, card, video>>
  BY DEF GetMode, More, bios
<1>3. next >= 2 /\ next \in Nat /\ m \in Mode /\ modes \in Seq(Mode) /\ selected = 0
  BY <1>1, <1>2 DEF VInv, VesaTypes, Choosing
<1>4. VesaTypes'
  BY <1>1, <1>2, <1>3 DEF VInv, VesaTypes
<1>5. Read' = Read \union {m}
  <2>1. 1 .. next' - 2 = (1 .. next - 2) \union {next - 1}
    BY <1>2, <1>3
  <2> QED
    BY <1>2, <2>1 DEF Read
<1>6. \A i \in 1 .. next' - 2 : list'[i] # End
  <2>1. \A i \in 1 .. next' - 2 : i \in 1 .. next - 2 \/ i = next - 1
    BY <1>2, <1>3
  <2> QED
    BY <1>2, <2>1 DEF VInv, Filling
<1>7. CASE Wanted(m)
  <2>1. /\ modes' = Append(modes, m) /\ Len(modes') = Len(modes) + 1 /\ Len(modes) \in Nat
        /\ DOMAIN modes = 1 .. Len(modes) /\ DOMAIN modes' = 1 .. Len(modes) + 1
        /\ modes'[Len(modes) + 1] = m /\ \A i \in 1 .. Len(modes) : modes'[i] = modes[i]
    BY <1>2, <1>3, <1>7
  <2>2. kind[m] # "filtered" /\ \A i \in 1 .. Len(modes) : modes[i] # m
    BY <1>7, <2>1 DEF Wanted, Known
  <2>3. \A i \in DOMAIN modes' : i \in 1 .. Len(modes) \/ i = Len(modes) + 1
    BY <2>1
  <2>4. Kept' = Kept \union {m}
    <3>1. DOMAIN modes' = DOMAIN modes \union {Len(modes) + 1}
      BY <2>1
    <3> QED
      BY <2>1, <3>1 DEF Kept
  <2>5. Kept' = {x \in Read' : kind'[x] # "filtered"}
    BY <1>2, <1>5, <2>2, <2>4 DEF VInv, Filling
  <2>6. /\ Len(modes') <= VESA_MODE_SIZE
        /\ \A i, j \in DOMAIN modes' : modes'[i] = modes'[j] => i = j
        /\ \A i \in DOMAIN modes' : kind'[modes'[i]] # "filtered"
    BY <1>1, <1>2, <2>1, <2>2, <2>3 DEF VInv, Filling
  <2>7. TableRight' /\ Filling'
    BY <1>2, <1>6, <2>5, <2>6 DEF TableRight, Filling
  <2>8. Choosing' /\ ModeRight'
    BY <1>2, <1>3, <2>1 DEF VInv, Choosing, ModeRight, FirstFit, VideoRight
  <2> QED
    BY <1>4, <2>7, <2>8 DEF VInv
<1>8. CASE ~Wanted(m)
  <2>1. modes' = modes
    BY <1>2, <1>8
  <2>2. kind[m] = "filtered" \/ m \in Kept
    BY <1>8 DEF Wanted, Known, Kept
  <2>3. Kept' = {x \in Read' : kind'[x] # "filtered"}
    BY <1>2, <1>5, <2>1, <2>2 DEF VInv, Filling, Kept
  <2>4. TableRight' /\ Filling'
    BY <1>2, <1>6, <2>1, <2>3 DEF VInv, TableRight, Filling
  <2>5. Choosing' /\ ModeRight'
    BY <1>2, <2>1 DEF VInv, Choosing, ModeRight, FirstFit, VideoRight
  <2> QED
    BY <1>4, <2>4, <2>5 DEF VInv
<1> QED
  BY <1>7, <1>8

LEMMA ListEndsStep ==
    ASSUME VInv, ListEnds
    PROVE  VInv'
<1>1. ListLength \in Nat \ {0} /\ VESA_MODE_SIZE \in Nat \ {0}
  BY VesaAssumption
<1>2. /\ pc = "list" /\ ~More /\ pc' = "select"
      /\ UNCHANGED <<list, kind, next, modes, selected, card, video>>
  BY DEF ListEnds, bios
<1>3. next >= 2 /\ next \in 1 .. ListLength + 1 /\ modes \in Seq(Mode) /\ selected = 0
  BY <1>2 DEF VInv, VesaTypes, Choosing
<1>4. Len(modes) < VESA_MODE_SIZE => Read = Listed
  <2> SUFFICES ASSUME Len(modes) < VESA_MODE_SIZE PROVE Read = Listed
    OBVIOUS
  <2>1. next - 1 = ListLength \/ list[next - 1] = End
    BY <1>1, <1>2, <1>3 DEF More
  <2>2. \A i \in 1 .. next - 2 : list[i] # End
    BY <1>2 DEF VInv, Filling
  <2>3. 1 .. next - 2 = {i \in 1 .. ListLength - 1 : \A j \in 1 .. i : list[j] # End}
    <3>1. ASSUME NEW i \in 1 .. next - 2
          PROVE  i \in 1 .. ListLength - 1 /\ \A j \in 1 .. i : list[j] # End
      BY <1>1, <1>3, <2>2, <3>1
    <3>2. ASSUME NEW i \in 1 .. ListLength - 1, \A j \in 1 .. i : list[j] # End
          PROVE  i \in 1 .. next - 2
      BY <1>1, <1>3, <2>1, <3>2
    <3> QED
      BY <3>1, <3>2
  <2> QED
    BY <2>3 DEF Read, Listed
<1>5. VesaTypes'
  BY <1>2 DEF VInv, VesaTypes
<1>6. TableRight' /\ Filling'
  BY <1>2, <1>4 DEF VInv, TableRight, Filling, Kept, Listed
<1>7. Choosing' /\ ModeRight'
  <2>1. Len(modes) = 0 => modes = <<>>
    BY <1>3
  <2> QED
    BY <1>2, <1>3, <2>1 DEF VInv, Choosing, ModeRight, FirstFit, VideoRight
<1> QED
  BY <1>5, <1>6, <1>7 DEF VInv

(* The table does not change any more.                                     *)
LEMMA TableStays ==
    ASSUME VInv, pc \in {"select", "set"}, pc' \in {"select", "set", "booted", "panic"},
           UNCHANGED <<list, kind, next, modes>>, selected' \in Nat
    PROVE  VesaTypes' /\ TableRight' /\ Filling'
<1>1. VesaTypes'
  BY DEF VInv, VesaTypes
<1> QED
  BY <1>1 DEF VInv, TableRight, Filling, Kept, Listed

LEMMA ConsiderStep ==
    ASSUME VInv, Consider
    PROVE  VInv'
<1>1. /\ pc = "select" /\ selected < Len(modes) /\ selected \in Nat /\ Len(modes) \in Nat
      /\ UNCHANGED <<list, kind, next, modes, card, video>>
  BY DEF Consider, bios, VInv, VesaTypes
<1>2. \/ /\ kind[modes[selected + 1]] # "unsuited" /\ pc' = "set" /\ selected' = selected
      \/ pc' = "panic" /\ selected' = selected
      \/ /\ kind[modes[selected + 1]] = "unsuited" /\ selected + 1 < Len(modes)
         /\ selected' = selected + 1 /\ pc' = "select"
  BY <1>1 DEF Consider
<1>3. VesaTypes' /\ TableRight' /\ Filling'
  BY <1>1, <1>2, TableStays
<1>4. \A i \in 1 .. selected' : i \in 1 .. selected \/ (i = selected + 1 /\ selected' = i)
  BY <1>1, <1>2
<1>5. Choosing' /\ ModeRight'
  BY <1>1, <1>2, <1>4 DEF VInv, Choosing, ModeRight, FirstFit, VideoRight
<1> QED
  BY <1>3, <1>5 DEF VInv

LEMMA SetModeStep ==
    ASSUME VInv, SetMode
    PROVE  VInv'
<1> DEFINE m == modes[selected + 1]
<1>1. /\ pc = "set" /\ selected < Len(modes) /\ selected \in Nat /\ Len(modes) \in Nat
      /\ UNCHANGED <<list, kind, next, modes>>
      /\ modes \in Seq(Mode) /\ kind \in [Mode -> Kind] /\ kind[m] # "unsuited" /\ card = NoMode
      /\ DOMAIN modes = 1 .. Len(modes)
  BY DEF SetMode, bios, VInv, VesaTypes, Choosing
<1>2. m \in Mode /\ kind[m] \in {"refused", "fits"} /\ selected + 1 \in DOMAIN modes /\ m # NoMode
  BY <1>1, VesaAssumption DEF VInv, Filling, Kind
<1>3. CASE kind[m] = "fits"
  <2>1. card' = m /\ video' = m /\ pc' = "booted" /\ selected' = selected
    BY <1>3 DEF SetMode
  <2>2. VesaTypes' /\ TableRight' /\ Filling'
    BY <1>1, <2>1, TableStays
  <2>3. selected + 1 \in Usable /\ \A j \in Usable : selected + 1 <= j
    BY <1>1, <1>2, <1>3 DEF Usable, VInv, Choosing
  <2>4. Usable' = Usable
    BY <1>1 DEF Usable
  <2>5. FirstFit'
    BY <1>1, <1>2, <2>1, <2>3, <2>4 DEF FirstFit
  <2>6. Choosing' /\ ModeRight'
    BY <1>1, <2>1, <2>5 DEF VInv, Choosing, ModeRight, VideoRight
  <2> QED
    BY <2>2, <2>6 DEF VInv
<1>4. CASE kind[m] = "refused"
  <2>1. selected' = selected + 1 /\ pc' = "select" /\ UNCHANGED <<card, video>>
    BY <1>4 DEF SetMode
  <2>2. VesaTypes' /\ TableRight' /\ Filling'
    BY <1>1, <2>1, TableStays
  <2>3. \A i \in 1 .. selected' : i \in 1 .. selected \/ i = selected + 1
    BY <1>1, <2>1
  <2>4. \A i \in 1 .. selected' : kind'[modes'[i]] # "fits"
    BY <1>1, <1>4, <2>3 DEF VInv, Choosing
  <2>5. selected' <= Len(modes') /\ (selected' = Len(modes') => modes'[Len(modes')] = m)
    <3>1. /\ selected' = selected + 1 /\ modes' = modes /\ selected < Len(modes)
          /\ selected \in Nat /\ Len(modes) \in Nat
      BY <1>1, <2>1
    <3>2. selected + 1 <= Len(modes)
      BY <3>1
    <3> QED
      BY <3>1, <3>2
  <2>6. Choosing'
    BY <1>1, <1>4, <2>1, <2>4, <2>5 DEF Choosing
  <2>7. ModeRight'
    BY <1>1, <2>1 DEF VInv, Choosing, ModeRight, FirstFit, VideoRight
  <2> QED
    BY <2>2, <2>6, <2>7 DEF VInv
<1> QED
  BY <1>2, <1>3, <1>4

LEMMA LoopEndsStep ==
    ASSUME VInv, LoopEnds
    PROVE  VInv'
<1>1. /\ pc = "select" /\ selected >= Len(modes) /\ pc' = "booted" /\ selected \in Nat
      /\ Len(modes) \in Nat /\ DOMAIN modes = 1 .. Len(modes) /\ card = NoMode
      /\ UNCHANGED <<list, kind, next, modes, selected, card, video>>
  BY DEF LoopEnds, bios, VInv, VesaTypes, Choosing
<1>2. VesaTypes' /\ TableRight' /\ Filling'
  BY <1>1, TableStays
<1>3. selected = Len(modes)
  <2>1. selected <= Len(modes)
    BY DEF VInv, Choosing
  <2>2. selected \in Nat /\ Len(modes) \in Nat /\ selected >= Len(modes)
    BY <1>1
  <2> QED
    BY <2>1, <2>2
<1>4. Usable' = {}
  BY <1>1, <1>3 DEF VInv, Choosing, Usable
<1>5. FirstFit'
  BY <1>1, <1>3, <1>4 DEF VInv, Choosing, FirstFit
<1>6. Choosing' /\ ModeRight'
  BY <1>1, <1>5 DEF VInv, Choosing, ModeRight, VideoRight
<1> QED
  BY <1>2, <1>6 DEF VInv

LEMMA NextVInv == VInv /\ [VesaNext]_vesaVars => VInv'
<1> SUFFICES ASSUME VInv, [VesaNext]_vesaVars PROVE VInv'
  OBVIOUS
<1>1. CASE VesaNext
  BY <1>1, BiosStep, GetModeStep, ListEndsStep, ConsiderStep, SetModeStep, LoopEndsStep
  DEF VesaNext
<1>2. CASE UNCHANGED vesaVars
  <2>1. UNCHANGED <<list, kind, pc, next, modes, selected, card, video>>
    BY <1>2 DEF vesaVars, bios
  <2> QED
    BY <2>1 DEF VInv, VesaTypes, TableRight, Listed, Filling, Read, Kept, Choosing, ModeRight,
                FirstFit, VideoRight, Usable
<1> QED
  BY <1>1, <1>2

THEOREM VesaInvariance == VesaSpec => []VInv
  BY InitVInv, NextVInv, PTL DEF VesaSpec

(* vesa_get_modes: the table is not overrun, names no mode twice and, when *)
(* it is not full, misses no mode that the filter lets through.            *)
THEOREM TableCorrect == VesaSpec => []TableRight
<1>1. VInv => TableRight
  BY DEF VInv
<1> QED
  BY <1>1, VesaInvariance, PTL

(* kernel_main, vesa_set_mode: the kernel boots with the first mode that   *)
(* it can use and the card accepts, and believes of the screen what the    *)
(* card shows.                                                             *)
THEOREM FirstFitChosen == VesaSpec => []ModeRight
<1>1. VInv => ModeRight
  BY DEF VInv
<1> QED
  BY <1>1, VesaInvariance, PTL

-----------------------------------------------------------------------------
(* Pci. *)

(* The stack, as the call at its top and the set of those below it; no two *)
(* calls scan the same bus or walk the same bridge.                        *)
Frame ==
    [call : {"scan"}, bus : Bus, slot : 0 .. NumSlots, func : 0 .. NumFuncs - 1]
        \union [call : {"bridge"}, at : Addresses, bus : Bus]
Of(f) == IF f.call = "scan" THEN <<"scan", f.bus>> ELSE <<"bridge", f.at>>
StackTrue ==
    /\ stack \in Seq(Frame)
    /\ \A i, j \in DOMAIN stack : Of(stack[i]) = Of(stack[j]) => i = j

Frames == {stack[i] : i \in DOMAIN stack}
Rest == {stack[i] : i \in 2 .. Len(stack)}
Scans == {f \in Frames : f.call = "scan"}
Walks == {f \in Frames : f.call = "bridge"}

Entered == {devices[i] : i \in DOMAIN devices}
Shown == {offered[i] : i \in DOMAIN offered}

PciTypes ==
    /\ bridges \subseteq Bridge /\ \A b, c \in bridges : b.at = c.at => b = c
    /\ plain \subseteq Addresses /\ \A b \in bridges : b.at \notin plain
    /\ multi \subseteq Addresses
    /\ StackTrue
    /\ scanned \subseteq Bus /\ 0 \in scanned
    /\ devices \in Seq(Addresses) /\ offered \in Seq(Addresses) /\ decoded \subseteq Entered

(* A scan looks at functions behind a function 0 that answers.             *)
ScansTrue ==
    \A f \in Scans :
        /\ f.bus \in scanned /\ f.func < Functions(f.bus, f.slot)
        /\ f.func > 0 => f.slot < NumSlots /\ At(f.bus, f.slot, 0) \in Present

(* A bridge whose buses are being walked is entered, and not offered yet.  *)
(* The buses it has passed are scanned; only if its range ends at the last *)
(* bus does the walk begin anew, and it has no end then.                   *)
WalksTrue ==
    \A f \in Walks :
        /\ f.at \in Entered /\ f.at \notin Shown
        /\ \E b \in bridges :
              /\ b.at = f.at
              /\ b.sub < NumBuses - 1 => b.sec <= f.bus /\ b.sec .. f.bus - 1 \subseteq scanned

Endless == \E f \in Walks : BridgeAt(f.at).sub = NumBuses - 1

(* Entered is what the scans have passed, and nothing else.                *)
Passed(p, f) == p.slot < f.slot \/ (p.slot = f.slot /\ p.func < f.func)

Books ==
    /\ TableSound
    /\ \A p \in Entered : /\ p \in Visible(p.bus) /\ p.bus \in scanned
                          /\ \A f \in Scans : f.bus = p.bus => Passed(p, f)
    /\ Shown \subseteq Entered
    /\ \A p \in Entered : p \in Shown \/ \E f \in Walks : f.at = p
    /\ \A b \in bridges : b.at \in Shown => b.sec .. b.sub \subseteq scanned

(* With room in the table, what a scan has passed is entered.              *)
Covered ==
    Len(devices) < MaxDevices =>
        \A bus \in scanned : \A p \in Visible(bus) :
            p \in Entered \/ \E f \in Scans : f.bus = bus /\ ~Passed(p, f)

NoStray == Endless \/ scanned \subseteq Reachable

PInv == PciTypes /\ ScansTrue /\ WalksTrue /\ Books /\ Covered /\ NoStray

-----------------------------------------------------------------------------
(* The stack. *)
LEMMA TopFrame ==
    ASSUME StackTrue, stack # <<>>
    PROVE  /\ Call \in Frame /\ Frames = {Call} \union Rest
           /\ \A f \in Rest : f \in Frame /\ Of(f) # Of(Call)
<1>1. /\ Len(stack) \in Nat \ {0} /\ DOMAIN stack = 1 .. Len(stack) /\ Call = stack[1]
      /\ \A i \in 1 .. Len(stack) : stack[i] \in Frame
  BY DEF StackTrue, Call
<1>2. 1 .. Len(stack) = {1} \union 2 .. Len(stack)
  BY <1>1
<1>3. Frames = {Call} \union Rest
  BY <1>1, <1>2 DEF Frames, Rest
<1>4. ASSUME NEW i \in 2 .. Len(stack) PROVE stack[i] \in Frame /\ Of(stack[i]) # Of(Call)
  BY <1>1 DEF StackTrue
<1> QED
  BY <1>1, <1>2, <1>3, <1>4 DEF Rest

LEMMA ContinueFrames ==
    ASSUME StackTrue, stack # <<>>, NEW f \in Frame, Of(f) = Of(Call), Continue(f)
    PROVE  StackTrue' /\ Frames' = {f} \union Rest
<1>1. /\ Len(stack) \in Nat \ {0} /\ DOMAIN stack = 1 .. Len(stack) /\ Call = stack[1]
      /\ \A i \in 1 .. Len(stack) : stack[i] \in Frame
  BY DEF StackTrue, Call
<1>2. stack' = <<f>> \o Tail(stack) /\ Tail(stack) \in Seq(Frame)
  BY DEF StackTrue, Continue
<1>3. /\ stack' \in Seq(Frame) /\ Len(stack') = Len(stack) /\ DOMAIN stack' = 1 .. Len(stack)
      /\ stack'[1] = f /\ \A i \in 2 .. Len(stack) : stack'[i] = stack[i]
  BY <1>1, <1>2
<1>4. 1 .. Len(stack) = {1} \union 2 .. Len(stack) /\ 1 \notin 2 .. Len(stack)
  BY <1>1
<1>5. \A i \in DOMAIN stack' : Of(stack'[i]) = Of(stack[i])
  BY <1>1, <1>3, <1>4
<1>6. StackTrue'
  BY <1>1, <1>3, <1>5 DEF StackTrue, Of
<1>7. Frames' = {f} \union Rest
  BY <1>3, <1>4 DEF Frames, Rest
<1> QED
  BY <1>6, <1>7

LEMMA ReturnFrames ==
    ASSUME StackTrue, stack # <<>>, Return
    PROVE  StackTrue' /\ Frames' = Rest
<1>1. Len(stack) \in Nat \ {0} /\ DOMAIN stack = 1 .. Len(stack)
  BY DEF StackTrue
<1>2. /\ stack' \in Seq(Frame) /\ Len(stack') = Len(stack) - 1
      /\ DOMAIN stack' = 1 .. Len(stack) - 1
      /\ \A i \in 1 .. Len(stack) - 1 : stack'[i] = stack[i + 1]
  BY <1>1 DEF StackTrue, Return
<1>3. \A i \in 1 .. Len(stack) - 1 : i + 1 \in 2 .. Len(stack)
  BY <1>1
<1>4. \A i \in 2 .. Len(stack) : i - 1 \in 1 .. Len(stack) - 1 /\ i - 1 + 1 = i
  BY <1>1
<1>5. ASSUME NEW i \in DOMAIN stack', NEW j \in DOMAIN stack', Of(stack'[i]) = Of(stack'[j])
      PROVE  i = j
  <2>1. Of(stack[i + 1]) = Of(stack[j + 1]) /\ i + 1 \in DOMAIN stack /\ j + 1 \in DOMAIN stack
    BY <1>1, <1>2, <1>3, <1>5
  <2>2. i + 1 = j + 1
    BY <2>1 DEF StackTrue
  <2> QED
    BY <1>1, <1>2, <2>2
<1>6. StackTrue'
  BY <1>2, <1>5 DEF StackTrue, Of
<1>7. Frames' = Rest
  <2>1. \A i \in DOMAIN stack' : stack'[i] \in Rest
    BY <1>2, <1>3 DEF Rest
  <2>2. \A i \in 2 .. Len(stack) : stack[i] = stack'[i - 1]
    BY <1>2, <1>4
  <2> QED
    BY <1>2, <1>4, <2>1, <2>2 DEF Frames, Rest
<1> QED
  BY <1>6, <1>7

LEMMA PushFrames ==
    ASSUME StackTrue, stack # <<>>, NEW f \in Frame, Of(f) = Of(Call),
           NEW g \in Frame, \A h \in Frames : Of(g) # Of(h),
           stack' = <<g, f>> \o Tail(stack)
    PROVE  StackTrue' /\ Frames' = {g, f} \union Rest
<1> DEFINE n == Len(stack)
<1>1. /\ n \in Nat \ {0} /\ DOMAIN stack = 1 .. n /\ Call = stack[1]
      /\ \A i \in 1 .. n : stack[i] \in Frame
  BY DEF StackTrue, Call
<1>2. Tail(stack) \in Seq(Frame) /\ <<g, f>> \in Seq(Frame)
  BY DEF StackTrue
<1>3. /\ stack' \in Seq(Frame) /\ Len(stack') = n + 1 /\ DOMAIN stack' = 1 .. n + 1
      /\ stack'[1] = g /\ stack'[2] = f /\ \A i \in 3 .. n + 1 : stack'[i] = stack[i - 1]
  BY <1>1, <1>2
<1>4. \A i \in 1 .. n + 1 : i = 1 \/ i = 2 \/ i \in 3 .. n + 1
  BY <1>1
<1>5. \A i \in 2 .. n + 1 : i - 1 \in 1 .. n /\ Of(stack'[i]) = Of(stack[i - 1])
  <2> TAKE i \in 2 .. n + 1
  <2>1. CASE i = 2
    BY <1>1, <1>3, <2>1
  <2>2. CASE i \in 3 .. n + 1
    BY <1>1, <1>3, <2>2
  <2> QED
    BY <1>1, <2>1, <2>2
<1>6. \A i \in 2 .. n + 1 : Of(stack'[i]) # Of(stack'[1])
  BY <1>1, <1>3, <1>5 DEF Frames
<1>7. ASSUME NEW i \in DOMAIN stack', NEW j \in DOMAIN stack', Of(stack'[i]) = Of(stack'[j])
      PROVE  i = j
  <2>1. CASE i = 1 \/ j = 1
    BY <1>1, <1>3, <1>6, <1>7, <2>1
  <2>2. CASE i \in 2 .. n + 1 /\ j \in 2 .. n + 1
    <3>1. Of(stack[i - 1]) = Of(stack[j - 1]) /\ i - 1 \in DOMAIN stack /\ j - 1 \in DOMAIN stack
      BY <1>1, <1>5, <1>7, <2>2
    <3>2. i - 1 = j - 1
      BY <3>1 DEF StackTrue
    <3> QED
      BY <1>1, <2>2, <3>2
  <2> QED
    BY <1>1, <1>3, <2>1, <2>2
<1>8. StackTrue'
  BY <1>3, <1>7 DEF StackTrue, Of
<1>9. Frames' = {g, f} \union Rest
  <2>1. \A i \in 3 .. n + 1 : stack'[i] \in Rest
    BY <1>1, <1>3 DEF Rest
  <2>2. \A i \in 2 .. n : i + 1 \in 3 .. n + 1 /\ stack'[i + 1] = stack[i]
    BY <1>1, <1>3
  <2>3. 1 \in 1 .. n + 1 /\ 2 \in 1 .. n + 1 /\ 3 .. n + 1 \subseteq 1 .. n + 1
    BY <1>1
  <2>4. Frames' = {stack'[i] : i \in 1 .. n + 1}
    BY <1>3 DEF Frames
  <2>5. Frames' \subseteq {g, f} \union Rest
    BY <1>3, <1>4, <2>1, <2>4
  <2>6. g \in Frames' /\ f \in Frames'
    BY <1>3, <2>3, <2>4
  <2>7. Rest \subseteq Frames'
    BY <2>2, <2>3, <2>4 DEF Rest
  <2> QED
    BY <2>5, <2>6, <2>7
<1> QED
  BY <1>8, <1>9

-----------------------------------------------------------------------------
(* The hardware stays, and with it what can be seen and reached.           *)
LEMMA HardwareStays ==
    ASSUME UNCHANGED hardware
    PROVE  /\ Present' = Present /\ Reachable' = Reachable
           /\ \A bus, slot : Functions(bus, slot)' = Functions(bus, slot)
           /\ \A bus : Visible(bus)' = Visible(bus)
           /\ \A p : BridgeAt(p)' = BridgeAt(p)
<1>1. UNCHANGED <<bridges, plain, strange, multi>>
  BY DEF hardware
<1>2. Present' = Present /\ \A bus, slot : Functions(bus, slot)' = Functions(bus, slot)
  BY <1>1 DEF Present, Functions
<1>3. \A bus : Visible(bus)' = Visible(bus)
  BY <1>2 DEF Visible
<1>4. \A S : Closed(S)' = Closed(S)
  BY <1>1, <1>3 DEF Closed
<1>5. Reachable' = Reachable
  BY <1>4 DEF Reachable
<1>6. \A p : BridgeAt(p)' = BridgeAt(p)
  BY <1>1 DEF BridgeAt
<1> QED
  BY <1>2, <1>3, <1>5, <1>6

LEMMA HardwareTypes ==
    ASSUME PciTypes
    PROVE  /\ \A bus, slot : Functions(bus, slot) \in 1 .. NumFuncs
           /\ Present \subseteq Addresses
           /\ \A b \in bridges : BridgeAt(b.at) = b /\ b.at \in Present
           /\ \A p \in Present \ plain : \E b \in bridges : b.at = p
  BY PciAssumption DEF PciTypes, Functions, Present, Bridge, BridgeAt

LEMMA ReachableClosed ==
    ASSUME PciTypes
    PROVE  Closed(Reachable)
<1>1. 0 \in Reachable
  BY PciAssumption DEF Reachable, Bus, Closed
<1>2. ASSUME NEW bus \in Reachable, NEW b \in bridges, b.at \in Visible(bus), NEW c \in b.sec .. b.sub
      PROVE  c \in Reachable
  <2>1. c \in Bus
    BY <1>2, PciAssumption DEF PciTypes, Bridge, Bus
  <2>2. ASSUME NEW S \in SUBSET Bus, Closed(S) PROVE c \in S
    BY <1>2, <2>2 DEF Reachable, Closed
  <2> QED
    BY <2>1, <2>2 DEF Reachable
<1> QED
  BY <1>1, <1>2 DEF Closed

LEMMA InitPInv == PciInit => PInv
<1> SUFFICES ASSUME PciInit PROVE PInv
  OBVIOUS
<1>0. PICK n \in 0 .. MaxBridges : \E f \in [1 .. n -> Bridge] :
          /\ \A i, j \in 1 .. n : i < j => f[i].at # f[j].at
          /\ bridges = {f[i] : i \in 1 .. n}
  BY DEF PciInit
<1>1. PICK f \in [1 .. n -> Bridge] :
          /\ \A i, j \in 1 .. n : i < j => f[i].at # f[j].at
          /\ bridges = {f[i] : i \in 1 .. n}
  BY <1>0
<1>2. bridges \subseteq Bridge
  BY <1>1
<1>3. \A b, c \in bridges : b.at = c.at => b = c
  <2>1. \A i, j \in 1 .. n : i < j \/ i = j \/ j < i
    BY PciAssumption
  <2> QED
    BY <1>1, <2>1
<1>4. plain \subseteq Addresses /\ (\A b \in bridges : b.at \notin plain) /\ multi \subseteq Addresses
  BY PciAssumption DEF PciInit
<1>5. /\ 0 \in Bus /\ Scan(0) \in Frame /\ stack = <<Scan(0)>> /\ Len(stack) = 1
      /\ DOMAIN stack = {1} /\ stack[1] = Scan(0) /\ Frames = {Scan(0)}
  BY PciAssumption DEF PciInit, Bus, Scan, Frame, Frames
<1>6. StackTrue
  BY <1>5 DEF StackTrue
<1>7. devices = <<>> /\ offered = <<>> /\ Entered = {} /\ Shown = {} /\ scanned = {0} /\ decoded = {}
  BY DEF PciInit, Entered, Shown
<1>8. PciTypes
  BY <1>2, <1>3, <1>4, <1>5, <1>6, <1>7 DEF PciTypes
<1>9. Scans = {Scan(0)} /\ Walks = {}
  BY <1>5 DEF Scans, Walks, Scan
<1>10. ScansTrue /\ WalksTrue
  BY <1>7, <1>8, <1>9, HardwareTypes DEF ScansTrue, WalksTrue, Scan
<1>11. Books
  BY <1>7, PciAssumption DEF Books, TableSound
<1>12. Covered
  <2> SUFFICES ASSUME NEW p \in Visible(0) PROVE ~Passed(p, Scan(0))
    BY <1>7, <1>9 DEF Covered, Scan
  <2>1. p.slot \in Nat /\ p.func \in Nat
    BY <1>8, HardwareTypes, PciAssumption DEF Visible, Addresses
  <2> QED
    BY <2>1 DEF Passed, Scan
<1>13. NoStray
  BY <1>7, <1>8, ReachableClosed DEF NoStray, Closed
<1> QED
  BY <1>8, <1>10, <1>11, <1>12, <1>13 DEF PInv

-----------------------------------------------------------------------------
(* The loops of pci_scan_bus over slots and functions. *)
Cursor == At(Call.bus, Call.slot, Call.func)

LEMMA ScanCall ==
    ASSUME PInv, stack # <<>>, Call.call = "scan"
    PROVE  /\ Call \in Frame /\ Call \in Scans /\ Call \notin Rest
           /\ Call.bus \in Bus /\ Call.slot \in 0 .. NumSlots /\ Call.func \in 0 .. NumFuncs - 1
           /\ Call = [call |-> "scan", bus |-> Call.bus, slot |-> Call.slot, func |-> Call.func]
           /\ Scans = {Call} \union {f \in Rest : f.call = "scan"}
           /\ Walks = {f \in Rest : f.call = "bridge"}
           /\ \A f \in Rest : f.call = "scan" => f.bus # Call.bus
           /\ NumSlots \in Nat \ {0} /\ NumFuncs \in Nat \ {0}
           /\ \A bus, slot : Functions(bus, slot) \in 1 .. NumFuncs
<1>1. /\ Call \in Frame /\ Frames = {Call} \union Rest
      /\ \A f \in Rest : f \in Frame /\ Of(f) # Of(Call)
  BY TopFrame DEF PInv, PciTypes
<1>2. /\ Call.bus \in Bus /\ Call.slot \in 0 .. NumSlots /\ Call.func \in 0 .. NumFuncs - 1
      /\ Call = [call |-> "scan", bus |-> Call.bus, slot |-> Call.slot, func |-> Call.func]
  BY <1>1 DEF Frame
<1>3. \A f \in Rest : f.call = "scan" => f.bus # Call.bus
  BY <1>1 DEF Of
<1>4. Call \notin Rest
  BY <1>1
<1>5. /\ Scans = {Call} \union {f \in Rest : f.call = "scan"}
      /\ Walks = {f \in Rest : f.call = "bridge"}
  BY <1>1 DEF Scans, Walks
<1> QED
  BY <1>1, <1>2, <1>3, <1>4, <1>5, HardwareTypes, PciAssumption DEF PInv

(* The step to the next function passes the function at hand, and no other *)
(* that can be seen.                                                       *)
LEMMA Advance ==
    ASSUME PInv, stack # <<>>, Call.call = "scan", Call.slot < NumSlots, NEW on,
           \/ /\ on = [Call EXCEPT !.slot = @ + 1, !.func = 0]
              /\ \/ Call.func + 1 >= Functions(Call.bus, Call.slot)
                 \/ Call.func = 0 /\ Cursor \notin Present
           \/ /\ on = [Call EXCEPT !.func = @ + 1] /\ Call.func + 1 < Functions(Call.bus, Call.slot)
              /\ Call.func > 0 \/ Cursor \in Present
    PROVE  /\ on \in Frame /\ on.call = "scan" /\ on.bus = Call.bus /\ Of(on) = Of(Call)
           /\ on.func < Functions(on.bus, on.slot)
           /\ on.func > 0 => on.slot < NumSlots /\ At(on.bus, on.slot, 0) \in Present
           /\ Passed(Cursor, on)
           /\ \A q \in Addresses : Passed(q, Call) => Passed(q, on)
           /\ \A q \in Visible(Call.bus) : Passed(q, on) => Passed(q, Call) \/ q = Cursor
<1> DEFINE b == Call.bus  s == Call.slot  n == Call.func
<1>1. /\ b \in Bus /\ s \in 0 .. NumSlots - 1 /\ n \in 0 .. NumFuncs - 1
      /\ Call = [call |-> "scan", bus |-> b, slot |-> s, func |-> n] /\ Call \in Scans
      /\ NumSlots \in Nat /\ NumFuncs \in Nat
      /\ \A bus, slot : Functions(bus, slot) \in 1 .. NumFuncs
  BY ScanCall
<1>2. n > 0 => At(b, s, 0) \in Present
  BY <1>1 DEF PInv, ScansTrue
<1>3. Cursor = [bus |-> b, slot |-> s, func |-> n] /\ At(b, s, 0) = [bus |-> b, slot |-> s, func |-> 0]
  BY DEF Cursor, At
<1>4. ASSUME NEW q \in Visible(b), q.slot = s
      PROVE  /\ q.func \in 0 .. Functions(b, s) - 1 /\ At(b, s, 0) \in Present
             /\ q.func = n => q = Cursor
  <2>1. q \in Addresses /\ q.bus = b /\ q.func < Functions(b, s) /\ At(b, s, 0) \in Present
    BY <1>4, HardwareTypes DEF PInv, Visible
  <2> QED
    BY <1>1, <1>3, <1>4, <2>1 DEF Addresses
<1>5. ASSUME NEW q \in Addresses PROVE q.slot \in Nat /\ q.func \in Nat
  BY <1>1 DEF Addresses
<1>6. \A q \in Visible(b) : q \in Addresses
  BY HardwareTypes DEF PInv, Visible
<1> HIDE DEF b, s, n
<1>7. CASE /\ on = [Call EXCEPT !.slot = @ + 1, !.func = 0]
           /\ n + 1 >= Functions(b, s) \/ (n = 0 /\ Cursor \notin Present)
  <2>1. on = [call |-> "scan", bus |-> b, slot |-> s + 1, func |-> 0]
    BY <1>1, <1>7
  <2>2. on \in Frame /\ Of(on) = Of(Call)
    BY <1>1, <2>1 DEF Frame, Of
  <2>3. Passed(Cursor, on) /\ \A q \in Addresses : Passed(q, Call) => Passed(q, on)
    BY <1>1, <1>3, <1>5, <2>1 DEF Passed
  <2>4. ASSUME NEW q \in Visible(b), Passed(q, on) PROVE Passed(q, Call) \/ q = Cursor
    <3>1. q.slot \in Nat /\ q.func \in Nat
      BY <1>5, <1>6
    <3>2. q.slot < s \/ q.slot = s
      BY <1>1, <2>1, <2>4, <3>1 DEF Passed
    <3>3. CASE q.slot = s
      <4>1. /\ q.func \in 0 .. Functions(b, s) - 1 /\ At(b, s, 0) \in Present
            /\ q.func = n => q = Cursor
        BY <1>4, <3>3
      <4>2. n + 1 >= Functions(b, s)
        BY <1>3, <1>7, <4>1
      <4>3. q.func <= n
        BY <1>1, <4>1, <4>2
      <4> QED
        BY <1>1, <3>1, <3>3, <4>1, <4>3 DEF Passed
    <3> QED
      BY <1>1, <3>2, <3>3 DEF Passed
  <2> QED
    BY <1>1, <2>1, <2>2, <2>3, <2>4 DEF b
<1>8. CASE /\ on = [Call EXCEPT !.func = @ + 1] /\ n + 1 < Functions(b, s)
           /\ n > 0 \/ Cursor \in Present
  <2>1. on = [call |-> "scan", bus |-> b, slot |-> s, func |-> n + 1]
    BY <1>1, <1>8
  <2>2. on \in Frame /\ Of(on) = Of(Call)
    BY <1>1, <1>8, <2>1 DEF Frame, Of
  <2>3. Passed(Cursor, on) /\ \A q \in Addresses : Passed(q, Call) => Passed(q, on)
    BY <1>1, <1>3, <1>5, <2>1 DEF Passed
  <2>4. At(b, s, 0) \in Present
    <3>1. n = 0 => Cursor = At(b, s, 0)
      BY <1>3
    <3> QED
      BY <1>1, <1>2, <1>8, <3>1
  <2>5. ASSUME NEW q \in Visible(b), Passed(q, on) PROVE Passed(q, Call) \/ q = Cursor
    <3>1. q.slot \in Nat /\ q.func \in Nat
      BY <1>5, <1>6
    <3>2. q.slot < s \/ (q.slot = s /\ q.func <= n)
      BY <1>1, <2>1, <2>5, <3>1 DEF Passed
    <3>3. q.slot = s /\ q.func = n => q = Cursor
      BY <1>4
    <3>4. q.func <= n => q.func < n \/ q.func = n
      BY <1>1, <3>1
    <3> QED
      BY <1>1, <3>2, <3>3, <3>4 DEF Passed
  <2> QED
    BY <1>1, <1>8, <2>1, <2>2, <2>3, <2>4, <2>5 DEF b
<1> QED
  BY <1>7, <1>8 DEF b, s, n

(* A step over a function that does not answer, or that is not entered.    *)
LEMMA PassStep ==
    ASSUME PInv, stack # <<>>, Call.call = "scan", Call.slot < NumSlots, NEW on, Continue(on),
           \/ /\ on = [Call EXCEPT !.slot = @ + 1, !.func = 0]
              /\ \/ Call.func + 1 >= Functions(Call.bus, Call.slot)
                 \/ Call.func = 0 /\ Cursor \notin Present
           \/ /\ on = [Call EXCEPT !.func = @ + 1] /\ Call.func + 1 < Functions(Call.bus, Call.slot)
              /\ Call.func > 0 \/ Cursor \in Present,
           UNCHANGED <<hardware, scanned, devices, decoded, offered>>,
           Len(devices) < MaxDevices /\ Cursor \in Present => Cursor \in Entered
    PROVE  PInv'
<1> USE Advance, ScanCall
<1>1. StackTrue' /\ Frames' = {on} \union Rest
  BY ContinueFrames DEF PInv, PciTypes
<1>2. /\ Scans' = {on} \union {f \in Rest : f.call = "scan"}
      /\ Walks' = Walks /\ Entered' = Entered /\ Shown' = Shown
  BY <1>1 DEF Scans, Walks, Entered, Shown
<1>3. UNCHANGED <<bridges, plain, strange, multi>>
  BY DEF hardware
<1>4. PciTypes'
  BY <1>1, <1>2, <1>3 DEF PInv, PciTypes
<1>5. ScansTrue'
  BY <1>2, HardwareStays DEF PInv, ScansTrue
<1>6. WalksTrue' /\ NoStray'
  BY <1>2, <1>3, HardwareStays DEF PInv, WalksTrue, NoStray, Endless
<1>7. Books'
  <2>1. ASSUME NEW q \in Entered, NEW f \in Scans', f.bus = q.bus PROVE Passed(q, f)
    <3>1. q \in Addresses
      BY HardwareTypes DEF PInv, Books, Visible
    <3>2. f \in Rest => Passed(q, f)
      BY <1>2, <2>1 DEF PInv, Books
    <3>3. f = on => Passed(q, Call)
      BY <2>1 DEF PInv, Books
    <3> QED
      BY <1>2, <3>1, <3>2, <3>3
  <2> QED
    BY <1>2, <1>3, <2>1, HardwareStays DEF PInv, Books, TableSound
<1>8. Covered'
  <2> SUFFICES ASSUME Len(devices) < MaxDevices, NEW bus \in scanned, NEW q \in Visible(bus),
                      q \notin Entered
               PROVE  \E f \in Scans' : f.bus = bus /\ ~Passed(q, f)
    BY <1>2, HardwareStays DEF Covered
  <2>1. PICK f \in Scans : f.bus = bus /\ ~Passed(q, f)
    BY DEF PInv, Covered
  <2>2. CASE f = Call
    <3>1. q \in Present
      BY DEF Visible
    <3>2. q # Cursor
      BY <3>1
    <3>3. ~Passed(q, on)
      BY <2>1, <2>2, <3>2
    <3> QED
      BY <1>2, <2>1, <2>2, <3>3
  <2>3. CASE f # Call
    BY <1>2, <2>1, <2>3
  <2> QED
    BY <2>2, <2>3
<1> QED
  BY <1>4, <1>5, <1>6, <1>7, <1>8 DEF PInv

LEMMA NextFunctionStep ==
    ASSUME PInv, NextFunction
    PROVE  PInv'
<1>1. /\ stack # <<>> /\ Call.call = "scan" /\ Call.slot < NumSlots /\ Cursor \notin Present
      /\ UNCHANGED <<hardware, scanned, devices, decoded, offered>>
  BY DEF NextFunction, Cursor
<1>2. CASE Call.func = 0 \/ Call.func + 1 >= Functions(Call.bus, Call.slot)
  <2>1. Continue([Call EXCEPT !.slot = @ + 1, !.func = 0])
    BY <1>2 DEF NextFunction
  <2> QED
    BY <1>1, <1>2, <2>1, PassStep
<1>3. CASE ~(Call.func = 0 \/ Call.func + 1 >= Functions(Call.bus, Call.slot))
  <2>1. Continue([Call EXCEPT !.func = @ + 1])
    BY <1>3 DEF NextFunction
  <2>2. Call.func > 0 /\ Call.func + 1 < Functions(Call.bus, Call.slot)
    BY <1>1, <1>3, ScanCall
  <2> QED
    BY <1>1, <2>1, <2>2, PassStep
<1> QED
  BY <1>2, <1>3

LEMMA ScanReturnsStep ==
    ASSUME PInv, ScanReturns
    PROVE  PInv'
<1>1. /\ stack # <<>> /\ Call.call = "scan" /\ Call.slot = NumSlots /\ Return
      /\ UNCHANGED <<hardware, scanned, devices, decoded, offered>>
  BY DEF ScanReturns
<1> USE <1>1, ScanCall
<1>2. StackTrue' /\ Frames' = Rest
  BY ReturnFrames DEF PInv, PciTypes
<1>3. /\ Scans' = {f \in Rest : f.call = "scan"}
      /\ Walks' = Walks /\ Entered' = Entered /\ Shown' = Shown
  BY <1>2 DEF Scans, Walks, Entered, Shown
<1>4. UNCHANGED <<bridges, plain, strange, multi>>
  BY DEF hardware
<1>5. PciTypes'
  BY <1>2, <1>3, <1>4 DEF PInv, PciTypes
<1>6. ScansTrue' /\ WalksTrue' /\ NoStray'
  BY <1>3, <1>4, HardwareStays DEF PInv, ScansTrue, WalksTrue, NoStray, Endless
<1>7. Books'
  BY <1>3, <1>4, HardwareStays DEF PInv, Books, TableSound
<1>8. Covered'
  <2> SUFFICES ASSUME Len(devices) < MaxDevices, NEW bus \in scanned, NEW q \in Visible(bus),
                      q \notin Entered
               PROVE  \E f \in Scans' : f.bus = bus /\ ~Passed(q, f)
    BY <1>3, HardwareStays DEF Covered
  <2>1. PICK f \in Scans : f.bus = bus /\ ~Passed(q, f)
    BY DEF PInv, Covered
  <2>2. q.slot < NumSlots
    BY HardwareTypes DEF PInv, Visible, Addresses
  <2>3. f # Call
    BY <2>1, <2>2 DEF Passed
  <2> QED
    BY <1>3, <2>1, <2>3
<1> QED
  BY <1>5, <1>6, <1>7, <1>8 DEF PInv

(* A function that is entered is on a bus that was not scanned before, or  *)
(* behind what its scan has passed: it was not entered before.             *)
LEMMA CursorIsNew ==
    ASSUME PInv, stack # <<>>, Call.call = "scan", Call.slot < NumSlots, Cursor \in Present
    PROVE  Cursor \notin Entered /\ Cursor \in Visible(Cursor.bus) /\ Cursor.bus = Call.bus
<1> USE ScanCall
<1>1. Cursor = [bus |-> Call.bus, slot |-> Call.slot, func |-> Call.func]
  BY DEF Cursor, At
<1>2. ~Passed(Cursor, Call)
  BY <1>1 DEF Passed
<1>3. Cursor \notin Entered
  BY <1>1, <1>2 DEF PInv, Books
<1>4. /\ Call.func < Functions(Call.bus, Call.slot)
      /\ Call.func > 0 => At(Call.bus, Call.slot, 0) \in Present
  BY DEF PInv, ScansTrue
<1>5. Call.func = 0 => At(Call.bus, Call.slot, 0) = Cursor
  BY <1>1 DEF At
<1> QED
  BY <1>1, <1>3, <1>4, <1>5 DEF Visible

(* One more element in a sequence without repetition. *)
LEMMA AppendNew ==
    ASSUME NEW S, NEW s \in Seq(S), NEW x \in S,
           \A i, j \in DOMAIN s : i < j => s[i] # s[j],
           x \notin {s[i] : i \in DOMAIN s}
    PROVE  /\ Append(s, x) \in Seq(S) /\ Len(Append(s, x)) = Len(s) + 1
           /\ \A i, j \in DOMAIN Append(s, x) : i < j => Append(s, x)[i] # Append(s, x)[j]
           /\ {Append(s, x)[i] : i \in DOMAIN Append(s, x)} = {s[i] : i \in DOMAIN s} \union {x}
<1> DEFINE z == Append(s, x)
<1>1. /\ Len(s) \in Nat /\ z \in Seq(S) /\ Len(z) = Len(s) + 1 /\ DOMAIN s = 1 .. Len(s)
      /\ DOMAIN z = 1 .. Len(s) + 1 /\ z[Len(s) + 1] = x /\ \A i \in 1 .. Len(s) : z[i] = s[i]
  OBVIOUS
<1> HIDE DEF z
<1>2. DOMAIN z = DOMAIN s \union {Len(s) + 1}
  BY <1>1
<1>3. {z[i] : i \in DOMAIN z} = {s[i] : i \in DOMAIN s} \union {x}
  BY <1>1, <1>2
<1>4. ASSUME NEW i \in DOMAIN z, NEW j \in DOMAIN z, i < j PROVE z[i] # z[j]
  <2>1. i \in DOMAIN s /\ (j \in DOMAIN s \/ j = Len(s) + 1)
    BY <1>1, <1>4
  <2> QED
    BY <1>1, <1>4, <2>1
<1> QED
  BY <1>1, <1>3, <1>4 DEF z

LEMMA EnteredGrows ==
    ASSUME PInv, Cursor \in Addresses, Cursor \notin Entered, devices' = Append(devices, Cursor)
    PROVE  /\ devices' \in Seq(Addresses) /\ Len(devices') = Len(devices) + 1
           /\ \A i, j \in DOMAIN devices' : i < j => devices'[i] # devices'[j]
           /\ Entered' = Entered \union {Cursor}
<1>1. /\ devices \in Seq(Addresses) /\ \A i, j \in DOMAIN devices : i < j => devices[i] # devices[j]
      /\ Cursor \notin {devices[i] : i \in DOMAIN devices}
  BY DEF PInv, PciTypes, Books, TableSound, Entered
<1>2. Entered' = {Append(devices, Cursor)[i] : i \in DOMAIN Append(devices, Cursor)}
  BY DEF Entered
<1> QED
  BY <1>1, <1>2, AppendNew DEF Entered

LEMMA ShownGrows ==
    ASSUME PInv, NEW p \in Addresses, p \notin Shown, Offer(p)
    PROVE  /\ offered' \in Seq(Addresses)
           /\ \A i, j \in DOMAIN offered' : i < j => offered'[i] # offered'[j]
           /\ Shown' = Shown \union {p}
<1>1. /\ offered \in Seq(Addresses) /\ \A i, j \in DOMAIN offered : i < j => offered[i] # offered[j]
      /\ p \notin {offered[i] : i \in DOMAIN offered}
  BY DEF PInv, PciTypes, Books, TableSound, Shown
<1>2. offered' = Append(offered, p)
  BY DEF Offer
<1>3. Shown' = {Append(offered, p)[i] : i \in DOMAIN Append(offered, p)}
  BY <1>2 DEF Shown
<1> QED
  BY <1>1, <1>2, <1>3, AppendNew DEF Shown

LEMMA EnterPlainStep ==
    ASSUME PInv, stack # <<>>, Call.call = "scan", Call.slot < NumSlots, Cursor \in plain,
           ~Full, NEW on, Continue(on),
           \/ /\ on = [Call EXCEPT !.slot = @ + 1, !.func = 0]
              /\ Call.func + 1 >= Functions(Call.bus, Call.slot)
           \/ on = [Call EXCEPT !.func = @ + 1] /\ Call.func + 1 < Functions(Call.bus, Call.slot),
           devices' = Append(devices, Cursor), Decode(Cursor), Offer(Cursor),
           UNCHANGED <<hardware, scanned>>
    PROVE  PInv'
<1>0. Cursor \in Present /\ Cursor \in Addresses
  BY DEF Present, PInv, PciTypes
<1> USE <1>0, Advance, ScanCall, CursorIsNew
<1>1. StackTrue' /\ Frames' = {on} \union Rest
  BY ContinueFrames DEF PInv, PciTypes
<1>2. /\ Scans' = {on} \union {f \in Rest : f.call = "scan"} /\ Walks' = Walks
  BY <1>1 DEF Scans, Walks
<1>3. UNCHANGED <<bridges, plain, strange, multi>>
  BY DEF hardware
<1>4. Cursor \notin Shown
  BY DEF PInv, Books
<1>5. /\ devices' \in Seq(Addresses) /\ Len(devices') = Len(devices) + 1
      /\ \A i, j \in DOMAIN devices' : i < j => devices'[i] # devices'[j]
      /\ Entered' = Entered \union {Cursor}
  BY EnteredGrows
<1>6. /\ offered' \in Seq(Addresses)
      /\ \A i, j \in DOMAIN offered' : i < j => offered'[i] # offered'[j]
      /\ Shown' = Shown \union {Cursor}
  BY <1>4, ShownGrows
<1>7. Len(devices') <= MaxDevices
  BY <1>5, PciAssumption DEF Full, PInv, PciTypes
<1>8. PciTypes'
  BY <1>1, <1>2, <1>3, <1>5, <1>6 DEF PInv, PciTypes, Decode
<1>9. ScansTrue'
  BY <1>2, HardwareStays DEF PInv, ScansTrue
<1>10. WalksTrue' /\ NoStray'
  <2>1. \A f \in Walks : f.at \in Entered
    BY DEF PInv, WalksTrue
  <2> QED
    BY <1>2, <1>3, <1>5, <1>6, <2>1, HardwareStays DEF PInv, WalksTrue, NoStray, Endless
<1>11. Books'
  <2>1. ASSUME NEW q \in Entered', NEW f \in Scans', f.bus = q.bus PROVE Passed(q, f)
    <3>1. q \in Entered => q \in Addresses
      BY HardwareTypes DEF PInv, Books, Visible
    <3>2. q \in Entered /\ f \in Rest => Passed(q, f)
      BY <1>2, <2>1 DEF PInv, Books
    <3>3. q \in Entered /\ f = on => Passed(q, Call)
      BY <2>1 DEF PInv, Books
    <3>4. q = Cursor => f = on
      BY <1>2, <2>1
    <3> QED
      BY <1>2, <1>5, <3>1, <3>2, <3>3, <3>4
  <2>2. \A q \in Entered' : q \in Visible(q.bus) /\ q.bus \in scanned
    BY <1>5 DEF PInv, Books, ScansTrue
  <2>3. \A b \in bridges : b.at \in Shown' => b.at \in Shown
    BY <1>6 DEF PInv, PciTypes
  <2>4. Shown' \subseteq Entered' /\ \A q \in Entered' : q \in Shown' \/ \E f \in Walks : f.at = q
    BY <1>5, <1>6 DEF PInv, Books
  <2>5. TableSound'
    BY <1>5, <1>6, <1>7 DEF TableSound
  <2> QED
    BY <1>2, <1>3, <2>1, <2>2, <2>3, <2>4, <2>5, HardwareStays DEF PInv, Books
<1>12. Covered'
  <2> SUFFICES ASSUME Len(devices') < MaxDevices, NEW bus \in scanned, NEW q \in Visible(bus),
                      q \notin Entered'
               PROVE  \E f \in Scans' : f.bus = bus /\ ~Passed(q, f)
    BY HardwareStays DEF Covered
  <2>1. Len(devices) < MaxDevices /\ q \notin Entered /\ q # Cursor
    BY <1>5, PciAssumption DEF PInv, PciTypes
  <2>2. PICK f \in Scans : f.bus = bus /\ ~Passed(q, f)
    BY <2>1 DEF PInv, Covered
  <2>3. f = Call => on.bus = bus /\ ~Passed(q, on)
    BY <2>1, <2>2
  <2> QED
    BY <1>2, <2>2, <2>3
<1> QED
  BY <1>8, <1>9, <1>10, <1>11, <1>12 DEF PInv

LEMMA EnterBridgeStep ==
    ASSUME PInv, stack # <<>>, Call.call = "scan", Call.slot < NumSlots,
           Cursor \in Present, Cursor \notin plain, ~Full, NEW on,
           stack' = <<[call |-> "bridge", at |-> Cursor, bus |-> BridgeAt(Cursor).sec], on>>
                        \o Tail(stack),
           \/ /\ on = [Call EXCEPT !.slot = @ + 1, !.func = 0]
              /\ Call.func + 1 >= Functions(Call.bus, Call.slot)
           \/ on = [Call EXCEPT !.func = @ + 1] /\ Call.func + 1 < Functions(Call.bus, Call.slot),
           devices' = Append(devices, Cursor), Decode(Cursor),
           UNCHANGED <<hardware, scanned, offered>>
    PROVE  PInv'
<1> DEFINE g == [call |-> "bridge", at |-> Cursor, bus |-> BridgeAt(Cursor).sec]
<1>0. /\ Cursor \in Addresses
      /\ BridgeAt(Cursor) \in bridges /\ BridgeAt(Cursor).at = Cursor /\ BridgeAt(Cursor).sec \in Bus
  BY HardwareTypes DEF PInv, PciTypes, Bridge
<1> USE <1>0, Advance, ScanCall, CursorIsNew
<1>1. g \in Frame /\ \A h \in Frames : Of(g) # Of(h)
  <2>1. \A h \in Walks : h.at # Cursor
    BY DEF PInv, WalksTrue
  <2> QED
    BY <2>1, TopFrame DEF Frame, Of, Walks, PInv, PciTypes
<1>2. StackTrue' /\ Frames' = {g, on} \union Rest
  BY <1>1, PushFrames DEF PInv, PciTypes
<1>3. /\ Scans' = {on} \union {f \in Rest : f.call = "scan"} /\ Walks' = Walks \union {g}
      /\ Shown' = Shown
  BY <1>2 DEF Scans, Walks, Shown
<1>4. UNCHANGED <<bridges, plain, strange, multi>>
  BY DEF hardware
<1>5. /\ devices' \in Seq(Addresses) /\ Len(devices') = Len(devices) + 1
      /\ \A i, j \in DOMAIN devices' : i < j => devices'[i] # devices'[j]
      /\ Entered' = Entered \union {Cursor}
  BY EnteredGrows
<1>6. Cursor \notin Shown
  BY DEF PInv, Books
<1>7. Len(devices') <= MaxDevices
  BY <1>5, PciAssumption DEF Full, PInv, PciTypes
<1>8. PciTypes'
  BY <1>2, <1>3, <1>4, <1>5 DEF PInv, PciTypes, Decode
<1>9. ScansTrue'
  BY <1>3, HardwareStays DEF PInv, ScansTrue
<1>10. WalksTrue' /\ NoStray'
  <2>1. BridgeAt(Cursor).sec \in Int /\ BridgeAt(Cursor).sec .. BridgeAt(Cursor).sec - 1 = {}
    BY DEF Bus
  <2>2. WalksTrue'
    <3>1. ASSUME NEW f \in Walks PROVE f.at \in Entered' /\ f.at \notin Shown' /\ \E b \in bridges' :
                  /\ b.at = f.at
                  /\ b.sub < NumBuses - 1 => b.sec <= f.bus /\ b.sec .. f.bus - 1 \subseteq scanned'
      BY <1>3, <1>4, <1>5 DEF PInv, WalksTrue
    <3>2. g.at \in Entered' /\ g.at \notin Shown' /\ \E b \in bridges' :
                  /\ b.at = g.at
                  /\ b.sub < NumBuses - 1 => b.sec <= g.bus /\ b.sec .. g.bus - 1 \subseteq scanned'
      <4>1. g.at = Cursor /\ g.bus = BridgeAt(Cursor).sec
        OBVIOUS
      <4>2. BridgeAt(Cursor).sec <= g.bus /\ BridgeAt(Cursor).sec .. g.bus - 1 \subseteq scanned'
        BY <2>1, <4>1
      <4> QED
        BY <1>3, <1>4, <1>5, <1>6, <4>1, <4>2
    <3> QED
      BY <1>3, <3>1, <3>2 DEF WalksTrue
  <2>3. NoStray'
    BY <1>3, HardwareStays DEF PInv, NoStray, Endless
  <2> QED
    BY <2>2, <2>3
<1>11. Books'
  <2>1. ASSUME NEW q \in Entered', NEW f \in Scans', f.bus = q.bus PROVE Passed(q, f)
    <3>1. q \in Entered => q \in Addresses
      BY HardwareTypes DEF PInv, Books, Visible
    <3>2. q \in Entered /\ f \in Rest => Passed(q, f)
      BY <1>3, <2>1 DEF PInv, Books
    <3>3. q \in Entered /\ f = on => Passed(q, Call)
      BY <2>1 DEF PInv, Books
    <3>4. q = Cursor => f = on
      BY <1>3, <2>1
    <3> QED
      BY <1>3, <1>5, <3>1, <3>2, <3>3, <3>4
  <2>2. \A q \in Entered' : q \in Visible(q.bus) /\ q.bus \in scanned
    BY <1>5 DEF PInv, Books, ScansTrue
  <2>3. Shown' \subseteq Entered' /\ \A q \in Entered' : q \in Shown' \/ \E f \in Walks' : f.at = q
    BY <1>3, <1>5 DEF PInv, Books
  <2>4. TableSound'
    BY <1>5, <1>7 DEF TableSound, PInv, Books
  <2> QED
    BY <1>3, <1>4, <2>1, <2>2, <2>3, <2>4, HardwareStays DEF PInv, Books
<1>12. Covered'
  <2> SUFFICES ASSUME Len(devices') < MaxDevices, NEW bus \in scanned, NEW q \in Visible(bus),
                      q \notin Entered'
               PROVE  \E f \in Scans' : f.bus = bus /\ ~Passed(q, f)
    BY HardwareStays DEF Covered
  <2>1. Len(devices) < MaxDevices /\ q \notin Entered /\ q # Cursor
    BY <1>5, PciAssumption DEF PInv, PciTypes
  <2>2. PICK f \in Scans : f.bus = bus /\ ~Passed(q, f)
    BY <2>1 DEF PInv, Covered
  <2>3. f = Call => on.bus = bus /\ ~Passed(q, on)
    BY <2>1, <2>2
  <2> QED
    BY <1>3, <2>2, <2>3
<1> QED
  BY <1>8, <1>9, <1>10, <1>11, <1>12 DEF PInv

LEMMA RegisterStep ==
    ASSUME PInv, Register
    PROVE  PInv'
<1> DEFINE on == IF Call.func + 1 >= Functions(Call.bus, Call.slot)
                 THEN [Call EXCEPT !.slot = @ + 1, !.func = 0]
                 ELSE [Call EXCEPT !.func = @ + 1]
<1>1. /\ stack # <<>> /\ Call.call = "scan" /\ Call.slot < NumSlots /\ Cursor \in Present
      /\ UNCHANGED <<hardware, scanned>>
  BY DEF Register, Cursor
<1>2. \/ /\ on = [Call EXCEPT !.slot = @ + 1, !.func = 0]
         /\ Call.func + 1 >= Functions(Call.bus, Call.slot)
      \/ on = [Call EXCEPT !.func = @ + 1] /\ Call.func + 1 < Functions(Call.bus, Call.slot)
  BY <1>1, ScanCall
<1>3. CASE Full \/ Cursor \in decoded
  <2>1. Continue(on) /\ UNCHANGED <<devices, decoded, offered>>
    BY <1>3 DEF Register, Cursor
  <2>2. Len(devices) < MaxDevices => Cursor \in Entered
    BY <1>3, PciAssumption DEF Full, PInv, PciTypes
  <2> HIDE DEF on
  <2> QED
    BY <1>1, <1>2, <2>1, <2>2, PassStep
<1>4. CASE ~Full /\ Cursor \notin decoded
  <2>1. devices' = Append(devices, Cursor) /\ Decode(Cursor)
    BY <1>4 DEF Register, Cursor
  <2>2. CASE Cursor \in plain
    <3>1. Continue(on) /\ Offer(Cursor)
      BY <1>4, <2>2 DEF Register, Cursor
    <3> HIDE DEF on
    <3> QED
      BY <1>1, <1>2, <1>4, <2>1, <2>2, <3>1, EnterPlainStep
  <2>3. CASE Cursor \notin plain
    <3>1. /\ stack' = <<[call |-> "bridge", at |-> Cursor, bus |-> BridgeAt(Cursor).sec], on>>
                          \o Tail(stack)
          /\ UNCHANGED offered
      BY <1>4, <2>3 DEF Register, Cursor
    <3> HIDE DEF on
    <3> QED
      BY <1>1, <1>2, <1>4, <2>1, <2>3, <3>1, EnterBridgeStep
  <2> QED
    BY <2>2, <2>3
<1> QED
  BY <1>3, <1>4

-----------------------------------------------------------------------------
(* The loop over the buses behind a bridge. *)
LEMMA WalkCall ==
    ASSUME PInv, stack # <<>>, Call.call = "bridge"
    PROVE  /\ Call \in Frame /\ Call \in Walks /\ Call \notin Rest
           /\ Call.at \in Addresses /\ Call.bus \in Bus
           /\ Call = [call |-> "bridge", at |-> Call.at, bus |-> Call.bus]
           /\ Walks = {Call} \union {f \in Rest : f.call = "bridge"}
           /\ Scans = {f \in Rest : f.call = "scan"}
           /\ \A f \in Rest : f.call = "bridge" => f.at # Call.at
           /\ BridgeAt(Call.at) \in bridges /\ BridgeAt(Call.at).at = Call.at
           /\ BridgeAt(Call.at).sec \in Bus /\ BridgeAt(Call.at).sub \in Bus
           /\ BridgeAt(Call.at).sub < NumBuses - 1 =>
                 /\ BridgeAt(Call.at).sec <= Call.bus
                 /\ BridgeAt(Call.at).sec .. Call.bus - 1 \subseteq scanned
           /\ Call.at \in Entered /\ Call.at \notin Shown /\ NumBuses \in Nat \ {0}
<1>1. /\ Call \in Frame /\ Frames = {Call} \union Rest
      /\ \A f \in Rest : f \in Frame /\ Of(f) # Of(Call)
  BY TopFrame DEF PInv, PciTypes
<1>2. /\ Call.at \in Addresses /\ Call.bus \in Bus
      /\ Call = [call |-> "bridge", at |-> Call.at, bus |-> Call.bus]
  BY <1>1 DEF Frame
<1>3. /\ \A f \in Rest : f.call = "bridge" => f.at # Call.at
      /\ Call \notin Rest
  <2>1. \A f \in Rest : f.call = "bridge" => f.call # "scan"
    OBVIOUS
  <2> QED
    BY <1>1, <2>1 DEF Of
<1>4. /\ Walks = {Call} \union {f \in Rest : f.call = "bridge"}
      /\ Scans = {f \in Rest : f.call = "scan"} /\ Call \in Walks
  BY <1>1 DEF Scans, Walks
<1>5. PICK b \in bridges : /\ b.at = Call.at
                           /\ b.sub < NumBuses - 1 =>
                                 b.sec <= Call.bus /\ b.sec .. Call.bus - 1 \subseteq scanned
  BY <1>4 DEF PInv, WalksTrue
<1>6. BridgeAt(Call.at) = b
  BY <1>5, HardwareTypes DEF PInv
<1>7. b.sec \in Bus /\ b.sub \in Bus
  BY DEF PInv, PciTypes, Bridge
<1>8. Call.at \in Entered /\ Call.at \notin Shown
  BY <1>4 DEF PInv, WalksTrue
<1> QED
  BY <1>1, <1>2, <1>3, <1>4, <1>5, <1>6, <1>7, <1>8, PciAssumption

LEMMA SmallMod ==
    ASSUME NEW m \in Nat, NEW n \in Nat, m < n
    PROVE  m % n = m
  OBVIOUS

(* The walk goes on to the next bus. *)
LEMMA Onward ==
    ASSUME PInv, stack # <<>>, Call.call = "bridge", Call.bus <= BridgeAt(Call.at).sub, NEW on,
           on = [Call EXCEPT !.bus = (@ + 1) % NumBuses]
    PROVE  /\ on \in Frame /\ on.call = "bridge" /\ on.at = Call.at /\ Of(on) = Of(Call)
           /\ BridgeAt(Call.at).sub < NumBuses - 1 =>
                 /\ BridgeAt(Call.at).sec <= on.bus
                 /\ BridgeAt(Call.at).sec .. on.bus - 1 \subseteq scanned \union {Call.bus}
<1> DEFINE b == BridgeAt(Call.at)
<1> USE WalkCall
<1>1. Call.bus \in 0 .. NumBuses - 1 /\ b.sec \in 0 .. NumBuses - 1 /\ b.sub \in 0 .. NumBuses - 1
  BY DEF Bus
<1>2. on = [call |-> "bridge", at |-> Call.at, bus |-> (Call.bus + 1) % NumBuses]
  OBVIOUS
<1>3. (Call.bus + 1) % NumBuses \in 0 .. NumBuses - 1
  BY <1>1
<1>4. on \in Frame /\ Of(on) = Of(Call)
  BY <1>2, <1>3 DEF Frame, Bus, Of
<1>5. ASSUME b.sub < NumBuses - 1
      PROVE  b.sec <= on.bus /\ b.sec .. on.bus - 1 \subseteq scanned \union {Call.bus}
  <2>1. (Call.bus + 1) % NumBuses = Call.bus + 1
    <3>1. Call.bus + 1 \in Nat /\ NumBuses \in Nat /\ Call.bus + 1 < NumBuses
      BY <1>1, <1>5
    <3> QED
      BY <3>1, SmallMod
  <2>2. on.bus = Call.bus + 1 /\ b.sec <= Call.bus /\ b.sec .. Call.bus - 1 \subseteq scanned
    BY <1>2, <1>5, <2>1
  <2>3. b.sec .. on.bus - 1 \subseteq (b.sec .. Call.bus - 1) \union {Call.bus}
    BY <1>1, <2>2
  <2> QED
    BY <1>1, <2>2, <2>3
<1> QED
  BY <1>2, <1>4, <1>5

LEMMA WalkScannedStep ==
    ASSUME PInv, WalkBridge, Call.bus \in scanned
    PROVE  PInv'
<1> DEFINE on == [Call EXCEPT !.bus = (@ + 1) % NumBuses]
<1>1. /\ stack # <<>> /\ Call.call = "bridge" /\ Call.bus <= BridgeAt(Call.at).sub
      /\ Continue(on) /\ UNCHANGED <<hardware, scanned, devices, decoded, offered>>
  BY DEF WalkBridge, Enter
<1>2. PICK o : o = on
  OBVIOUS
<1> HIDE DEF on
<1> USE <1>1, <1>2, WalkCall
<1>3. /\ o \in Frame /\ o.call = "bridge" /\ o.at = Call.at /\ Of(o) = Of(Call)
      /\ BridgeAt(Call.at).sub < NumBuses - 1 =>
             /\ BridgeAt(Call.at).sec <= o.bus
             /\ BridgeAt(Call.at).sec .. o.bus - 1 \subseteq scanned
  BY Onward DEF on
<1>4. StackTrue' /\ Frames' = {o} \union Rest
  BY <1>3, ContinueFrames DEF PInv, PciTypes
<1>5. /\ Walks' = {o} \union {f \in Rest : f.call = "bridge"} /\ Scans' = Scans
      /\ Entered' = Entered /\ Shown' = Shown
  BY <1>3, <1>4 DEF Scans, Walks, Entered, Shown
<1>6. UNCHANGED <<bridges, plain, strange, multi>>
  BY DEF hardware
<1>7. PciTypes'
  BY <1>4, <1>5, <1>6 DEF PInv, PciTypes
<1>8. ScansTrue' /\ Covered'
  BY <1>5, HardwareStays DEF PInv, ScansTrue, Covered
<1>9. WalksTrue'
  BY <1>3, <1>5, <1>6 DEF PInv, WalksTrue
<1>10. Books' /\ NoStray'
  BY <1>3, <1>5, <1>6, HardwareStays DEF PInv, Books, TableSound, NoStray, Endless
<1> QED
  BY <1>7, <1>8, <1>9, <1>10 DEF PInv

LEMMA WalkNewStep ==
    ASSUME PInv, WalkBridge, Call.bus \notin scanned
    PROVE  PInv'
<1> DEFINE on == [Call EXCEPT !.bus = (@ + 1) % NumBuses]
           g == Scan(Call.bus)
<1>1. /\ stack # <<>> /\ Call.call = "bridge" /\ Call.bus <= BridgeAt(Call.at).sub
      /\ stack' = <<g, on>> \o Tail(stack) /\ scanned' = scanned \union {Call.bus}
      /\ UNCHANGED <<hardware, devices, decoded, offered>>
  BY DEF WalkBridge, Enter
<1>2. PICK o : o = on
  OBVIOUS
<1> HIDE DEF on
<1> USE <1>1, <1>2, WalkCall
<1>3. /\ o \in Frame /\ o.call = "bridge" /\ o.at = Call.at /\ Of(o) = Of(Call)
      /\ BridgeAt(Call.at).sub < NumBuses - 1 =>
             /\ BridgeAt(Call.at).sec <= o.bus
             /\ BridgeAt(Call.at).sec .. o.bus - 1 \subseteq scanned'
  BY Onward DEF on
<1>4. /\ g = [call |-> "scan", bus |-> Call.bus, slot |-> 0, func |-> 0] /\ g \in Frame
  BY PciAssumption DEF Scan, Frame
<1>5. \A h \in Frames : Of(g) # Of(h)
  <2>1. \A h \in Scans : h.bus # Call.bus
    BY DEF PInv, ScansTrue
  <2>2. Of(g) = <<"scan", Call.bus>>
    BY <1>4 DEF Of
  <2>3. ASSUME NEW h \in Frames PROVE Of(g) # Of(h)
    <3>1. CASE h.call = "scan"
      <4>1. h.bus # Call.bus /\ Of(h) = <<"scan", h.bus>>
        BY <2>1, <3>1 DEF Scans, Of
      <4> QED
        BY <2>2, <4>1
    <3>2. CASE h.call # "scan"
      <4>1. Of(h) = <<"bridge", h.at>>
        BY <3>2 DEF Of
      <4> QED
        BY <2>2, <4>1
    <3> QED
      BY <3>1, <3>2
  <2> QED
    BY <2>3
<1>6. StackTrue' /\ Frames' = {g, o} \union Rest
  BY <1>3, <1>4, <1>5, PushFrames DEF PInv, PciTypes
<1>7. /\ Walks' = {o} \union {f \in Rest : f.call = "bridge"} /\ Scans' = Scans \union {g}
      /\ Entered' = Entered /\ Shown' = Shown
  BY <1>3, <1>4, <1>6 DEF Scans, Walks, Entered, Shown
<1>8. UNCHANGED <<bridges, plain, strange, multi>>
  BY DEF hardware
<1>9. PciTypes'
  BY <1>6, <1>7, <1>8 DEF PInv, PciTypes
<1>10. ScansTrue'
  BY <1>4, <1>7, HardwareStays, HardwareTypes DEF PInv, ScansTrue
<1>11. WalksTrue'
  BY <1>3, <1>7, <1>8 DEF PInv, WalksTrue
<1>12. Books'
  <2>1. \A q \in Entered : q.bus # g.bus
    BY <1>4 DEF PInv, Books
  <2> QED
    BY <1>3, <1>7, <1>8, <2>1, HardwareStays DEF PInv, Books, TableSound
<1>13. Covered'
  <2> SUFFICES ASSUME Len(devices) < MaxDevices, NEW bus \in scanned', NEW q \in Visible(bus),
                      q \notin Entered
               PROVE  \E f \in Scans' : f.bus = bus /\ ~Passed(q, f)
    BY <1>7, HardwareStays DEF Covered
  <2>1. CASE bus \in scanned
    BY <1>7, <2>1 DEF PInv, Covered
  <2>2. CASE bus = Call.bus
    <3>1. q.slot \in Nat /\ q.func \in Nat
      BY HardwareTypes, PciAssumption DEF PInv, Visible, Addresses
    <3>2. ~Passed(q, g)
      BY <1>4, <3>1 DEF Passed
    <3> QED
      BY <1>4, <1>7, <2>2, <3>2
  <2> QED
    BY <2>1, <2>2
<1>14. NoStray'
  <2>1. CASE Endless
    BY <1>3, <1>7, <2>1, HardwareStays DEF Endless, NoStray
  <2>2. CASE BridgeAt(Call.at).sub = NumBuses - 1
    <3>1. BridgeAt(o.at)'.sub = NumBuses - 1 /\ o \in Walks'
      BY <1>3, <1>7, <2>2, HardwareStays
    <3> QED
      BY <3>1 DEF NoStray, Endless
  <2>3. CASE ~Endless /\ BridgeAt(Call.at).sub # NumBuses - 1
    <3>1. scanned \subseteq Reachable /\ Closed(Reachable)
      BY <2>3, ReachableClosed DEF PInv, NoStray
    <3>2. Call.at \in Visible(Call.at.bus) /\ Call.at.bus \in scanned
      BY DEF PInv, Books
    <3>3. BridgeAt(Call.at).sec .. BridgeAt(Call.at).sub \subseteq Reachable
      BY <3>1, <3>2 DEF Closed
    <3>4. Call.bus \in BridgeAt(Call.at).sec .. BridgeAt(Call.at).sub
      <4>1. BridgeAt(Call.at).sub < NumBuses - 1
        BY <2>3 DEF Bus
      <4>2. BridgeAt(Call.at).sec <= Call.bus /\ Call.bus <= BridgeAt(Call.at).sub
        BY <4>1
      <4> QED
        BY <4>2 DEF Bus
    <3> QED
      BY <3>1, <3>3, <3>4, HardwareStays DEF NoStray
  <2> QED
    BY <2>1, <2>2, <2>3
<1> QED
  BY <1>9, <1>10, <1>11, <1>12, <1>13, <1>14 DEF PInv

LEMMA BridgeDoneStep ==
    ASSUME PInv, BridgeDone
    PROVE  PInv'
<1> DEFINE p == Call.at
<1>1. /\ stack # <<>> /\ Call.call = "bridge" /\ Call.bus > BridgeAt(p).sub
      /\ Return /\ Offer(p) /\ UNCHANGED <<hardware, scanned, devices, decoded>>
  BY DEF BridgeDone
<1> USE <1>1, WalkCall
<1>2. StackTrue' /\ Frames' = Rest
  BY ReturnFrames DEF PInv, PciTypes
<1>3. /\ offered' \in Seq(Addresses)
      /\ \A i, j \in DOMAIN offered' : i < j => offered'[i] # offered'[j]
      /\ Shown' = Shown \union {p}
  BY ShownGrows
<1>4. /\ Walks' = {f \in Rest : f.call = "bridge"} /\ Scans' = Scans /\ Entered' = Entered
  BY <1>2 DEF Scans, Walks, Entered
<1>5. UNCHANGED <<bridges, plain, strange, multi>>
  BY DEF hardware
<1>6. BridgeAt(p).sub < NumBuses - 1 /\ BridgeAt(p).sec .. BridgeAt(p).sub \subseteq scanned
  <2>1. /\ Call.bus \in 0 .. NumBuses - 1 /\ BridgeAt(p).sub \in 0 .. NumBuses - 1
        /\ BridgeAt(p).sec \in 0 .. NumBuses - 1
    BY DEF Bus
  <2>2. BridgeAt(p).sub < NumBuses - 1
    BY <2>1
  <2>3. BridgeAt(p).sec .. BridgeAt(p).sub \subseteq BridgeAt(p).sec .. Call.bus - 1
    BY <2>1
  <2> QED
    BY <2>2, <2>3
<1>7. PciTypes'
  BY <1>2, <1>3, <1>4, <1>5 DEF PInv, PciTypes
<1>8. ScansTrue' /\ Covered'
  BY <1>4, HardwareStays DEF PInv, ScansTrue, Covered
<1>9. WalksTrue'
  BY <1>3, <1>4, <1>5 DEF PInv, WalksTrue
<1>10. NoStray'
  <2>1. Endless => Endless'
    BY <1>4, <1>6, HardwareStays DEF Endless
  <2> QED
    BY <2>1, HardwareStays DEF PInv, NoStray
<1>11. Books'
  <2>1. TableSound'
    BY <1>3 DEF PInv, Books, TableSound
  <2>2. \A b \in bridges : b.at = p => b = BridgeAt(p)
    BY HardwareTypes DEF PInv
  <2>3. \A b \in bridges : b.at \in Shown' => b.sec .. b.sub \subseteq scanned
    BY <1>3, <1>6, <2>2 DEF PInv, Books
  <2>4. \A q \in Entered : q \in Shown' \/ \E f \in Walks' : f.at = q
    BY <1>3, <1>4 DEF PInv, Books
  <2> QED
    BY <1>3, <1>4, <1>5, <2>1, <2>3, <2>4, HardwareStays DEF PInv, Books
<1> QED
  BY <1>7, <1>8, <1>9, <1>10, <1>11 DEF PInv

LEMMA NextPInv == PInv /\ [PciNext]_pciVars => PInv'
<1> SUFFICES ASSUME PInv, [PciNext]_pciVars PROVE PInv'
  OBVIOUS
<1>1. CASE PciNext
  BY <1>1, NextFunctionStep, ScanReturnsStep, RegisterStep, WalkScannedStep, WalkNewStep,
     BridgeDoneStep DEF PciNext
<1>2. CASE UNCHANGED pciVars
  <2>1. UNCHANGED <<bridges, plain, strange, multi, stack, scanned, devices, decoded, offered>>
    BY <1>2 DEF pciVars, hardware
  <2>2. /\ Frames' = Frames /\ Scans' = Scans /\ Walks' = Walks /\ Entered' = Entered
        /\ Shown' = Shown /\ UNCHANGED hardware
    BY <2>1 DEF Frames, Scans, Walks, Entered, Shown, hardware
  <2>3. PciTypes' /\ ScansTrue' /\ WalksTrue'
    BY <2>1, <2>2, HardwareStays DEF PInv, PciTypes, StackTrue, ScansTrue, WalksTrue
  <2>4. Books' /\ Covered' /\ NoStray'
    BY <2>1, <2>2, HardwareStays DEF PInv, Books, TableSound, Covered, NoStray, Endless
  <2> QED
    BY <2>3, <2>4 DEF PInv
<1> QED
  BY <1>1, <1>2

THEOREM PciInvariance == PciSpec => []PInv
  BY InitPInv, NextPInv, PTL DEF PciSpec

(* pci_register_device, pci_scan_bus: nothing is entered or offered twice  *)
(* and the table is not overrun, for any hardware.                         *)
THEOREM NothingTwice == PciSpec => []TableSound
<1>1. PInv => TableSound
  BY DEF PInv, Books
<1> QED
  BY <1>1, PciInvariance, PTL

(* pci_scan_bus, pci_register_device: when the scan of any number of       *)
(* bridges and buses ends with room in the table, it has entered and       *)
(* offered exactly the functions that can be reached.                      *)
THEOREM AllFound == PciSpec => []Complete
<1>1. PInv => Complete
  <2> SUFFICES ASSUME PInv, stack = <<>>, Len(devices) < MaxDevices
               PROVE  Entered = UNION {Visible(bus) : bus \in Reachable} /\ Shown = Entered
    BY DEF Complete, Done, Entered, Shown
  <2>1. Scans = {} /\ Walks = {}
    BY DEF Scans, Walks, Frames
  <2>2. Shown = Entered
    BY <2>1 DEF PInv, Books
  <2>3. /\ \A bus \in scanned : Visible(bus) \subseteq Entered
        /\ \A p \in Entered : p \in Visible(p.bus) /\ p.bus \in scanned
    BY <2>1 DEF PInv, Covered, Books
  <2>4. Closed(scanned)
    BY <2>2, <2>3 DEF PInv, PciTypes, Books, Closed
  <2>5. Reachable \subseteq scanned
    BY <2>4 DEF PInv, PciTypes, Reachable
  <2>6. scanned \subseteq Reachable
    BY <2>1 DEF PInv, NoStray, Endless
  <2> QED
    BY <2>2, <2>3, <2>5, <2>6
<1> QED
  BY <1>1, PciInvariance, PTL
=============================================================================
