------------------------------ MODULE AtaProofs -------------------------------
(***************************************************************************)
(* Proofs about Ata, for any drives, sizes and sequences of calls.         *)
(*                                                                         *)
(* The inductive invariant follows a drive for which no wait has timed     *)
(* out.  Outside its own call it rests.  During the call, a request for an *)
(* interrupt is a sign that it has finished, and the handler tells of it   *)
(* only when it has withdrawn it; so the driver that is woken finds the    *)
(* drive with the answer to its own command.  Other drives, which may have *)
(* timed out and answer when they like, cannot disturb this, because a     *)
(* latched interrupt is always one of the selected drive.                  *)
(***************************************************************************)
EXTENDS Ata, TLAPS

Moving == {"expect", "clear", "wait", "check", "transfer"}
Flushing == {"flush", "flushExpect", "flushClear", "flushWait"}
Resting == {"idle", "select", "command", "next", "failed"}

States == {"idle", "busy", "drq", "error"}
Ops == {"read", "write", "store", "flush", None}
DriveType == [st : States, op : Ops, lba : Nat]

TypeOK ==
    /\ pc \in Moving \union Flushing \union Resting
    /\ call \in [op : {"read", "write"}, dev : Drives, lba : Nat, count : Nat \ {0}]
    /\ i \in Nat /\ i < call.count /\ result \in {"ok", "error"}
    /\ expected \in [Drives -> BOOLEAN] /\ fired \in [Drives -> BOOLEAN]
    /\ selected \in Drives
    /\ drive \in [Drives -> DriveType]
    /\ intrq \in [Drives -> BOOLEAN] /\ latched \in BOOLEAN
    /\ late \subseteq Drives

(* The drive does nothing, asks for nothing, and nothing is expected of it. *)
Rest(d) ==
    drive[d].st \in {"idle", "error"} /\ ~intrq[d] /\ ~expected[d] /\ ~fired[d]

Rested == \A d \in Drives \ late : d # dev \/ pc \in Resting => Rest(d)

(* An interrupt that is latched is one of the selected drive, and a call   *)
(* has selected its own.                                                   *)
LineHeld ==
    /\ latched => intrq[selected]
    /\ pc \in Moving \union Flushing \union {"command"} => selected = dev

(* The drive of the call works at the command it was given last.           *)
Working ==
    dev \notin late =>
        /\ pc \in Moving => /\ drive[dev].op = call.op
                            /\ drive[dev].lba = Address(call.lba + i)
                            /\ drive[dev].st \in {"busy", "drq", "error"}
                            /\ drive[dev].st = "drq" => drive[dev].lba < NumLba
        /\ pc \in Flushing => /\ drive[dev].op \in {"store", "flush"}
                              /\ drive[dev].st \in {"busy", "idle", "error"}
        /\ pc \notin Resting => (intrq[dev] => drive[dev].st # "busy")
        /\ pc \in {"expect", "check", "transfer", "flush", "flushExpect"} =>
              ~expected[dev] /\ ~fired[dev]
        /\ pc \in {"clear", "wait", "flushClear", "flushWait"} =>
              (fired[dev] => drive[dev].st # "busy" /\ ~intrq[dev])
        /\ pc = "check" => drive[dev].st # "busy"
        /\ pc = "transfer" => drive[dev].st = "drq" /\ ~intrq[dev]

(* What the drive has moved for the first n sectors of a call; and whether *)
(* it has them.                                                            *)
Sectors(d, lba, n) == [k \in 1 .. n |-> <<d, Address(lba + k - 1)>>]
There(lba, n) == \A k \in 1 .. n : Address(lba + k - 1) < NumLba

MovedFirst(n) == moved = Sectors(dev, call.lba, n) /\ There(call.lba, n)

Moved ==
    dev \notin late =>
        /\ pc \in Moving \union {"select", "command"} => MovedFirst(i)
        /\ pc \in Flushing \union {"next"} => MovedFirst(i + 1)
        /\ pc = "idle" /\ moved # <<>> /\ result = "ok" => MovedFirst(call.count)

IInv == TypeOK /\ Rested /\ LineHeld /\ Working /\ Moved

-----------------------------------------------------------------------------
(* The address registers hold a number, the sector's own if it fits.       *)
LEMMA AddressFits ==
    ASSUME NEW lba \in Nat
    PROVE  Address(lba) \in Nat /\ (lba < Addressable => Address(lba) = lba)
BY AtaAssumption, SMT DEF Address

(* No sectors at first, then one more each time.                           *)
LEMMA SectorsEmpty == \A d, lba : Sectors(d, lba, 0) = <<>> /\ There(lba, 0)
  BY DEF Sectors, There

LEMMA SectorsNext ==
    ASSUME NEW d \in Drives, NEW lba \in Nat, NEW n \in Nat
    PROVE  /\ Append(Sectors(d, lba, n), <<d, Address(lba + n)>>) = Sectors(d, lba, n + 1)
           /\ There(lba, n) /\ Address(lba + n) < NumLba => There(lba, n + 1)
<1> DEFINE T == Drives \X Nat
           s == Sectors(d, lba, n)
           t == Sectors(d, lba, n + 1)
           x == <<d, Address(lba + n)>>
<1>1. \A k \in 1 .. n + 1 : lba + k - 1 \in Nat
  OBVIOUS
<1>2. \A k \in 1 .. n + 1 : <<d, Address(lba + k - 1)>> \in T
  BY <1>1, AddressFits
<1>3. t[n + 1] = x
  <2>1. n + 1 \in 1 .. n + 1 /\ lba + (n + 1) - 1 = lba + n
    OBVIOUS
  <2> QED BY <2>1 DEF Sectors
<1>4. s \in Seq(T) /\ Len(s) = n /\ t \in Seq(T) /\ Len(t) = n + 1 /\ x \in T
  BY <1>2, AddressFits DEF Sectors
<1>5. \A k \in 1 .. n : s[k] = t[k]
  BY DEF Sectors
<1>6. There(lba, n) /\ Address(lba + n) < NumLba => There(lba, n + 1)
  <2> SUFFICES ASSUME There(lba, n), Address(lba + n) < NumLba, NEW k \in 1 .. n + 1
               PROVE  Address(lba + k - 1) < NumLba
    BY DEF There
  <2>1. CASE k \in 1 .. n
    BY <2>1 DEF There
  <2>2. CASE k = n + 1
    <3>1. lba + k - 1 = lba + n
      BY <2>2
    <3> QED BY <3>1
  <2> QED BY <2>1, <2>2
<1> HIDE DEF s, t, x, T
<1>7. Append(s, x) \in Seq(T) /\ Len(Append(s, x)) = Len(t)
  BY <1>4
<1>8. \A k \in 1 .. Len(t) : Append(s, x)[k] = t[k]
  BY <1>3, <1>4, <1>5
<1>9. Append(s, x) = t
  BY <1>4, <1>7, <1>8
<1> QED
  BY <1>6, <1>9 DEF s, t, x

(* Init satisfies the invariant.                                           *)
LEMMA InitIInv == Init => IInv
<1> SUFFICES ASSUME Init PROVE IInv
  OBVIOUS
<1>1. TypeOK
  <2>1. call \in [op : {"read", "write"}, dev : Drives, lba : Nat, count : Nat \ {0}]
    BY DEF Init
  <2>2. Idle \in DriveType
    BY DEF DriveType, Idle, States, Ops
  <2>3. drive \in [Drives -> DriveType]
    BY <2>2 DEF Init
  <2>4. i < call.count
    BY DEF Init
  <2> QED
    BY <2>1, <2>3, <2>4 DEF Init, TypeOK, Resting
<1>2. Rested
  BY DEF Init, Rested, Rest, Idle
<1>3. LineHeld /\ Working /\ Moved
  BY DEF Init, LineHeld, Working, Moved, Moving, Flushing, Resting
<1> QED
  BY <1>1, <1>2, <1>3 DEF IInv

-----------------------------------------------------------------------------
(* One lemma per action: the invariant stays.                              *)
LEMMA BeginKeeps ==
    ASSUME IInv, NEW c \in Calls, Begin(c)
    PROVE  IInv'
<1> USE DEF IInv, Begin, driverVars, irqVars, deviceVars, dev
<1>1. TypeOK'
  <2>1. c \in [op : {"read", "write"}, dev : Drives, lba : Nat, count : 1 .. MaxSectors]
    BY AtaAssumption DEF Calls
  <2> QED BY <2>1 DEF TypeOK, Resting
<1>2. Rested'
  BY DEF Rested, Rest, Resting
<1>3. LineHeld'
  BY DEF LineHeld, Moving, Flushing
<1>4. Working'
  BY DEF Working, Moving, Flushing, Resting
<1>5. Moved'
  BY SectorsEmpty DEF Moved, MovedFirst, Flushing
<1> QED
  BY <1>1, <1>2, <1>3, <1>4, <1>5

LEMMA RefuseKeeps ==
    ASSUME IInv, Refuse
    PROVE  IInv'
<1> USE DEF IInv, Refuse, driverVars, irqVars, deviceVars, dev
<1>1. TypeOK'
  BY DEF TypeOK, Resting
<1>2. Rested'
  BY DEF Rested, Rest, Resting
<1>3. LineHeld'
  BY DEF LineHeld, Moving, Flushing
<1>4. Working'
  BY DEF Working, Moving, Flushing, Resting
<1>5. Moved'
  BY DEF Moved, MovedFirst, Flushing
<1> QED
  BY <1>1, <1>2, <1>3, <1>4, <1>5

LEMMA SelectKeeps ==
    ASSUME IInv, Select
    PROVE  IInv'
<1> USE DEF IInv, Select, driverVars, irqVars, deviceVars, dev
<1>1. TypeOK'
  BY DEF TypeOK, Resting, Latch, Line
<1>2. Rested'
  BY DEF Rested, Rest, Resting
<1>3. LineHeld'
  BY DEF LineHeld, Latch, Line
<1>4. Working'
  BY DEF TypeOK, Working, Moving, Flushing
<1>5. Moved'
  BY DEF Moved, MovedFirst, Flushing
<1> QED
  BY <1>1, <1>2, <1>3, <1>4, <1>5

LEMMA CommandKeeps ==
    ASSUME IInv, Command
    PROVE  IInv'
<1> USE DEF IInv, Command, driverVars, irqVars, deviceVars, dev
<1>1. TypeOK'
  <2>1. drive' \in [Drives -> DriveType]
    <3> DEFINE r == [st |-> "busy", op |-> call.op, lba |-> Address(call.lba + i)]
    <3>1. r \in DriveType
      BY AddressFits DEF TypeOK, DriveType, States, Ops
    <3>2. drive' = drive \/ drive' = [drive EXCEPT ![selected] = r]
      BY DEF Accept
    <3> QED
      BY <3>1, <3>2 DEF TypeOK
  <2>2. intrq' \in [Drives -> BOOLEAN] /\ latched' \in BOOLEAN
    BY DEF TypeOK, Accept, Latch, Line
  <2> QED
    BY <2>1, <2>2 DEF TypeOK, Moving
<1>2. Rested'
  BY DEF TypeOK, Rested, Rest, LineHeld, Resting, Accept
<1>3. LineHeld'
  BY DEF LineHeld, Latch, Line
<1>4. Working'
  BY DEF TypeOK, Rested, Rest, LineHeld, Working, Flushing, Resting, Accept
<1>5. Moved'
  BY DEF Moved, MovedFirst, Flushing
<1> QED
  BY <1>1, <1>2, <1>3, <1>4, <1>5

LEMMA ExpectKeeps ==
    ASSUME IInv, Expect
    PROVE  IInv'
<1> USE DEF IInv, Expect, driverVars, irqVars, deviceVars, dev
<1>1. TypeOK'
  BY DEF TypeOK, Moving, Flushing
<1>2. Rested'
  BY DEF Rested, Rest, Resting
<1>3. LineHeld'
  BY DEF TypeOK, LineHeld, Resting
<1>4. Working'
  BY DEF Working, Moving, Flushing, Resting
<1>5. Moved'
  BY DEF Moved, MovedFirst, Moving, Flushing
<1> QED
  BY <1>1, <1>2, <1>3, <1>4, <1>5

LEMMA ClearKeeps ==
    ASSUME IInv, Clear
    PROVE  IInv'
<1> USE DEF IInv, Clear, driverVars, irqVars, deviceVars, dev
<1>1. TypeOK'
  BY DEF TypeOK, Moving, Flushing
<1>2. Rested'
  BY DEF Rested, Rest, Resting
<1>3. LineHeld'
  BY DEF TypeOK, LineHeld, Resting
<1>4. Working'
  BY DEF Working, Moving, Flushing, Resting
<1>5. Moved'
  BY DEF Moved, MovedFirst, Moving, Flushing
<1> QED
  BY <1>1, <1>2, <1>3, <1>4, <1>5

LEMMA WokenKeeps ==
    ASSUME IInv, Woken
    PROVE  IInv'
<1> USE DEF IInv, Woken, driverVars, irqVars, deviceVars, dev
<1>1. TypeOK'
  BY DEF TypeOK, Moving, Resting
<1>2. Rested'
  BY DEF TypeOK, Rested, Rest, Working, Flushing, Resting
<1>3. LineHeld'
  BY DEF TypeOK, LineHeld, Resting
<1>4. Working'
  BY DEF TypeOK, Working, Moving, Flushing
<1>5. Moved'
  BY DEF Moved, MovedFirst, Moving, Flushing
<1> QED
  BY <1>1, <1>2, <1>3, <1>4, <1>5

LEMMA TimeoutKeeps ==
    ASSUME IInv, Timeout
    PROVE  IInv'
<1> USE DEF IInv, Timeout, driverVars, irqVars, deviceVars, dev
<1>1. TypeOK'
  BY DEF TypeOK, Resting
<1>2. Rested'
  BY DEF Rested, Rest
<1>3. LineHeld'
  BY DEF TypeOK, LineHeld, Resting
<1>4. Working'
  BY DEF Working
<1>5. Moved'
  BY DEF Moved, MovedFirst
<1> QED
  BY <1>1, <1>2, <1>3, <1>4, <1>5

LEMMA CheckKeeps ==
    ASSUME IInv, Check
    PROVE  IInv'
<1> USE DEF IInv, Check, driverVars, irqVars, deviceVars, dev
<1>1. TypeOK'
  BY DEF TypeOK, Moving, Resting, ReadStatus, Latch, Line
<1>2. Rested'
  BY DEF TypeOK, Rested, Rest, Working, LineHeld, Resting, ReadStatus
<1>3. LineHeld'
  BY DEF TypeOK, LineHeld, Resting, Latch, Line
<1>4. Working'
  BY DEF TypeOK, LineHeld, Working, Flushing, Resting, ReadStatus
<1>5. Moved'
  BY DEF TypeOK, Moved, MovedFirst, Flushing, Resting
<1> QED
  BY <1>1, <1>2, <1>3, <1>4, <1>5

LEMMA TransferKeeps ==
    ASSUME IInv, Transfer
    PROVE  IInv'
<1> USE DEF IInv, Transfer, driverVars, irqVars, deviceVars, dev
<1>1. TypeOK'
  <2>1. drive' \in [Drives -> DriveType]
    <3>1. Idle \in DriveType
      BY DEF Idle, DriveType, States, Ops
    <3>2. [drive[selected] EXCEPT !.st = "busy", !.op = "store"] \in DriveType
      <4>1. drive[selected] \in DriveType
        BY DEF TypeOK
      <4>2. \A r \in DriveType : [r EXCEPT !.st = "busy", !.op = "store"] \in DriveType
        BY DEF DriveType, States, Ops
      <4> QED
        BY <4>1, <4>2
    <3>3. \/ drive' = drive
          \/ drive' = [drive EXCEPT ![selected] = Idle]
          \/ drive' = [drive EXCEPT ![selected] =
                          [drive[selected] EXCEPT !.st = "busy", !.op = "store"]]
      OBVIOUS
    <3> QED
      BY <3>1, <3>2, <3>3 DEF TypeOK
  <2> QED
    BY <2>1 DEF TypeOK, Flushing, Resting
<1>2. Rested'
  BY DEF TypeOK, Rested, Rest, Working, LineHeld, Resting, Idle
<1>3. LineHeld'
  BY DEF TypeOK, LineHeld, Resting
<1>4. Working'
  <2>1. selected = dev /\ pc' \in {"flush", "next"}
    BY DEF LineHeld, Moving
  <2>2. CASE dev \in late
    BY <2>2 DEF Working
  <2>3. CASE dev \notin late
    <3>1. drive[dev].st = "drq" /\ drive[dev].op = call.op /\ ~expected[dev] /\ ~fired[dev]
      BY <2>3 DEF Working, Moving
    <3>2. CASE call.op = "write"
      <4>1. drive'[dev].st = "busy" /\ drive'[dev].op = "store" /\ ~intrq[dev] /\ pc' = "flush"
        <5>1. pc' = "flush" /\ ~intrq[dev]
          BY <2>3, <3>2 DEF Working
        <5>2. drive[dev] \in DriveType /\ drive \in [Drives -> DriveType] /\ dev \in Drives
          BY <2>1 DEF TypeOK
        <5>3. drive' = [drive EXCEPT ![dev] = [@ EXCEPT !.st = "busy", !.op = "store"]]
          BY <2>1, <3>1, <3>2
        <5>4. drive'[dev] = [drive[dev] EXCEPT !.st = "busy", !.op = "store"]
          BY <5>2, <5>3
        <5>5. \A r \in DriveType : LET q == [r EXCEPT !.st = "busy", !.op = "store"]
                                   IN  q.st = "busy" /\ q.op = "store"
          BY DEF DriveType
        <5> QED
          BY <5>1, <5>2, <5>4, <5>5
      <4> QED
        BY <3>1, <4>1 DEF Working, Moving, Flushing, Resting
    <3>3. CASE call.op # "write"
      <4>1. pc' = "next"
        BY <3>3
      <4> QED
        BY <4>1 DEF Working, Moving, Flushing, Resting
    <3> QED
      BY <3>2, <3>3
  <2> QED
    BY <2>2, <2>3
<1>5. Moved'
  <2>1. selected = dev /\ pc' \in {"flush", "next"}
    BY DEF LineHeld, Moving
  <2>2. CASE dev \in late
    BY <2>2 DEF Moved
  <2>3. CASE dev \notin late
    <3>1. /\ drive[dev].st = "drq" /\ drive[dev].op = call.op
          /\ drive[dev].lba = Address(call.lba + i) /\ drive[dev].lba < NumLba
      BY <2>3 DEF Working, Moving
    <3>2. MovedFirst(i)
      BY <2>3 DEF Moved, Moving
    <3>3. moved' = Append(moved, <<dev, Address(call.lba + i)>>)
      BY <2>1, <3>1
    <3>4. /\ Append(Sectors(dev, call.lba, i), <<dev, Address(call.lba + i)>>)
                = Sectors(dev, call.lba, i + 1)
          /\ There(call.lba, i + 1)
      BY <3>1, <3>2, SectorsNext DEF TypeOK, MovedFirst
    <3>5. moved' = Sectors(dev, call.lba, i + 1)
      BY <3>2, <3>3, <3>4 DEF MovedFirst
    <3>6. MovedFirst(i + 1)'
      BY <3>4, <3>5 DEF MovedFirst, Sectors, There
    <3> QED
      BY <2>1, <3>6 DEF Moved, Moving, Flushing
  <2> QED
    BY <2>2, <2>3
<1> QED
  BY <1>1, <1>2, <1>3, <1>4, <1>5

LEMMA FlushKeeps ==
    ASSUME IInv, Flush
    PROVE  IInv'
<1> USE DEF IInv, Flush, driverVars, irqVars, deviceVars, dev
<1>1. TypeOK'
  <2>1. drive' \in [Drives -> DriveType]
    <3> DEFINE r == [st |-> "busy", op |-> "flush", lba |-> 0]
    <3>1. r \in DriveType
      BY DEF DriveType, States, Ops
    <3>2. drive' = drive \/ drive' = [drive EXCEPT ![selected] = r]
      BY DEF Accept
    <3> QED
      BY <3>1, <3>2 DEF TypeOK
  <2>2. intrq' \in [Drives -> BOOLEAN] /\ latched' \in BOOLEAN
    BY DEF TypeOK, Accept, Latch, Line
  <2> QED
    BY <2>1, <2>2 DEF TypeOK, Flushing
<1>2. Rested'
  BY DEF TypeOK, Rested, Rest, LineHeld, Resting, Accept
<1>3. LineHeld'
  BY DEF TypeOK, LineHeld, Resting, Latch, Line
<1>4. Working'
  BY DEF TypeOK, Working, Moving, Resting, Accept
<1>5. Moved'
  BY DEF TypeOK, Moved, MovedFirst, Moving, Resting
<1> QED
  BY <1>1, <1>2, <1>3, <1>4, <1>5

LEMMA NextSectorKeeps ==
    ASSUME IInv, NextSector
    PROVE  IInv'
<1> USE DEF IInv, NextSector, driverVars, irqVars, deviceVars, dev
<1>1. TypeOK'
  BY DEF TypeOK, Resting
<1>2. Rested'
  BY DEF Rested, Rest, Resting
<1>3. LineHeld'
  BY DEF LineHeld, Moving, Flushing
<1>4. Working'
  BY DEF Working, Moving, Flushing, Resting
<1>5. Moved'
  <2>1. dev \notin late => MovedFirst(i + 1)
    BY DEF Moved
  <2>2. CASE i + 1 < call.count
    BY <2>1, <2>2 DEF Moved, MovedFirst, Moving, Flushing
  <2>3. CASE ~(i + 1 < call.count)
    <3>1. i + 1 = call.count
      BY <2>3 DEF TypeOK
    <3> QED
      BY <2>1, <2>3, <3>1 DEF Moved, MovedFirst, Moving, Flushing
  <2> QED
    BY <2>2, <2>3
<1> QED
  BY <1>1, <1>2, <1>3, <1>4, <1>5

LEMMA FailKeeps ==
    ASSUME IInv, Fail
    PROVE  IInv'
<1> USE DEF IInv, Fail, driverVars, irqVars, deviceVars, dev
<1>1. TypeOK'
  BY DEF TypeOK, Resting
<1>2. Rested'
  BY DEF Rested, Rest, Resting
<1>3. LineHeld'
  BY DEF LineHeld, Moving, Flushing
<1>4. Working'
  BY DEF Working, Moving, Flushing, Resting
<1>5. Moved'
  BY DEF Moved, MovedFirst, Moving, Flushing
<1> QED
  BY <1>1, <1>2, <1>3, <1>4, <1>5

LEMMA IrqKeeps ==
    ASSUME IInv, Irq
    PROVE  IInv'
<1> USE DEF IInv, Irq, driverVars, irqVars, deviceVars, dev
<1>1. TypeOK'
  BY DEF TypeOK, ReadStatus
<1>2. Rested'
  BY DEF TypeOK, Rested, Rest, ReadStatus
<1>3. LineHeld'
  BY DEF LineHeld
<1>4. Working'
  BY DEF TypeOK, LineHeld, Working, Resting, ReadStatus
<1>5. Moved'
  BY DEF Moved, MovedFirst
<1> QED
  BY <1>1, <1>2, <1>3, <1>4, <1>5

LEMMA AnswerKeeps ==
    ASSUME IInv, NEW d \in Drives, Answer(d)
    PROVE  IInv'
<1> USE DEF IInv, Answer, driverVars, irqVars, deviceVars, dev
<1>1. TypeOK'
  <2>1. drive' \in [Drives -> DriveType]
    <3>1. \A st \in States : [drive[d] EXCEPT !.st = st] \in DriveType
      BY DEF TypeOK, DriveType
    <3>2. \E st \in States : drive' = [drive EXCEPT ![d] = [drive[d] EXCEPT !.st = st]]
      BY DEF Done, States
    <3> QED
      BY <3>1, <3>2 DEF TypeOK
  <2>2. intrq' \in [Drives -> BOOLEAN] /\ latched' \in BOOLEAN
    BY DEF TypeOK, Done, Latch, Line
  <2> QED
    BY <2>1, <2>2 DEF TypeOK
<1>2. Rested'
  BY DEF TypeOK, Rested, Rest, Done
<1>3. LineHeld'
  BY DEF LineHeld, Latch, Line
<1>4. Working'
  <2>1. CASE dev \in late
    BY <2>1 DEF Working
  <2>2. CASE dev \notin late /\ d # dev
    <3>1. drive'[dev] = drive[dev] /\ intrq'[dev] = intrq[dev]
      BY <2>2 DEF TypeOK, Done
    <3> QED
      BY <3>1 DEF Working
  <2>3. CASE dev \notin late /\ d = dev
    <3>1. pc \notin Resting /\ pc \notin {"check", "transfer"}
      BY <2>3 DEF Rested, Rest, Working
    <3>2. \E st \in {"drq", "idle", "error"} :
             drive' = [drive EXCEPT ![dev] = [drive[dev] EXCEPT !.st = st]]
      BY <2>3 DEF Done
    <3>3. drive[dev] \in DriveType
      BY DEF TypeOK
    <3>4. /\ drive'[dev].op = drive[dev].op /\ drive'[dev].lba = drive[dev].lba
          /\ drive'[dev].st \in {"drq", "idle", "error"}
      <4>1. \A r \in DriveType, st \in States :
               LET q == [r EXCEPT !.st = st] IN q.op = r.op /\ q.lba = r.lba /\ q.st = st
        BY DEF DriveType
      <4> QED
        BY <3>2, <3>3, <4>1 DEF TypeOK, States
    <3>5. ~fired[dev]
      BY <2>3, <3>1 DEF TypeOK, Working, Moving, Flushing, Resting
    <3>6. CASE pc \in Moving
      <4>1. drive[dev].op \in {"read", "write"}
        BY <2>3, <3>6 DEF TypeOK, Working
      <4>2. PICK st \in {"drq", "error"} :
               /\ drive' = [drive EXCEPT ![dev] = [drive[dev] EXCEPT !.st = st]]
               /\ st = "drq" => drive[dev].lba < NumLba
        BY <2>3, <4>1 DEF Done
      <4>3. drive'[dev].st = st
        <5>1. \A r \in DriveType, new \in States : [r EXCEPT !.st = new].st = new
          BY DEF DriveType
        <5> QED
          BY <3>3, <4>2, <5>1 DEF TypeOK, States
      <4>4. /\ drive'[dev].st \in {"drq", "error"}
            /\ drive'[dev].st = "drq" => drive'[dev].lba < NumLba
        BY <3>4, <4>2, <4>3
      <4> QED
        BY <2>3, <3>1, <3>4, <3>5, <3>6, <4>4 DEF Working, Moving, Flushing, Resting
    <3>7. CASE pc \in Flushing
      <4>1. drive[dev].op \notin {"read", "write"}
        BY <2>3, <3>7 DEF Working
      <4>2. drive'[dev].st \in {"idle", "error"}
        <5>1. \E st \in {"idle", "error"} :
                 drive' = [drive EXCEPT ![dev] = [drive[dev] EXCEPT !.st = st]]
          BY <2>3, <4>1 DEF Done
        <5>2. \A r \in DriveType, st \in States : [r EXCEPT !.st = st].st = st
          BY DEF DriveType
        <5> QED
          BY <3>3, <5>1, <5>2 DEF TypeOK, States
      <4> QED
        BY <2>3, <3>1, <3>4, <3>5, <3>7, <4>2 DEF Working, Moving, Flushing, Resting
    <3> QED
      BY <3>1, <3>6, <3>7 DEF TypeOK
  <2> QED
    BY <2>1, <2>2, <2>3
<1>5. Moved'
  BY DEF Moved, MovedFirst
<1> QED
  BY <1>1, <1>2, <1>3, <1>4, <1>5

-----------------------------------------------------------------------------
(* IInv is an invariant. *)
THEOREM Invariant == Spec => []IInv
<1>1. IInv /\ [Next]_vars => IInv'
  <2> SUFFICES ASSUME IInv, [Next]_vars PROVE IInv'
    OBVIOUS
  <2>1. CASE Call
    BY <2>1, RefuseKeeps, SelectKeeps, CommandKeeps, ExpectKeeps, ClearKeeps,
       WokenKeeps,
       TimeoutKeeps, CheckKeeps, TransferKeeps, FlushKeeps, NextSectorKeeps, FailKeeps
       DEF Call
  <2>2. CASE Irq
    BY <2>2, IrqKeeps
  <2>3. CASE \E c \in Calls : Begin(c)
    BY <2>3, BeginKeeps
  <2>4. CASE \E d \in Drives : Answer(d)
    BY <2>4, AnswerKeeps
  <2>5. CASE UNCHANGED vars
    <3> USE <2>5 DEF vars, driverVars, irqVars, deviceVars, IInv, dev
    <3>1. TypeOK'
      BY DEF TypeOK
    <3>2. Rested' /\ LineHeld' /\ Working'
      BY DEF Rested, Rest, LineHeld, Working
    <3>3. Moved'
      BY DEF Moved, MovedFirst
    <3> QED
      BY <3>1, <3>2, <3>3
  <2> QED
    BY <2>1, <2>2, <2>3, <2>4, <2>5 DEF Next
<1> QED
  BY InitIInv, <1>1, PTL DEF Spec

(* A successful call on a drive for which no wait has timed out has moved, *)
(* in order, sectors the drive has: its own as far as 28 bits reach, else  *)
(* those that the low 28 bits name (ata_pio_read_sector,                   *)
(* ata_pio_write_sector).                                                  *)
THEOREM CallsMoveTheirOwn == Spec => []OwnSectors
<1>1. IInv => OwnSectors
  <2> SUFFICES ASSUME IInv, pc = "idle", moved # <<>>, result = "ok", dev \notin late
               PROVE  /\ moved = Sectors(dev, call.lba, call.count)
                      /\ There(call.lba, call.count)
                      /\ call.lba + call.count <= Addressable =>
                            Sectors(dev, call.lba, call.count)
                                = [k \in 1 .. call.count |-> <<dev, call.lba + k - 1>>]
    BY DEF OwnSectors, Sectors, There
  <2>1. MovedFirst(call.count) /\ call.lba \in Nat /\ call.count \in Nat
    BY DEF IInv, Moved, TypeOK
  <2>2. ASSUME call.lba + call.count <= Addressable, NEW k \in 1 .. call.count
        PROVE  Address(call.lba + k - 1) = call.lba + k - 1
    <3>1. call.lba + k - 1 \in Nat /\ call.lba + k - 1 < Addressable
      BY <2>1, <2>2, AtaAssumption
    <3> QED BY <3>1, AddressFits
  <2>3. ASSUME call.lba + call.count <= Addressable
        PROVE  Sectors(dev, call.lba, call.count)
                   = [k \in 1 .. call.count |-> <<dev, call.lba + k - 1>>]
    BY <2>2, <2>3 DEF Sectors
  <2> QED BY <2>1, <2>3 DEF MovedFirst
<1> QED
  BY Invariant, <1>1, PTL

(* Between calls such a drive leaves no interrupt behind.                  *)
THEOREM NothingLeftOver == Spec => []Quiet
<1>1. IInv => Quiet
  BY DEF IInv, Rested, Rest, Quiet, Resting
<1> QED
  BY Invariant, <1>1, PTL
=============================================================================
