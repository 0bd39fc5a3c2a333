-------------------------- MODULE InterruptsProofs --------------------------
(***************************************************************************)
(* Proofs about Interrupts, for every set of flows and lines, every number *)
(* of requests and every depth of nesting.                                 *)
(*                                                                         *)
(* The inductive invariant says who may have something in service: only    *)
(* the innermost frame of the flow that runs, with interrupts off, at a    *)
(* point of its handler that is followed by the EOI for it.  Every other   *)
(* frame, of this flow or of one that was switched out, has been           *)
(* acknowledged.                                                           *)
(***************************************************************************)
EXTENDS Interrupts, SequenceTheorems, TLAPS

(* The lines in service are those of the frame's own interrupt, and an EOI *)
(* for them is to come.                                                    *)
Covers(fr, lines) ==
    \/ /\ fr.at = "handler"
       /\ \E l \in Lines : fr.vector = l + 32 /\ lines \subseteq {l, Rank(l)}
    \/ /\ fr.at = "handled"
       /\ \E l \in Lines : fr.vector = l + 32 /\ l # 0 /\ lines \subseteq {l, Rank(l)}
    \/ fr.at = "slaveTold" /\ fr.vector \in 40 .. 47 /\ lines \subseteq {Cascade}

InService == isr # {} => ~intOn /\ frames[cur] # <<>> /\ Covers(Frame, isr)

(* Nothing happens before kernel_main has entered the timer's handler and  *)
(* enabled interrupts.                                                     *)
BootFirst ==
    /\ booted => Timer \in handles
    /\ intOn => booted
    /\ \A f \in Flow : frames[f] # <<>> => booted

IInv == TypeOK /\ BootFirst /\ InService

-----------------------------------------------------------------------------
(* A frame that is pushed is the innermost, and the others are below it.   *)
LEMMA Pushed ==
    ASSUME NEW S, NEW x \in S, NEW s \in Seq(S)
    PROVE  /\ <<x>> \o s \in Seq(S) /\ <<x>> \o s # <<>>
           /\ Head(<<x>> \o s) = x
<1>1. <<x>> \in Seq(S) /\ Len(<<x>>) = 1 /\ <<x>>[1] = x
  OBVIOUS
<1>2. /\ <<x>> \o s \in Seq(S) /\ Len(<<x>> \o s) = 1 + Len(s)
      /\ (<<x>> \o s)[1] = x
  BY <1>1, ConcatProperties
<1> QED
  BY <1>2

(* What an EOI leaves in service: never more, and nothing of a line below  *)
(* 8 or of the cascade when that alone was in service.                     *)
LEMMA EndedLess ==
    ASSUME NEW lines
    PROVE  Ended(lines) \subseteq isr
  BY DEF Ended

LEMMA EndedMaster ==
    ASSUME NEW l \in Nat, l < 8, isr \subseteq {l}
    PROVE  Ended(Master) = {}
<1>1. SUFFICES ASSUME NEW e \in Ended(Master) PROVE FALSE
  OBVIOUS
<1>2. e \in isr /\ e = l
  BY <1>1 DEF Ended
<1>3. e \in Master /\ \A m \in Master : e <= m
  BY <1>2 DEF Master
<1> QED
  BY <1>1, <1>3 DEF Ended

LEMMA EndedSlave ==
    ASSUME NEW l \in Nat, l >= 8, isr \subseteq {l, Cascade}
    PROVE  Ended(Slave) \subseteq {Cascade}
<1>1. SUFFICES ASSUME NEW e \in Ended(Slave), e # Cascade PROVE FALSE
  OBVIOUS
<1>2. e \in isr /\ e = l
  BY <1>1 DEF Ended
<1>3. e \in Slave /\ \A m \in Slave : e <= m
  BY <1>2 DEF Slave, Cascade
<1> QED
  BY <1>1, <1>3 DEF Ended

LEMMA EndedCascade ==
    ASSUME isr \subseteq {Cascade}
    PROVE  Ended(Master) = {}
  BY EndedMaster DEF Cascade

-----------------------------------------------------------------------------
(* The conjuncts about the frames survive a move of the innermost frame,   *)
(* a push and a return.                                                    *)
LEMMA GoToType ==
    ASSUME TypeOK, frames[cur] # <<>>, NEW at \in At, GoTo(at)
    PROVE  /\ frames' \in [Flow -> Seq(FrameType)]
           /\ frames'[cur] # <<>> /\ Head(frames'[cur]) = [Frame EXCEPT !.at = at]
           /\ \A f \in Flow : frames'[f] # <<>> => frames[f] # <<>>
<1>1. frames[cur] \in Seq(FrameType) /\ cur \in Flow
  BY DEF TypeOK
<1>2. Frame \in FrameType /\ Tail(frames[cur]) \in Seq(FrameType)
  BY <1>1, HeadTailProperties DEF Frame
<1>3. [Frame EXCEPT !.at = at] \in FrameType
  BY <1>2 DEF FrameType
<1>4. frames' = [frames EXCEPT ![cur] = <<[Frame EXCEPT !.at = at]>> \o Tail(frames[cur])]
  BY DEF GoTo
<1>5. /\ <<[Frame EXCEPT !.at = at]>> \o Tail(frames[cur]) \in Seq(FrameType)
      /\ <<[Frame EXCEPT !.at = at]>> \o Tail(frames[cur]) # <<>>
      /\ Head(<<[Frame EXCEPT !.at = at]>> \o Tail(frames[cur])) = [Frame EXCEPT !.at = at]
  BY <1>2, <1>3, Pushed
<1>6. frames'[cur] = <<[Frame EXCEPT !.at = at]>> \o Tail(frames[cur])
  BY <1>1, <1>4 DEF TypeOK
<1>7. \A f \in Flow : f # cur => frames'[f] = frames[f]
  BY <1>4 DEF TypeOK
<1>8. frames' \in [Flow -> Seq(FrameType)]
  BY <1>1, <1>4, <1>5 DEF TypeOK
<1> QED
  BY <1>5, <1>6, <1>7, <1>8

LEMMA PushType ==
    ASSUME TypeOK, NEW vector \in Nat, Push(vector)
    PROVE  /\ frames' \in [Flow -> Seq(FrameType)]
           /\ frames'[cur] # <<>>
           /\ Head(frames'[cur]) = [vector |-> vector, at |-> "handler", flag |-> intOn]
<1> DEFINE x == [vector |-> vector, at |-> "handler", flag |-> intOn]
<1>1. frames[cur] \in Seq(FrameType) /\ cur \in Flow /\ x \in FrameType
  BY DEF TypeOK, FrameType, At
<1>2. frames' = [frames EXCEPT ![cur] = <<x>> \o frames[cur]]
  BY DEF Push
<1>3. /\ <<x>> \o frames[cur] \in Seq(FrameType)
      /\ <<x>> \o frames[cur] # <<>> /\ Head(<<x>> \o frames[cur]) = x
  <2> HIDE DEF x
  <2> QED BY <1>1, Pushed
<1>4. frames'[cur] = <<x>> \o frames[cur]
  BY <1>1, <1>2 DEF TypeOK
<1> QED
  BY <1>1, <1>2, <1>3, <1>4 DEF TypeOK

LEMMA InitIInv == Init => IInv
<1>1. SUFFICES ASSUME Init PROVE IInv
  OBVIOUS
<1>2. [f \in Flow |-> <<>>] \in [Flow -> Seq(FrameType)]
  BY EmptySeq
<1>3. TypeOK
  BY <1>1, <1>2 DEF Init, TypeOK
<1> QED
  BY <1>1, <1>3 DEF Init, IInv, BootFirst, InService

-----------------------------------------------------------------------------
(* One lemma for each action, or for a few alike.  Most of them show that  *)
(* nothing is in service where the code is.                                *)
LEMMA InterruptStep ==
    ASSUME IInv, NEW l \in Lines, Interrupt(l)
    PROVE  IInv'
<1>1. TypeOK /\ isr = {} /\ booted /\ l \in Nat /\ l + 32 \in Nat
  BY InterruptsAssumption DEF IInv, InService, BootFirst, Interrupt
<1>2. /\ frames' \in [Flow -> Seq(FrameType)] /\ frames'[cur] # <<>>
      /\ Head(frames'[cur]) = [vector |-> l + 32, at |-> "handler", flag |-> intOn]
  BY <1>1, PushType DEF Interrupt
<1>3. isr' = {l, Rank(l)} /\ isr' \subseteq Lines \union {Cascade}
  BY <1>1 DEF Interrupt, Rank
<1>4. TypeOK'
  <2>1. irr' \subseteq Lines
    BY <1>1 DEF Interrupt, TypeOK
  <2> QED
    BY <1>1, <1>2, <1>3, <2>1 DEF Interrupt, TypeOK
<1>5. BootFirst'
  BY <1>1 DEF Interrupt, IInv, BootFirst
<1>6. Covers(Frame', isr')
  BY <1>2, <1>3 DEF Covers, Frame, Interrupt, Rank
<1>7. InService'
  BY <1>2, <1>6 DEF InService, Interrupt
<1> QED
  BY <1>4, <1>5, <1>7 DEF IInv

LEMMA SpuriousStep ==
    ASSUME IInv, NEW l \in Lines, Spurious(l)
    PROVE  IInv'
<1>1. TypeOK /\ isr = {} /\ booted /\ l \in {7, 15} /\ l + 32 \in Nat
  BY DEF IInv, InService, BootFirst, Spurious
<1>2. /\ frames' \in [Flow -> Seq(FrameType)] /\ frames'[cur] # <<>>
      /\ Head(frames'[cur]) = [vector |-> l + 32, at |-> "handler", flag |-> intOn]
  BY <1>1, PushType DEF Spurious
<1>3. isr' \subseteq {l, Rank(l)} /\ isr' \subseteq Lines \union {Cascade}
  BY <1>1 DEF Spurious, Rank, Cascade
<1>4. TypeOK'
  <2>1. raises' \in Nat
    BY <1>1 DEF Spurious, TypeOK
  <2> QED
    BY <1>1, <1>2, <1>3, <2>1 DEF Spurious, TypeOK
<1>5. BootFirst'
  BY <1>1 DEF Spurious, IInv, BootFirst
<1>6. Covers(Frame', isr')
  BY <1>2, <1>3 DEF Covers, Frame, Spurious, Rank
<1>7. InService'
  BY <1>2, <1>6 DEF InService, Spurious
<1> QED
  BY <1>4, <1>5, <1>7 DEF IInv

(* Nothing is in service in a flow's own code, in a system call, and in a  *)
(* handler that is about to call the scheduler.                            *)
LEMMA Quiet ==
    ASSUME IInv, \/ frames[cur] = <<>> \/ intOn
                 \/ InFrame("handler") /\ Frame.vector = Syscall
                 \/ InFrame("schedule") \/ InFrame("iret")
    PROVE  isr = {}
<1>1. SUFFICES ASSUME isr # {} PROVE FALSE
  OBVIOUS
<1>2. ~intOn /\ frames[cur] # <<>> /\ Covers(Frame, isr)
  BY <1>1 DEF IInv, InService
<1>3. \A l \in Lines : l + 32 # Syscall
  BY InterruptsAssumption DEF Syscall
<1> QED
  BY <1>2, <1>3 DEF Covers, InFrame

(* int 0x80 and the exceptions.                                            *)
LEMMA EnterStep ==
    ASSUME IInv, SyscallEnters \/ Faults
    PROVE  IInv'
<1>1. TypeOK /\ booted
  BY DEF IInv, SyscallEnters, Faults
<1>2. isr = {} /\ isr' = {}
  BY Quiet DEF SyscallEnters, Faults
<1>3. frames' \in [Flow -> Seq(FrameType)]
  <2>1. \E vector \in Nat : Push(vector)
    BY DEF SyscallEnters, Faults, Syscall, Fault
  <2> QED
    BY <1>1, <2>1, PushType
<1>4. TypeOK'
  BY <1>1, <1>2, <1>3 DEF TypeOK, SyscallEnters, Faults
<1>5. BootFirst'
  BY <1>1 DEF IInv, BootFirst, SyscallEnters, Faults
<1> QED
  BY <1>2, <1>4, <1>5 DEF IInv, InService

(* What leaves the frames and the controllers alone: requests, boot, the   *)
(* end of a safe block, a call of the scheduler.                           *)
LEMMA RaiseStep ==
    ASSUME IInv, NEW l \in Lines, Raise(l)
    PROVE  IInv'
  BY DEF IInv, TypeOK, BootFirst, InService, Covers, Frame, Raise

LEMMA RegisterStep ==
    ASSUME IInv, NEW v, Register(v)
    PROVE  IInv'
  BY DEF IInv, TypeOK, BootFirst, InService, Covers, Frame, Register

LEMMA RemapStep ==
    ASSUME IInv, pic_8259_remap
    PROVE  IInv'
  BY DEF IInv, TypeOK, BootFirst, InService, pic_8259_remap

LEMMA BootEnableStep ==
    ASSUME IInv, BootEnable
    PROVE  IInv'
<1>1. isr = {}
  BY Quiet DEF BootEnable, IInv, BootFirst, TypeOK
<1> QED
  BY <1>1 DEF IInv, TypeOK, BootFirst, InService, BootEnable

LEMMA OpenStep ==
    ASSUME IInv, Unmask \/ SafeBlock \/ CallsScheduler
    PROVE  IInv'
<1>1. isr = {} /\ isr' = {} /\ booted /\ UNCHANGED <<frames, handles, booted, irr, raises>>
  BY Quiet DEF Unmask, SafeBlock, CallsScheduler, IInv, BootFirst, TypeOK, InFrame
<1>2. cur' \in Flow /\ intOn' \in BOOLEAN
  BY DEF Unmask, SafeBlock, CallsScheduler, Switch, IInv, TypeOK
<1> QED
  BY <1>1, <1>2 DEF IInv, TypeOK, BootFirst, InService

-----------------------------------------------------------------------------
(* The handlers, which have a frame.                                       *)
LEMMA InKernel ==
    ASSUME IInv, NEW at, InFrame(at)
    PROVE  frames[cur] # <<>> /\ booted /\ Timer \in handles /\ cur \in Flow /\ Frame \in FrameType
<1>1. frames[cur] # <<>> /\ cur \in Flow /\ frames[cur] \in Seq(FrameType)
  BY DEF InFrame, IInv, TypeOK
<1>2. Frame \in FrameType
  BY <1>1, HeadTailProperties DEF Frame
<1> QED
  BY <1>1, <1>2 DEF IInv, BootFirst

(* A move of the frame to a point `at', with an EOI or without, when what  *)
(* remains in service is covered there.                                    *)
LEMMA MoveStep ==
    ASSUME IInv, frames[cur] # <<>>, NEW at \in At, GoTo(at), isr' \subseteq isr,
           UNCHANGED <<irr, raises, cur, intOn, handles, booted>>,
           isr' # {} => Covers([Frame EXCEPT !.at = at], isr')
    PROVE  IInv'
<1>1. /\ frames' \in [Flow -> Seq(FrameType)]
      /\ frames'[cur] # <<>> /\ Head(frames'[cur]) = [Frame EXCEPT !.at = at]
      /\ \A f \in Flow : frames'[f] # <<>> => frames[f] # <<>>
  BY GoToType DEF IInv
<1>2. TypeOK'
  BY <1>1 DEF IInv, TypeOK
<1>3. BootFirst'
  BY <1>1 DEF IInv, BootFirst
<1>4. InService'
  BY <1>1 DEF IInv, InService, Frame
<1> QED
  BY <1>2, <1>3, <1>4 DEF IInv

(* timer_handle ends the timer's interrupt itself.                         *)
LEMMA TimerEoiStep ==
    ASSUME IInv, TimerEoi
    PROVE  IInv'
<1>1. frames[cur] # <<>> /\ "schedule" \in At
  BY InKernel DEF TimerEoi, At
<1>2. isr' = {}
  <2>1. CASE isr = {}
    BY <2>1, EndedLess DEF TimerEoi
  <2>2. CASE isr # {}
    <3>1. PICK l \in Lines : Timer = l + 32 /\ isr \subseteq {l, Rank(l)}
      BY <2>2 DEF IInv, InService, Covers, TimerEoi, InFrame
    <3>2. l = 0 /\ isr \subseteq {0}
      BY <3>1, InterruptsAssumption DEF Timer, Rank
    <3> QED
      BY <3>2, EndedMaster DEF TimerEoi
  <2> QED BY <2>1, <2>2
<1> QED
  BY <1>1, <1>2, MoveStep DEF TimerEoi

(* The EOI of the ATA handlers reaches the master only: what is left is    *)
(* still the handler's own.                                                *)
LEMMA AtaEoiStep ==
    ASSUME IInv, AtaEoi
    PROVE  IInv'
<1>1. frames[cur] # <<>> /\ "handled" \in At /\ Frame \in FrameType
  BY InKernel DEF AtaEoi, At
<1>2. isr' \subseteq isr
  BY EndedLess DEF AtaEoi
<1>3. ASSUME isr' # {} PROVE Covers([Frame EXCEPT !.at = "handled"], isr')
  <2>1. isr # {}
    BY <1>2, <1>3
  <2>2. PICK l \in Lines : Frame.vector = l + 32 /\ isr \subseteq {l, Rank(l)}
    BY <2>1 DEF IInv, InService, Covers, AtaEoi, InFrame
  <2>3. l # 0
    BY <2>2 DEF AtaEoi, Ata
  <2> QED
    BY <1>1, <1>2, <2>2, <2>3 DEF Covers, FrameType
<1> QED
  BY <1>1, <1>2, <1>3, MoveStep DEF AtaEoi

LEMMA HandlerReturnsStep ==
    ASSUME IInv, HandlerReturns
    PROVE  IInv'
<1>1. frames[cur] # <<>> /\ "handled" \in At /\ Frame \in FrameType /\ Timer \in handles
  BY InKernel DEF HandlerReturns, At
<1>2. ASSUME isr # {} PROVE Covers([Frame EXCEPT !.at = "handled"], isr)
  <2>1. PICK l \in Lines : Frame.vector = l + 32 /\ isr \subseteq {l, Rank(l)}
    BY <1>2 DEF IInv, InService, Covers, HandlerReturns, InFrame
  <2>2. l # 0
    BY <1>1, <2>1 DEF HandlerReturns, Timer, Syscall
  <2> QED
    BY <1>1, <2>1, <2>2 DEF Covers, FrameType
<1> QED
  BY <1>1, <1>2, MoveStep DEF HandlerReturns

(* The slave first, after which at most the cascade is in service ...      *)
LEMMA SlaveEoiStep ==
    ASSUME IInv, SlaveEoi
    PROVE  IInv'
<1>1. frames[cur] # <<>> /\ "slaveTold" \in At /\ Frame \in FrameType
  BY InKernel DEF SlaveEoi, At
<1>2. isr' \subseteq isr
  BY EndedLess DEF SlaveEoi
<1>3. ASSUME isr' # {} PROVE Covers([Frame EXCEPT !.at = "slaveTold"], isr')
  <2>1. isr # {}
    BY <1>2, <1>3
  <2>2. PICK l \in Lines : Frame.vector = l + 32 /\ isr \subseteq {l, Rank(l)}
    BY <2>1 DEF IInv, InService, Covers, SlaveEoi, InFrame
  <2>3. l \in 8 .. 15 /\ Frame.vector \in 40 .. 47 /\ isr \subseteq {l, Cascade}
    BY <2>2, InterruptsAssumption DEF SlaveEoi, NeedsSlave, Rank
  <2>4. isr' \subseteq {Cascade}
    BY <2>3, EndedSlave DEF SlaveEoi
  <2> QED
    BY <1>1, <2>3, <2>4 DEF Covers, FrameType
<1> QED
  BY <1>1, <1>2, <1>3, MoveStep DEF SlaveEoi

(* ... and then the master, after which nothing is.                        *)
LEMMA MasterEoiStep ==
    ASSUME IInv, MasterEoi
    PROVE  IInv'
<1>1. frames[cur] # <<>> /\ "iret" \in At
  BY InKernel DEF MasterEoi, At
<1>2. isr' = {}
  <2>1. CASE isr = {}
    BY <2>1, EndedLess DEF MasterEoi
  <2>2. CASE isr # {} /\ InFrame("slaveTold")
    BY <2>2, EndedCascade DEF MasterEoi, IInv, InService, Covers, InFrame
  <2>3. CASE isr # {} /\ InFrame("handled") /\ ~NeedsSlave
    <3>1. PICK l \in Lines : Frame.vector = l + 32 /\ isr \subseteq {l, Rank(l)}
      BY <2>3 DEF IInv, InService, Covers, InFrame
    <3>2. l \in Nat /\ l < 8 /\ isr \subseteq {l}
      BY <2>3, <3>1, InterruptsAssumption DEF NeedsSlave, Rank
    <3> QED
      BY <3>2, EndedMaster DEF MasterEoi
  <2> QED BY <2>1, <2>2, <2>3 DEF MasterEoi
<1> QED
  BY <1>1, <1>2, MoveStep DEF MasterEoi

LEMMA ScheduleStep ==
    ASSUME IInv, Schedule
    PROVE  IInv'
<1>1. TypeOK /\ isr = {} /\ frames[cur] # <<>> /\ booted /\ "handled" \in At
  BY Quiet, InKernel DEF IInv, Schedule, At
<1>2. /\ frames' \in [Flow -> Seq(FrameType)]
      /\ \A f \in Flow : frames'[f] # <<>> => frames[f] # <<>>
  BY <1>1, GoToType DEF Schedule
<1>3. cur' \in Flow /\ intOn' \in BOOLEAN
  BY <1>1 DEF Schedule, Switch, TypeOK
<1> QED
  BY <1>1, <1>2, <1>3 DEF IInv, TypeOK, BootFirst, InService, Schedule

LEMMA IretStep ==
    ASSUME IInv, Iret
    PROVE  IInv'
<1>1. /\ TypeOK /\ frames[cur] # <<>> /\ booted /\ cur \in Flow /\ Frame \in FrameType
      /\ frames[cur] \in Seq(FrameType)
  BY InKernel DEF Iret, IInv, TypeOK
<1>2. isr = {}
  <2>1. CASE InFrame("iret")
    BY <2>1, Quiet
  <2>2. CASE InFrame("handled") /\ ~NeedsMaster
    <3>1. SUFFICES ASSUME isr # {} PROVE FALSE
      OBVIOUS
    <3>2. PICK l \in Lines : Frame.vector = l + 32 /\ l # 0
      BY <2>2, <3>1 DEF IInv, InService, Covers, InFrame
    <3> QED
      BY <2>2, <3>2, InterruptsAssumption DEF NeedsMaster
  <2> QED BY <2>1, <2>2 DEF Iret
<1>3. Tail(frames[cur]) \in Seq(FrameType)
  BY <1>1, HeadTailProperties
<1>4. frames' \in [Flow -> Seq(FrameType)]
  BY <1>1, <1>3 DEF Iret, TypeOK
<1>5. \A f \in Flow : f # cur => frames'[f] = frames[f]
  BY <1>1 DEF Iret, TypeOK
<1>6. intOn' \in BOOLEAN
  BY <1>1 DEF Iret, FrameType
<1> QED
  BY <1>1, <1>2, <1>4, <1>5, <1>6 DEF IInv, TypeOK, BootFirst, InService, Iret

-----------------------------------------------------------------------------
LEMMA NextIInv == IInv /\ [Next]_vars => IInv'
<1> SUFFICES ASSUME IInv, [Next]_vars PROVE IInv'
  OBVIOUS
<1>1. CASE Runs
  BY <1>1, TimerEoiStep, ScheduleStep, AtaEoiStep, HandlerReturnsStep, SlaveEoiStep,
     MasterEoiStep, IretStep, OpenStep DEF Runs
<1>2. CASE Arrives
  BY <1>2, InterruptStep DEF Arrives
<1>3. CASE \/ pic_8259_remap \/ BootEnable
             \/ SyscallEnters \/ Faults \/ SafeBlock \/ CallsScheduler
  BY <1>3, RemapStep, BootEnableStep, EnterStep, OpenStep
<1>4. ASSUME NEW v, Register(v) PROVE IInv'
  BY <1>4, RegisterStep
<1>5. ASSUME NEW l \in Lines, Raise(l) \/ Spurious(l) PROVE IInv'
  BY <1>5, RaiseStep, SpuriousStep
<1>6. CASE UNCHANGED vars
  BY <1>6 DEF vars, IInv, TypeOK, BootFirst, InService, Covers, Frame
<1> QED
  BY <1>1, <1>2, <1>3, <1>4, <1>5, <1>6 DEF Next

THEOREM Invariance == Spec => []IInv
  BY InitIInv, NextIInv, PTL DEF Spec

(* Every variable keeps its type, and so does every frame on every stack.  *)
THEOREM TypeCorrect == Spec => []TypeOK
<1>1. IInv => TypeOK
  BY DEF IInv
<1> QED
  BY <1>1, Invariance, PTL

(* Whenever the CPU can be interrupted nothing is in service: neither a    *)
(* handler that waits for its flow to run again nor one that opened        *)
(* interrupts before its iret holds back a request.                        *)
THEOREM RequestsGetThrough == Spec => []NothingWithheld
<1>1. IInv => NothingWithheld
  BY DEF IInv, InService, NothingWithheld
<1> QED
  BY <1>1, Invariance, PTL

(* Whatever is in service is the running handler's own interrupt, or the   *)
(* line through which it came.                                             *)
LEMMA ServedOwn ==
    ASSUME IInv, NEW l \in isr
    PROVE  Frame.vector = l + 32 \/ (l = Cascade /\ Frame.vector \in 40 .. 47)
<1>1. Covers(Frame, isr)
  BY DEF IInv, InService
<1>2. CASE Frame.at = "slaveTold"
  BY <1>1, <1>2 DEF Covers
<1>3. CASE Frame.at # "slaveTold"
  <2>1. PICK m \in Lines : Frame.vector = m + 32 /\ isr \subseteq {m, Rank(m)}
    BY <1>1, <1>3 DEF Covers
  <2>2. l = m \/ (l = Cascade /\ m >= 8)
    BY <2>1 DEF Rank
  <2> QED
    BY <2>1, <2>2, InterruptsAssumption
<1> QED
  BY <1>2, <1>3

(* An EOI ends nothing but the interrupt of the handler that sends it,     *)
(* although ir_handler sends one for every vector above 32 and handlers    *)
(* send their own before.                                                  *)
THEOREM EoiEndsOwn == Spec => EndsOwn
<1>1. IInv /\ [Next]_vars =>
        [\A l \in isr \ isr' :
            \/ Frame.vector = l + 32
            \/ l = Cascade /\ Frame.vector \in 40 .. 47]_vars
  BY ServedOwn
<1> QED
  BY <1>1, Invariance, PTL DEF Spec, EndsOwn
=============================================================================
