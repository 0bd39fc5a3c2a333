---------------------------- MODULE MemoryProofs ----------------------------
(***************************************************************************)
(* Theorems about Paging, for every layout that PagingAssumption allows,   *)
(* about Tasks, for any number of tasks, blocks and entries, and about     *)
(* Heap, for every size of it and every sequence of calls.                 *)
(*                                                                         *)
(* Those about Paging rest on one inductive invariant.  Its core is        *)
(* LinearKernel: first fit gives the kernel's pages the frames 0, 1, 2, ...*)
(* in order, so the subtraction that virtual_2_physical does before paging *)
(* is enabled is right afterwards, and low memory is the kernel's and      *)
(* never the heap's.                                                       *)
(*                                                                         *)
(* Those about Tasks rest on TasksInvariant.  Its core is HeldApart and    *)
(* OriginTrue: what a task got by malloc and may still free belongs to no  *)
(* other task and to the heap the task draws on.  HeldApart stops being    *)
(* true of a task that is being cleaned up, which has freed an entry that  *)
(* its table still lists, and need not hold, since such a task runs no     *)
(* more (CleanerTrue); of a thread whose process was cleaned up before it  *)
(* (gone), it says that the thread holds nothing.                          *)
(*                                                                         *)
(* Those about Heap rest on HeapInvariant: there is a set of pieces, which *)
(* no variable holds, on which the tags in memory, the blocks of clients   *)
(* and the index agree.  Each call replaces a piece or two of it (Parts,   *)
(* Fitted, Merged), and what lies beside them is untouched (TilesFrame).   *)
(***************************************************************************)
EXTENDS Paging, Tasks, Heap, FiniteSetTheorems, SequenceTheorems, WellFoundedInduction,
        NaturalsInduction, TLAPS

Stages == Mapping \union {"idle", "failed", "lost", "fault"}

Types ==
    /\ stage \in Stages
    /\ page \in Nat /\ last \in Nat
    /\ table \in [Tables -> Pages \union {None}]
    /\ entry \in [Tables -> Nat \union {None}]
    /\ pte \in [Pages -> Nat \union {None}]
    /\ bits \in SUBSET Frames /\ used \in Int
    /\ enabled \in BOOLEAN
    /\ placement \in Nat
    /\ heapEnd \in HeapStart .. HeapMaxEnd

(* Where each range begins and ends, and when paging is on. *)
Progress ==
    /\ stage = "kernel" =>
           ~enabled /\ last = KernelLast /\ page \in KernelBase .. KernelLast + 1
    /\ stage = "heap" =>
           enabled /\ last = HeapInitialEnd /\ page \in HeapStart .. HeapInitialEnd + 1
    /\ stage = "lowmem" => enabled /\ last = LowEnd /\ page >= 1
    /\ stage = "bios32" => enabled /\ last = BiosLast /\ page >= BiosFirst
    /\ stage = "expand" => enabled /\ heapEnd <= page /\ page <= last + 1 /\ last <= HeapMaxEnd
    /\ stage = "expand" => heapEnd <= last
    /\ stage = "idle" => enabled

(* The frames of the pages the bitmap knows of. *)
FramesApart ==
    /\ \A p \in Used : pte[p] \in Frames
    /\ \A p, q \in Used : pte[p] = pte[q] => p = q
    /\ bits = {pte[p] : p \in Used}
    /\ used = Cardinality(bits)

LowIdentity ==
    \A p \in Pages : p < KernelBase /\ pte[p] # None => p \in LowPages /\ pte[p] = p /\ enabled

LinearKernel ==
    /\ stage = "kernel" =>
           \A p \in Pages : IF p \in KernelBase .. page - 1
                            THEN pte[p] = p - KernelBase ELSE pte[p] = None
    /\ enabled => \A p \in KernelBase .. KernelLast : pte[p] = p - KernelBase

(* Tables made by the bootstrap heap lie in the kernel's pages. *)
TablesTrue ==
    /\ stage = "kernel" =>
           /\ placement \in KernelBase .. KernelLast
           /\ table[TableOf(KernelBase)] = None => placement < KernelLast
           /\ \A i \in Tables : table[i] # None =>
                 table[i] \in KernelBase .. KernelLast /\ entry[i] = table[i] - KernelBase
    /\ stage = "heap" /\ table[TableOf(HeapStart)] = None =>
           placement \in KernelBase .. KernelLast
    /\ enabled => \A i \in Tables : table[i] # None =>
           pte[table[i]] # None /\ pte[table[i]] = entry[i]

HeapPresent ==
    /\ \A p \in HeapStart .. heapEnd - 1 : pte[p] # None
    /\ stage \in {"heap", "expand"} => \A p \in HeapStart .. page - 1 : pte[p] # None

LowPresent ==
    /\ stage = "lowmem" => \A p \in 1 .. page - 1 : pte[p] # None
    /\ stage \in {"bios32", "idle", "expand"} => \A p \in 1 .. LowEnd : pte[p] # None
    /\ stage = "bios32" => \A p \in BiosFirst .. page - 1 : pte[p] # None
    /\ stage \in {"idle", "expand"} => \A p \in BiosFirst .. BiosLast : pte[p] # None

IInv ==
    /\ Types /\ Progress /\ FramesApart /\ LowIdentity /\ LinearKernel
    /\ TablesTrue /\ HeapPresent /\ LowPresent /\ NoFault

-----------------------------------------------------------------------------
(* The layout, unpacked. *)
LEMMA Layout ==
    /\ KernelBase \in Nat /\ ImagePages \in Nat /\ NumFrames \in Nat
    /\ HeapStart \in Nat /\ HeapFirst \in Nat /\ HeapInitialEnd \in Nat /\ HeapMaxEnd \in Nat
    /\ HeapMinSize \in Nat /\ LowEnd \in Nat /\ BiosFirst \in Nat /\ BiosLast \in Nat
    /\ KernelLast = KernelBase + ImagePages + 1
    /\ Pages \subseteq Nat
    /\ \A p \in Nat : p <= HeapMaxEnd => p \in Pages
    /\ \A p \in Pages : TableOf(p) \in Tables
<1>1. \A n \in {NumFrames, NumTables, PagesPerTable, KernelBase, ImagePages, HeapStart,
                HeapFirst, HeapInitialEnd, HeapMaxEnd, HeapMinSize, LowEnd, BiosFirst, BiosLast} :
          n \in Nat
  BY PagingAssumption
<1>2. HeapMaxEnd \in Pages /\ \A p \in Pages : TableOf(p) \in Tables
  BY PagingAssumption
<1>3. NumTables * PagesPerTable \in Int
  BY <1>1
<1>4. Pages \subseteq Nat /\ \A p \in Nat : p <= HeapMaxEnd => p \in Pages
  <2> DEFINE total == NumTables * PagesPerTable
  <2>1. total \in Int /\ Pages = 0 .. total - 1
    BY <1>3 DEF Pages
  <2> HIDE DEF total
  <2> QED BY <2>1, <1>1, <1>2
<1> QED BY <1>1, <1>2, <1>4 DEF KernelLast

(* The order of the regions. *)
LEMMA Order ==
    /\ KernelLast < HeapStart /\ HeapStart < HeapFirst /\ HeapFirst < HeapInitialEnd
    /\ HeapInitialEnd <= HeapMaxEnd /\ HeapFirst + HeapMinSize <= HeapInitialEnd
    /\ HeapMaxEnd - HeapFirst <= KernelBase
    /\ LowEnd < KernelBase /\ BiosLast < KernelBase /\ BiosFirst > 0
    /\ LowEnd <= HeapMinSize /\ BiosLast <= HeapMinSize
    /\ LowEnd <= ImagePages /\ BiosLast <= ImagePages
    /\ \A p \in KernelBase .. KernelLast : TableOf(p) = TableOf(KernelBase)
    /\ \A p \in HeapStart .. HeapInitialEnd : TableOf(p) = TableOf(HeapStart)
BY PagingAssumption

(* The bitmap is finite. *)
LEMMA FiniteFrames == ASSUME NEW S, S \subseteq Frames PROVE IsFiniteSet(S)
<1>1. IsFiniteSet(Frames)
  BY Layout, FS_Interval DEF Frames
<1> QED BY <1>1, FS_Subset

(* The page being mapped is a page, and on which side of KernelBase. *)
LEMMA PageInRange ==
    ASSUME IInv, stage \in Mapping, page <= last
    PROVE  /\ page \in Pages /\ TableOf(page) \in Tables
           /\ Identity => page \in LowPages /\ page < KernelBase /\ enabled
           /\ ~Identity => page >= KernelBase
           /\ stage = "kernel" => page \in KernelBase .. KernelLast
           /\ stage = "heap" => page \in HeapStart .. HeapInitialEnd
<1> USE Layout, Order DEF IInv, Types, Progress, Mapping
<1>1. page \in Nat /\ last \in Nat OBVIOUS
<1>2. stage = "kernel" => page \in KernelBase .. KernelLast OBVIOUS
<1>3. stage = "heap" => page \in HeapStart .. HeapInitialEnd OBVIOUS
<1>4. Identity => page \in LowPages /\ page < KernelBase /\ enabled
  BY DEF Identity, LowPages
<1>5. ~Identity => page >= KernelBase
  BY DEF Identity
<1>6. page <= HeapMaxEnd
  BY DEF Identity
<1> QED BY <1>1, <1>2, <1>3, <1>4, <1>5, <1>6

(* A fresh frame for a fresh page keeps the frames apart. *)
LEMMA FreshFrame ==
    ASSUME Types, FramesApart,
           NEW q \in Pages, q >= KernelBase, pte[q] = None,
           NEW f \in Frames, f \notin bits,
           pte' = [pte EXCEPT ![q] = f], bits' = bits \union {f}, used' = used + 1
    PROVE  FramesApart'
<1> USE Layout
<1>1. f \in Nat /\ f # None
  BY DEF Frames, None
<1>2. Used' = Used \union {q} /\ q \notin Used
  BY <1>1 DEF Used, Mapped, Types
<1>3. pte'[q] = f /\ \A p \in Used : pte'[p] = pte[p]
  BY <1>2 DEF Used, Mapped, Types
<1>4. {pte'[p] : p \in Used'} = {pte[p] : p \in Used} \union {f}
  BY <1>2, <1>3
<1>5. \A p \in Used : pte[p] # f
  BY DEF FramesApart
<1>6. Cardinality(bits \union {f}) = Cardinality(bits) + 1
  BY FiniteFrames, FS_AddElement DEF Types
<1> QED BY <1>2, <1>3, <1>4, <1>5, <1>6 DEF FramesApart

(* Mapping low memory does not touch the frames of the bitmap. *)
LEMMA LowFrame ==
    ASSUME Types, FramesApart, NEW q \in Pages, q < KernelBase,
           pte' = [pte EXCEPT ![q] = q], UNCHANGED frames
    PROVE  FramesApart'
<1> USE Layout
<1>1. Used' = Used /\ \A p \in Used : pte'[p] = pte[p]
  BY DEF Used, Mapped, Types
<1>2. {pte'[p] : p \in Used'} = {pte[p] : p \in Used}
  BY <1>1
<1> QED BY <1>1, <1>2 DEF FramesApart, frames

(* While the kernel is mapped, first fit hands out frame page - KernelBase. *)
LEMMA FirstFitIsLinear ==
    ASSUME IInv, stage = "kernel", page \in KernelBase .. KernelLast,
           page \in Pages, pte[page] = None, NEW f \in Frames, FirstFree(f)
    PROVE  f = page - KernelBase
<1> USE Layout, Order
<1>1. f \in Nat /\ \A g \in 0 .. f - 1 : g \in bits
  BY DEF FirstFree, Frames
<1>2. f \notin bits /\ bits = {pte[p] : p \in Used}
  BY DEF FirstFree, IInv, FramesApart
<1>3. \A p \in Pages : IF p \in KernelBase .. page - 1
                       THEN pte[p] = p - KernelBase ELSE pte[p] = None
  BY DEF IInv, LinearKernel
<1>4. f < page - KernelBase => FALSE
  <2>1. HAVE f < page - KernelBase
  <2>2. KernelBase + f \in KernelBase .. page - 1 /\ KernelBase + f \in Pages
    BY <2>1, <1>1
  <2>3. pte[KernelBase + f] = f
    BY <2>2, <1>1, <1>3
  <2>4. KernelBase + f \in Used
    BY <2>2, <2>3, <1>1 DEF Used, Mapped, None
  <2> QED BY <1>2, <2>3, <2>4
<1>5. f > page - KernelBase => FALSE
  <2>1. HAVE f > page - KernelBase
  <2>2. page - KernelBase \in bits
    BY <2>1, <1>1
  <2>3. PICK p \in Used : pte[p] = page - KernelBase
    BY <2>2, <1>2
  <2>4. p \in Pages /\ pte[p] # None
    BY DEF Used, Mapped
  <2>5. p - KernelBase = page - KernelBase
    BY <2>3, <2>4, <1>3
  <2> QED BY <2>4, <2>5
<1> QED BY <1>1, <1>4, <1>5

(* contract frees no page: the distances it passes lie above low memory    *)
(* and below the kernel, where nothing is mapped.                          *)
LEMMA ContractFreesNothing ==
    ASSUME IInv, NEW n \in Nat, n >= HeapMinSize,
           FreePages(n + 1 .. heapEnd - HeapFirst - 1)
    PROVE  pte' = pte /\ bits' = bits /\ used' = used
<1> USE Layout, Order
<1> DEFINE unmapped == (n + 1 .. heapEnd - HeapFirst - 1) \intersect Mapped
<1>1. unmapped = {}
  <2> SUFFICES ASSUME NEW p \in unmapped PROVE FALSE OBVIOUS
  <2>1. p \in Pages /\ pte[p] # None /\ p > n /\ p < heapEnd - HeapFirst
    BY DEF Mapped, IInv, Types
  <2>2. p < KernelBase
    BY <2>1 DEF IInv, Types
  <2>3. p \in LowPages
    BY <2>1, <2>2 DEF IInv, LowIdentity
  <2> QED BY <2>1, <2>3 DEF LowPages
<1>2. pte' = [p \in Pages |-> IF p \in unmapped THEN None ELSE pte[p]]
  BY DEF FreePages
<1>3. bits' = bits \ {pte[p] : p \in unmapped} /\ used' = used - Cardinality(unmapped)
  BY DEF FreePages
<1>4. pte' = pte
  BY <1>1, <1>2 DEF IInv, Types
<1>5. Cardinality(unmapped) = 0
  BY <1>1, FS_EmptySet
<1> HIDE DEF unmapped
<1>6. bits' = bits /\ used' = used
  BY <1>1, <1>3, <1>5 DEF IInv, Types
<1> QED BY <1>4, <1>6

-----------------------------------------------------------------------------
LEMMA InitIInv == Init => IInv
<1> SUFFICES ASSUME Init PROVE IInv OBVIOUS
<1> USE Layout, Order DEF Init
<1>0. KernelLast \in Nat /\ KernelBase + ImagePages \in Nat OBVIOUS
<1>1. Types
  <2>1. stage \in Stages /\ enabled \in BOOLEAN
    BY DEF Stages, Mapping
  <2>2. page \in Nat /\ last \in Nat /\ placement \in Nat /\ heapEnd \in HeapStart .. HeapMaxEnd
    BY <1>0 DEF BootLast
  <2>3. /\ table \in [Tables -> Pages \union {None}] /\ entry \in [Tables -> Nat \union {None}]
        /\ pte \in [Pages -> Nat \union {None}]
    OBVIOUS
  <2> QED BY <2>1, <2>2, <2>3 DEF Types
<1>2. Progress
  BY <1>0 DEF Progress, BootLast
<1>3. Used = {} /\ \A p \in Pages : pte[p] = None
  BY DEF Used, Mapped
<1>4. FramesApart
  BY <1>3, FS_EmptySet DEF FramesApart
<1>5. LowIdentity /\ LinearKernel
  BY <1>3 DEF LowIdentity, LinearKernel
<1>6. TablesTrue
  BY <1>0 DEF TablesTrue
<1>7. HeapPresent /\ LowPresent /\ NoFault
  BY DEF HeapPresent, LowPresent, NoFault
<1> QED BY <1>1, <1>2, <1>4, <1>5, <1>6, <1>7 DEF IInv

(* The table of a page: where it may lie, and that the directory is right. *)
LEMMA MakeTableStep == IInv /\ MakeTable => IInv'
<1> SUFFICES ASSUME IInv, MakeTable PROVE IInv' OBVIOUS
<1> USE Layout, Order
<1>1. /\ stage \in Mapping /\ page <= last
      /\ table[TableOf(page)] = None
      /\ placement' = IF HeapReady THEN placement ELSE placement + 1
      /\ UNCHANGED <<page, last, pte, frames, enabled, heapEnd>>
  BY DEF MakeTable
<1>2. PICK t \in TablePlaces :
         /\ IF enabled /\ pte[t] = None THEN stage' = "fault" ELSE UNCHANGED stage
         /\ table' = [table EXCEPT ![TableOf(page)] = t]
         /\ entry' = [entry EXCEPT ![TableOf(page)] = Translate(t)]
  BY DEF MakeTable
<1> DEFINE k == TableOf(page)
<1>3. page \in Pages /\ k \in Tables
  BY <1>1, PageInRange
<1>4. CASE stage = "kernel"
  <2>1. ~enabled /\ ~HeapReady /\ page \in KernelBase .. KernelLast /\ k = TableOf(KernelBase)
    BY <1>1, <1>4, PageInRange DEF HeapReady, IInv, Progress
  <2>2. t = placement /\ t \in KernelBase .. KernelLast /\ t < KernelLast
    BY <1>1, <1>2, <2>1, <1>4 DEF TablePlaces, IInv, TablesTrue
  <2>3. Translate(t) = t - KernelBase /\ stage' = stage
    BY <1>2, <2>1 DEF Translate
  <2>4. t \in Pages /\ t \in Nat /\ t # None
    BY <2>2 DEF None
  <2>5. TablesTrue'
    <3>1. placement' = t + 1 /\ table'[TableOf(KernelBase)] # None
      BY <1>1, <1>2, <1>3, <2>1, <2>2, <2>4 DEF IInv, Types
    <3>2. \A i \in Tables : table'[i] # None =>
             table'[i] \in KernelBase .. KernelLast /\ entry'[i] = table'[i] - KernelBase
      BY <1>2, <1>3, <1>4, <2>2, <2>3 DEF IInv, Types, TablesTrue
    <3> QED BY <3>1, <3>2, <1>1, <1>4, <2>1, <2>2, <2>3 DEF TablesTrue
  <2>6. Types'
    BY <1>1, <1>2, <1>3, <2>2, <2>3, <2>4 DEF IInv, Types, frames
  <2> QED
    BY <1>1, <2>3, <2>5, <2>6 DEF IInv, Progress, FramesApart, LowIdentity, LinearKernel,
       HeapPresent, LowPresent, NoFault, Used, Mapped, frames
<1>5. CASE stage # "kernel"
  <2>1. enabled
    BY <1>1, <1>5 DEF IInv, Progress, Mapping
  <2>2. t \in Pages /\ pte[t] # None
    <3>1. CASE HeapReady
      <4>1. t \in HeapStart .. heapEnd - 1
        BY <3>1 DEF TablePlaces, IInv, Types
      <4>2. t \in Nat /\ t <= HeapMaxEnd
        BY <4>1 DEF IInv, Types
      <4> QED BY <4>1, <4>2 DEF IInv, HeapPresent
    <3>2. CASE ~HeapReady
      <4>1. stage = "heap"
        BY <3>2, <1>1, <1>5 DEF HeapReady, Mapping
      <4>2. k = TableOf(HeapStart)
        BY <4>1, <1>1, PageInRange
      <4>3. t = placement /\ t \in KernelBase .. KernelLast
        BY <3>2, <4>1, <4>2, <1>1 DEF TablePlaces, IInv, TablesTrue
      <4>4. pte[t] = t - KernelBase
        BY <2>1, <4>3 DEF IInv, LinearKernel
      <4> QED BY <4>3, <4>4 DEF None
    <3> QED BY <3>1, <3>2
  <2>3. stage' = stage /\ Translate(t) = pte[t]
    BY <1>2, <2>1, <2>2 DEF Translate
  <2>4. pte[t] \in Nat /\ t # None
    BY <2>2 DEF IInv, Types, None
  <2>5. placement' \in Nat
    BY <1>1 DEF IInv, Types
  <2>6. Types'
    BY <1>1, <1>2, <1>3, <2>2, <2>3, <2>4, <2>5 DEF IInv, Types, frames
  <2>7. table'[k] = t /\ entry'[k] = pte[t]
    BY <1>2, <1>3, <2>3 DEF IInv, Types
  <2>8. \A i \in Tables : i # k => table'[i] = table[i] /\ entry'[i] = entry[i]
    BY <1>2 DEF IInv, Types
  <2>9. \A i \in Tables : table'[i] # None => pte'[table'[i]] # None /\ pte'[table'[i]] = entry'[i]
    BY <1>1, <2>1, <2>2, <2>7, <2>8 DEF IInv, TablesTrue
  <2>10. stage' = "heap" => table'[TableOf(HeapStart)] # None
    BY <1>1, <2>3, <2>4, <2>7, PageInRange
  <2>11. TablesTrue'
    BY <1>5, <2>3, <2>9, <2>10 DEF TablesTrue
  <2> QED
    BY <1>1, <2>3, <2>6, <2>11 DEF IInv, Progress, FramesApart, LowIdentity, LinearKernel,
       HeapPresent, LowPresent, NoFault, Used, Mapped, frames
<1> QED BY <1>4, <1>5

(* A page gets its frame; nothing is mapped away, so what was present stays. *)
LEMMA MapPageStep == IInv /\ MapPage => IInv'
<1> SUFFICES ASSUME IInv, MapPage PROVE IInv' OBVIOUS
<1> USE Layout, Order
<1>1. /\ stage \in Mapping /\ page <= last /\ page' = page + 1
      /\ UNCHANGED <<stage, last, table, entry, enabled, placement, heapEnd>>
  BY DEF MapPage
<1>2. /\ page \in Pages /\ TableOf(page) \in Tables /\ page \in Nat /\ last \in Nat
      /\ Identity => page \in LowPages /\ page < KernelBase /\ enabled
      /\ ~Identity => page >= KernelBase
      /\ stage = "kernel" => page \in KernelBase .. KernelLast
      /\ stage = "heap" => page \in HeapStart .. HeapInitialEnd
  BY <1>1, PageInRange DEF IInv, Types
<1>3. /\ pte' \in [Pages -> Nat \union {None}] /\ bits' \in SUBSET Frames /\ used' \in Int
      /\ FramesApart' /\ pte'[page] # None
      /\ \A p \in Pages : p # page => pte'[p] = pte[p]
      /\ pte[page] # None => pte' = pte
      /\ Identity /\ pte[page] = None => pte'[page] = page
      /\ stage = "kernel" /\ pte[page] = None => pte'[page] = page - KernelBase
  <2>1. CASE Present
    <3>1. UNCHANGED <<pte, frames>> /\ pte[page] # None
      BY <2>1 DEF MapPage, Present
    <3>2. pte' = pte /\ bits' = bits /\ used' = used
      BY <3>1 DEF frames
    <3>3. Used' = Used
      BY <3>2 DEF Used, Mapped
    <3>4. FramesApart'
      BY <3>2, <3>3 DEF IInv, FramesApart
    <3> QED BY <3>1, <3>2, <3>4 DEF IInv, Types
  <2>2. CASE ~Present /\ Identity
    <3>1. pte' = [pte EXCEPT ![page] = page] /\ UNCHANGED frames
      BY <2>2 DEF MapPage
    <3>2. FramesApart'
      BY <3>1, <2>2, <1>2, LowFrame DEF IInv
    <3>3. stage # "kernel"
      BY <2>2 DEF Identity
    <3> QED BY <3>1, <3>2, <3>3, <1>2, <2>2 DEF IInv, Types, None, Present, frames
  <2>3. CASE ~Present /\ ~Identity
    <3>1. PICK f \in Frames :
             /\ FirstFree(f) /\ pte' = [pte EXCEPT ![page] = f]
             /\ bits' = bits \union {f} /\ used' = used + 1
      BY <2>3 DEF MapPage
    <3>2. f \notin bits /\ f \in Nat /\ f # None
      BY <3>1 DEF FirstFree, Frames, None
    <3>3. FramesApart'
      BY <3>1, <3>2, <2>3, <1>2, FreshFrame DEF IInv, Present
    <3>4. stage = "kernel" => f = page - KernelBase
      BY <3>1, <2>3, <1>2, FirstFitIsLinear DEF Present
    <3> QED BY <3>1, <3>2, <3>3, <3>4, <1>2, <2>3 DEF IInv, Types, Present
  <2> QED BY <2>1, <2>2, <2>3
<1>4. \A p \in Pages : pte[p] # None => pte'[p] = pte[p]
  BY <1>3
<1>5. Types'
  BY <1>1, <1>2, <1>3 DEF IInv, Types
<1>6. Progress'
  BY <1>1, <1>2 DEF IInv, Progress, Types
<1>7. LowIdentity'
  <2> SUFFICES ASSUME NEW p \in Pages, p < KernelBase, pte'[p] # None
               PROVE  p \in LowPages /\ pte'[p] = p /\ enabled
    BY <1>1 DEF LowIdentity, LowPages
  <2>1. CASE pte[p] # None
    BY <2>1, <1>4 DEF IInv, LowIdentity
  <2>2. CASE pte[p] = None
    <3>1. p = page
      BY <2>2, <1>3
    <3>2. Identity
      BY <3>1, <1>2
    <3> QED BY <2>2, <3>1, <3>2, <1>2, <1>3
  <2> QED BY <2>1, <2>2
<1>8. LinearKernel'
  <2>1. ASSUME stage = "kernel", NEW p \in Pages
        PROVE  IF p \in KernelBase .. page THEN pte'[p] = p - KernelBase ELSE pte'[p] = None
    <3>1. IF p \in KernelBase .. page - 1 THEN pte[p] = p - KernelBase ELSE pte[p] = None
      BY <2>1 DEF IInv, LinearKernel
    <3>2. pte[page] = None
      BY <2>1, <1>2 DEF IInv, LinearKernel
    <3> QED BY <2>1, <3>1, <3>2, <1>2, <1>3
  <2>2. ASSUME enabled, NEW p \in KernelBase .. KernelLast
        PROVE  pte'[p] = p - KernelBase
    <3>1. p \in Pages /\ pte[p] = p - KernelBase /\ p - KernelBase # None
      BY <2>2 DEF IInv, LinearKernel, None
    <3> QED BY <3>1, <1>4
  <2>3. page' - 1 = page
    BY <1>1, <1>2
  <2> QED BY <2>1, <2>2, <2>3, <1>1 DEF LinearKernel
<1>9. TablesTrue'
  <2>1. \A i \in Tables : table[i] # None => table[i] \in Pages
    BY DEF IInv, Types
  <2> QED BY <2>1, <1>1, <1>4 DEF IInv, TablesTrue
<1>10. HeapPresent'
  <2>1. \A p \in HeapStart .. heapEnd - 1 : p \in Pages
    BY DEF IInv, Types
  <2>2. stage \in {"heap", "expand"} => \A p \in HeapStart .. page : p \in Pages
    BY <1>2, <1>1 DEF IInv, Progress
  <2>3. page' - 1 = page
    BY <1>1, <1>2
  <2>4. \A p \in HeapStart .. heapEnd - 1 : pte'[p] # None
    BY <2>1, <1>4 DEF IInv, HeapPresent
  <2>5. stage \in {"heap", "expand"} => \A p \in HeapStart .. page : pte'[p] # None
    BY <2>2, <1>2, <1>3, <1>4 DEF IInv, HeapPresent
  <2> QED BY <2>3, <2>4, <2>5, <1>1 DEF HeapPresent
<1>11. LowPresent'
  <2>1. \A p \in 1 .. LowEnd \union BiosFirst .. BiosLast : p \in Pages
    BY DEF LowPages
  <2>2. Identity => \A p \in 1 .. page : p \in Pages
    BY <1>2
  <2>3. page' - 1 = page
    BY <1>1, <1>2
  <2>4. stage = "lowmem" => \A p \in 1 .. page : pte'[p] # None
    BY <2>2, <1>2, <1>3, <1>4 DEF IInv, LowPresent, Identity
  <2>5. stage = "bios32" => \A p \in BiosFirst .. page : pte'[p] # None
    BY <2>2, <1>2, <1>3, <1>4 DEF IInv, LowPresent, Identity
  <2>6. stage \in {"bios32", "idle", "expand"} => \A p \in 1 .. LowEnd : pte'[p] # None
    BY <2>1, <1>4 DEF IInv, LowPresent
  <2>7. stage \in {"idle", "expand"} => \A p \in BiosFirst .. BiosLast : pte'[p] # None
    BY <2>1, <1>4 DEF IInv, LowPresent
  <2> QED BY <2>3, <2>4, <2>5, <2>6, <2>7, <1>1 DEF LowPresent
<1>12. NoFault'
  BY <1>1 DEF IInv, NoFault
<1> QED BY <1>3, <1>5, <1>6, <1>7, <1>8, <1>9, <1>10, <1>11, <1>12 DEF IInv

(* A state with the same tables, pages and bitmap keeps their conjuncts. *)
LEMMA SamePages ==
    ASSUME IInv, UNCHANGED <<pte, bits, used>>, enabled => enabled'
    PROVE  FramesApart' /\ LowIdentity'
<1>1. Used' = Used /\ Mapped' = Mapped
  BY DEF Used, Mapped
<1> QED BY <1>1 DEF IInv, FramesApart, LowIdentity, LowPages

LEMMA StopStep == IInv /\ (NoHole \/ OutOfFrames) => IInv'
<1> SUFFICES ASSUME IInv, NoHole \/ OutOfFrames PROVE IInv' OBVIOUS
<1>1. /\ stage' \in {"lost", "failed"}
      /\ UNCHANGED <<page, last, table, entry, pte, bits, used, enabled, placement, heapEnd>>
  BY DEF NoHole, OutOfFrames, frames
<1>2. Types'
  BY <1>1 DEF IInv, Types, Stages
<1>3. FramesApart' /\ LowIdentity'
  BY <1>1, SamePages
<1>4. LinearKernel' /\ TablesTrue' /\ HeapPresent'
  BY <1>1 DEF IInv, LinearKernel, TablesTrue, HeapPresent
<1>5. Progress' /\ LowPresent' /\ NoFault'
  BY <1>1 DEF Progress, LowPresent, NoFault
<1> QED BY <1>2, <1>3, <1>4, <1>5 DEF IInv

LEMMA EnableStep == IInv /\ Enable => IInv'
<1> SUFFICES ASSUME IInv, Enable PROVE IInv' OBVIOUS
<1> USE Layout, Order
<1>1. /\ stage = "kernel" /\ page > last /\ enabled' = TRUE
      /\ stage' = "heap" /\ page' = HeapStart /\ last' = HeapInitialEnd
      /\ UNCHANGED <<table, entry, pte, bits, used, placement, heapEnd>>
  BY DEF Enable, Done, StartRange, frames
<1>2. page = KernelLast + 1 /\ ~enabled
  BY <1>1 DEF IInv, Progress
<1>3. Types'
  BY <1>1 DEF IInv, Types, Stages, Mapping
<1>4. Progress'
  BY <1>1 DEF Progress
<1>5. FramesApart' /\ LowIdentity'
  BY <1>1, SamePages
<1>6. \A p \in KernelBase .. KernelLast : p \in Pages /\ pte[p] = p - KernelBase /\ pte[p] # None
  BY <1>1, <1>2 DEF IInv, LinearKernel, None
<1>7. LinearKernel'
  BY <1>1, <1>6 DEF LinearKernel
<1>8. TablesTrue'
  BY <1>1, <1>6 DEF IInv, TablesTrue
<1>9. HeapPresent' /\ LowPresent' /\ NoFault'
  BY <1>1 DEF IInv, HeapPresent, LowPresent, NoFault
<1> QED BY <1>3, <1>4, <1>5, <1>7, <1>8, <1>9 DEF IInv

LEMMA BootStep == IInv /\ (HeapInitialised \/ Bios32Init \/ BootDone) => IInv'
<1> SUFFICES ASSUME IInv, HeapInitialised \/ Bios32Init \/ BootDone PROVE IInv' OBVIOUS
<1> USE Layout, Order
<1>1. /\ stage \in {"heap", "lowmem", "bios32"} /\ page > last
      /\ stage' \in {"lowmem", "bios32", "idle"}
      /\ UNCHANGED <<table, entry, pte, bits, used, enabled, placement>>
  BY DEF HeapInitialised, Bios32Init, BootDone, Done, StartRange, frames
<1>2. enabled
  BY <1>1 DEF IInv, Progress
<1>3. Types'
  BY <1>1 DEF IInv, Types, Stages, Mapping, HeapInitialised, Bios32Init, BootDone, StartRange
<1>4. Progress'
  BY <1>1, <1>2 DEF Progress, HeapInitialised, Bios32Init, BootDone, StartRange
<1>5. FramesApart' /\ LowIdentity'
  BY <1>1, SamePages
<1>6. LinearKernel' /\ TablesTrue'
  BY <1>1, <1>2 DEF IInv, LinearKernel, TablesTrue
<1>7. HeapPresent'
  <2>1. CASE HeapInitialised
    <3>1. stage = "heap" /\ page > HeapInitialEnd /\ heapEnd' = HeapInitialEnd /\ stage' = "lowmem"
      BY <2>1 DEF HeapInitialised, Done, StartRange, IInv, Progress
    <3> QED BY <3>1, <1>1 DEF IInv, HeapPresent, Types
  <2>2. CASE Bios32Init \/ BootDone
    BY <2>2, <1>1 DEF IInv, HeapPresent, Bios32Init, BootDone
  <2> QED BY <2>1, <2>2
<1>8. LowPresent'
  <2>1. CASE HeapInitialised
    BY <2>1, <1>1 DEF LowPresent, HeapInitialised, StartRange
  <2>2. CASE Bios32Init
    <3>1. stage = "lowmem" /\ page > LowEnd /\ stage' = "bios32" /\ page' = BiosFirst
      BY <2>2 DEF Bios32Init, Done, StartRange, IInv, Progress
    <3> QED BY <3>1, <1>1 DEF IInv, LowPresent, Types
  <2>3. CASE BootDone
    <3>1. stage = "bios32" /\ page > BiosLast /\ stage' = "idle"
      BY <2>3 DEF BootDone, Done, IInv, Progress
    <3> QED BY <3>1, <1>1 DEF IInv, LowPresent, Types
  <2> QED BY <2>1, <2>2, <2>3
<1>9. NoFault'
  BY <1>1 DEF NoFault
<1> QED BY <1>3, <1>4, <1>5, <1>6, <1>7, <1>8, <1>9 DEF IInv

LEMMA HeapStep ==
    ASSUME IInv, NEW n \in 1 .. HeapMaxEnd, Expand(n) \/ Expanded \/ Contract(n)
    PROVE  IInv'
<1> USE Layout, Order
<1>1. UNCHANGED <<table, entry, pte, bits, used, enabled, placement>>
  <2>1. CASE Expand(n) \/ Expanded
    BY <2>1 DEF Expand, Expanded, frames
  <2>2. CASE Contract(n)
    BY <2>2, ContractFreesNothing DEF Contract
  <2> QED BY <2>1, <2>2
<1>2. stage \in {"idle", "expand"} /\ stage' \in {"idle", "expand"}
  BY DEF Expand, Expanded, Contract, StartRange, Done, range
<1>3. enabled
  BY <1>2 DEF IInv, Progress
<1>4. FramesApart' /\ LowIdentity'
  BY <1>1, SamePages
<1>5. LinearKernel' /\ TablesTrue'
  BY <1>1, <1>2, <1>3 DEF IInv, LinearKernel, TablesTrue
<1>6. LowPresent' /\ NoFault'
  BY <1>1, <1>2 DEF IInv, LowPresent, NoFault
<1>7. Types' /\ Progress' /\ HeapPresent'
  <2>1. CASE Expand(n)
    <3>1. /\ stage = "idle" /\ heapEnd + n <= HeapMaxEnd /\ heapEnd' = heapEnd
          /\ stage' = "expand" /\ page' = heapEnd /\ last' = heapEnd + n
      BY <2>1 DEF Expand, StartRange
    <3>2. Types'
      BY <1>1, <3>1 DEF IInv, Types, Stages, Mapping
    <3>3. Progress' /\ HeapPresent'
      BY <1>1, <1>3, <3>1 DEF IInv, Types, Progress, HeapPresent
    <3> QED BY <3>2, <3>3
  <2>2. CASE Expanded
    <3>1. /\ stage = "expand" /\ page > last /\ heapEnd' = last
          /\ stage' = "idle" /\ page' = page /\ last' = last
      BY <2>2 DEF Expanded, Done
    <3>2. Types'
      BY <1>1, <3>1 DEF IInv, Types, Stages, Mapping, Progress
    <3>3. Progress' /\ HeapPresent'
      BY <1>1, <1>3, <3>1 DEF IInv, Types, Progress, HeapPresent
    <3> QED BY <3>2, <3>3
  <2>3. CASE Contract(n)
    <3>1. /\ stage = "idle" /\ HeapFirst + n < heapEnd /\ heapEnd' = HeapFirst + n
          /\ stage' = stage /\ page' = page /\ last' = last
      BY <2>3 DEF Contract, range
    <3>2. Types'
      BY <1>1, <3>1 DEF IInv, Types
    <3>3. Progress' /\ HeapPresent'
      BY <1>1, <1>3, <3>1 DEF IInv, Types, Progress, HeapPresent
    <3> QED BY <3>2, <3>3
  <2> QED BY <2>1, <2>2, <2>3
<1> QED BY <1>4, <1>5, <1>6, <1>7 DEF IInv

LEMMA StepIInv == IInv /\ [Next]_vars => IInv'
<1> SUFFICES ASSUME IInv, [Next]_vars PROVE IInv' OBVIOUS
<1>1. CASE AllocatePage
  BY <1>1, MakeTableStep, MapPageStep, StopStep DEF AllocatePage
<1>2. CASE Boot
  BY <1>2, EnableStep, BootStep DEF Boot
<1>3. CASE Expanded
  <2>1. HeapMaxEnd >= 1
    BY Layout, Order
  <2> QED BY <1>3, <2>1, HeapStep, Layout
<1>4. CASE \E n \in 1 .. HeapMaxEnd : Expand(n) \/ Contract(n)
  BY <1>4, HeapStep
<1>5. CASE UNCHANGED vars
  <2>1. UNCHANGED <<stage, page, last, table, entry, pte, bits, used, enabled, placement, heapEnd>>
    BY <1>5 DEF vars, range, frames
  <2>2. FramesApart' /\ LowIdentity'
    BY <2>1, SamePages
  <2> QED BY <2>1, <2>2 DEF IInv, Types, Progress, LinearKernel, TablesTrue, HeapPresent,
        LowPresent, NoFault
<1> QED BY <1>1, <1>2, <1>3, <1>4, <1>5 DEF Next

LEMMA Inductive == Spec => []IInv
BY InitIInv, StepIInv, PTL DEF Spec

-----------------------------------------------------------------------------
(* A frame backs one page, low memory's double view of the kernel apart,   *)
(* whatever the sizes of memory, image and heap.                           *)
THEOREM FramesExclusive == Spec => []FrameOnce
<1>1. IInv => FrameOnce
  <2> SUFFICES ASSUME IInv, NEW p \in Mapped, NEW q \in Mapped, p < q, pte[p] = pte[q]
               PROVE  p \in LowPages /\ q = p + KernelBase
    BY DEF FrameOnce
  <2> USE Layout, Order
  <2>1. p \in Pages /\ q \in Pages /\ p \in Nat /\ q \in Nat /\ pte[p] # None /\ pte[q] # None
    BY DEF Mapped
  <2>2. q >= KernelBase
    BY <2>1 DEF IInv, LowIdentity
  <2>3. p < KernelBase
    BY <2>1, <2>2 DEF IInv, FramesApart, Used
  <2>4. p \in LowPages /\ pte[p] = p /\ enabled
    BY <2>1, <2>3 DEF IInv, LowIdentity
  <2>5. KernelBase + p \in KernelBase .. KernelLast /\ KernelBase + p \in Pages
    BY <2>1, <2>4 DEF LowPages
  <2>6. pte[KernelBase + p] = p
    BY <2>1, <2>4, <2>5 DEF IInv, LinearKernel
  <2>7. KernelBase + p \in Used /\ q \in Used
    BY <2>1, <2>2, <2>5, <2>6 DEF Used, Mapped, None
  <2>8. q = KernelBase + p
    BY <2>4, <2>6, <2>7 DEF IInv, FramesApart
  <2> QED BY <2>1, <2>4, <2>8
<1> QED BY <1>1, Inductive, PTL

(* The bitmap marks the frames of the mapped pages and block_used counts   *)
(* them, although contract calls free_page on pages that are not its own.  *)
THEOREM BitmapTrue == Spec => []BitmapAgrees
<1>1. IInv => BitmapAgrees
  BY DEF IInv, FramesApart, BitmapAgrees
<1> QED BY <1>1, Inductive, PTL

(* The directory names the frames of its tables, whether they came from    *)
(* the bootstrap heap before or after paging was on, or from the heap.     *)
THEOREM DirectoryCorrect == Spec => []DirectoryTrue
<1>1. IInv => DirectoryTrue
  BY DEF IInv, TablesTrue, DirectoryTrue
<1> QED BY <1>1, Inductive, PTL

(* No page table is cleared in memory that is not mapped. *)
THEOREM TablesMapped == Spec => []NoFault
<1>1. IInv => NoFault
  BY DEF IInv
<1> QED BY <1>1, Inductive, PTL

(* The heap covers mapped pages only, at every moment. *)
THEOREM HeapBacked == Spec => []HeapMapped
<1>1. IInv => HeapMapped
  BY DEF IInv, HeapPresent, HeapMapped
<1> QED BY <1>1, Inductive, PTL

(* Low memory stays mapped to itself, whatever the heap does. *)
THEOREM LowMemoryStays == Spec => []LowStays
<1>1. IInv => LowStays
  <2> SUFFICES ASSUME IInv, stage \in {"idle", "expand"}, NEW p \in LowPages PROVE pte[p] = p
    BY DEF LowStays
  <2>1. p \in Pages /\ p < KernelBase
    BY Layout, Order DEF LowPages
  <2>2. pte[p] # None
    BY DEF IInv, LowPresent, LowPages
  <2> QED BY <2>1, <2>2 DEF IInv, LowIdentity
<1> QED BY <1>1, Inductive, PTL

(* Both together: what the kernel goes on using stays mapped.              *)
THEOREM PagesHeld == Spec => []PagesStay
<1>1. HeapMapped /\ LowStays => PagesStay
  BY DEF PagesStay
<1> QED BY <1>1, HeapBacked, LowMemoryStays, PTL
-----------------------------------------------------------------------------
(* Tasks. *)

TaskStates == {"STOPPED", "CREATED", "RUNNING", "SLEEPING", "ZOMBIE"}
AllocationTable == [Entries -> [address : Blocks \union {NULL}, size : {0, 1}]]
Heaps == Slots \union {Kernel}
Task == [state : TaskStates, mode : {"KTHREAD", "PROCESS", "THREAD"},
         parent : Slots \union {NULL}, heap : Heaps \union {NULL},
         stackptr : Blocks \union {NULL}, argv : SUBSET Blocks, table : AllocationTable]

TaskTypes ==
    /\ task \in [Slots -> Task]
    /\ task_count \in Int /\ origin \in [Blocks -> Heaps \union {NULL}]
    /\ cleaner \in [pc : {"idle", "free", "clear", "reset"}, pid : Nat, entry : Nat]
    /\ failed \in SUBSET Slots /\ asleep \in SUBSET Slots
    /\ held \in [Slots -> SUBSET Blocks]
    /\ missed \in SUBSET Slots /\ gone \in SUBSET Slots

(* What the state of a slot says of the rest of it. *)
SlotsTrue ==
    /\ \A s \in Slots : task[s].state = "STOPPED" =>
          task[s] = Stopped /\ held[s] = {} /\ s \notin gone
    /\ \A s \in Slots : task[s].parent # NULL => task[s].mode = "THREAD"
    /\ \A s \in Slots : task[s].mode = "PROCESS" => task[s].heap = s
    /\ \A s \in Slots : task[s].state # "STOPPED" /\ s \notin failed => task[s].heap # NULL
    /\ \A s \in gone : held[s] = {}
    /\ \A s \in failed : task[s].state = "CREATED" /\ task[s].mode = "KTHREAD"
    /\ \A s \in asleep : task[s].state \in {"SLEEPING", "ZOMBIE"}

(* An entry with an address has a size, so that cleanup comes to it, and   *)
(* no other entry has that address.                                        *)
SoundTable(tab) ==
    /\ \A e \in Entries : tab[e].address # NULL => tab[e].size = 1
    /\ \A d, e \in Entries :
          d # e /\ tab[d].address # NULL => tab[d].address # tab[e].address

TablesSound == \A s \in Slots : s \notin gone => SoundTable(task[s].table)

BeingCleaned(s) == cleaner.pc # "idle" /\ cleaner.pid = s

(* The task being cleaned up does not run and has no thread that can, but  *)
(* those that were missed.                                                 *)
CleanerTrue ==
    cleaner.pc # "idle" =>
        /\ cleaner.pid \in Slots
        /\ task[cleaner.pid].state = "ZOMBIE" /\ cleaner.pid \notin asleep
        /\ cleaner.pc = "clear" =>
              /\ cleaner.entry \in Entries
              /\ task[cleaner.pid].table[cleaner.entry].address # NULL
        /\ cleaner.pc = "reset" => Owns(cleaner.pid) = {}
        /\ \A c \in Slots : task[c].parent = cleaner.pid =>
              c \in missed \/ (task[c].state \in {"ZOMBIE", "STOPPED"} /\ c \notin asleep)

(* What a task holds: it may free it, so nobody else may lead to it. *)
HeldApart ==
    \A s \in Slots : ~BeingCleaned(s) =>
        /\ held[s] \subseteq allocated
        /\ Owns(s) \subseteq held[s]
        /\ held[s] \intersect Given(s) = {}
        /\ \A c \in Slots : c # s =>
              /\ held[s] \intersect References(c) = {}
              /\ ~BeingCleaned(c) => held[s] \intersect held[c] = {}

(* Stacks and arguments come from the heap of the kernel, the rest from    *)
(* the heap of the task, so giving that back takes nothing from others.    *)
OriginTrue ==
    \A s \in Slots :
        /\ \A b \in Given(s) : origin[b] = Kernel
        /\ \A b \in Owns(s) : origin[b] = task[s].heap
        /\ ~BeingCleaned(s) => \A b \in held[s] : origin[b] = task[s].heap

(* The part of OneOwner that is about sets of blocks. *)
Apart ==
    /\ \A s \in Slots : References(s) \subseteq allocated
    /\ \A s, c \in Slots : s # c => References(s) \intersect References(c) = {}
    /\ \A s \in Slots : /\ task[s].stackptr \notin task[s].argv
                        /\ Given(s) \intersect Owns(s) = {}

(* Every allocated block is led to or forgotten; and all that is said of   *)
(* who owns what.                                                          *)
Covered == allocated \subseteq forgotten \union UNION {References(s) : s \in Slots}

Owned == TablesSound /\ HeldApart /\ OriginTrue /\ Apart /\ Covered

-----------------------------------------------------------------------------
(* The operators of Tasks. *)

LEMMA FirstMember ==
    ASSUME NEW S \in SUBSET Nat, S # {}
    PROVE  Min(S) \in S /\ \A k \in S : Min(S) <= k
<1>1. \E n \in S : \A k \in S : n <= k
  <2>1. PICK n \in S : \A k \in S : ~<<k, n>> \in OpToRel(<, Nat)
    BY NatLessThanWellFounded, WFMin
  <2>2. \A k \in S : ~(k < n)
    BY <2>1 DEF OpToRel
  <2> QED BY <2>2
<1> QED BY <1>1 DEF Min

(* A new entry makes a table list that address, or leaves it as it was. *)
LEMMA TableAdd ==
    ASSUME NEW tab \in AllocationTable, SoundTable(tab),
           NEW b \in Blocks \union {NULL}, b \notin Listed(tab)
    PROVE  /\ Add(tab, b) \in AllocationTable
           /\ SoundTable(Add(tab, b))
           /\ Listed(tab) \subseteq Listed(Add(tab, b))
           /\ Listed(Add(tab, b)) \subseteq Listed(tab) \union ({b} \ {NULL})
<1> DEFINE free == {e \in Entries : tab[e] = FreeEntry}
           n == Min(free)
<1>1. CASE free = {}
  BY <1>1 DEF Add
<1>2. CASE free # {}
  <2>1. n \in Entries /\ tab[n] = FreeEntry
    BY <1>2, FirstMember, TasksAssumption DEF Entries
  <2>2. Add(tab, b) = [tab EXCEPT ![n] = [address |-> b, size |-> 1]]
    BY <1>2 DEF Add
  <2> HIDE DEF n
  <2> DEFINE new == Add(tab, b)
  <2>3. /\ new \in AllocationTable /\ new[n] = [address |-> b, size |-> 1]
        /\ \A e \in Entries : e # n => new[e] = tab[e]
    BY <2>1, <2>2 DEF AllocationTable
  <2>4. tab[n].address = NULL
    BY <2>1 DEF FreeEntry
  <2>5. \A e \in Entries : tab[e].address # b \/ b = NULL
    BY DEF Listed
  <2> HIDE DEF new
  <2>6. SoundTable(new)
    BY <2>1, <2>3, <2>4, <2>5 DEF SoundTable
  <2>7. Listed(tab) \subseteq Listed(new)
    BY <2>1, <2>3, <2>4 DEF Listed
  <2>8. Listed(new) \subseteq Listed(tab) \union ({b} \ {NULL})
    BY <2>1, <2>3, <2>4 DEF Listed
  <2> QED BY <2>3, <2>6, <2>7, <2>8 DEF new
<1> QED BY <1>1, <1>2

(* An entry that is cleared takes its address out of the table. *)
LEMMA TableClear ==
    ASSUME NEW tab \in AllocationTable, SoundTable(tab), NEW n \in Entries,
           NEW new, new = [tab EXCEPT ![n] = FreeEntry]
    PROVE  /\ new \in AllocationTable /\ SoundTable(new)
           /\ Listed(new) = Listed(tab) \ {tab[n].address}
<1>1. /\ new \in AllocationTable /\ new[n] = FreeEntry /\ new[n].address = NULL
      /\ \A e \in Entries : e # n => new[e] = tab[e]
  BY DEF AllocationTable, FreeEntry
<1>2. SoundTable(new)
  BY <1>1 DEF SoundTable
<1>3. \A e \in Entries : e # n /\ tab[e].address # NULL => tab[e].address # tab[n].address
  BY DEF SoundTable
<1>4. Listed(new) \subseteq Listed(tab) \ {tab[n].address}
  BY <1>1, <1>3 DEF Listed
<1>5. Listed(tab) \ {tab[n].address} \subseteq Listed(new)
  BY <1>1 DEF Listed
<1> QED BY <1>1, <1>2, <1>4, <1>5

(* Removing an address, NULL too, leaves a table without it. *)
LEMMA TableRemove ==
    ASSUME NEW tab \in AllocationTable, SoundTable(tab), NEW b \in Blocks \union {NULL}
    PROVE  /\ Remove(tab, b) \in AllocationTable
           /\ SoundTable(Remove(tab, b))
           /\ Listed(Remove(tab, b)) = Listed(tab) \ {b}
<1> DEFINE same == {e \in Entries : tab[e].address = b}
           n == Min(same)
<1>1. CASE same = {}
  <2>1. b \notin Listed(tab)
    BY <1>1 DEF Listed
  <2> QED BY <1>1, <2>1 DEF Remove
<1>2. CASE same # {}
  <2>1. n \in Entries /\ tab[n].address = b
    BY <1>2, FirstMember, TasksAssumption DEF Entries
  <2>2. Remove(tab, b) = [tab EXCEPT ![n] = FreeEntry]
    BY <1>2 DEF Remove
  <2> HIDE DEF n
  <2> QED BY <2>1, <2>2, TableClear
<1> QED BY <1>1, <1>2
-----------------------------------------------------------------------------
(* The heaps. *)

LEMMA Names == /\ NULL \notin Blocks /\ NULL \notin Heaps /\ Kernel \notin Slots
               /\ Slots \subseteq Nat /\ Entries \subseteq Nat
BY TasksAssumption DEF Heaps, Slots, Kernel, Entries

LEMMA TakeGives ==
    ASSUME TaskTypes, NEW S \in SUBSET Blocks, NEW h \in Heaps, Take(S, h)
    PROVE  /\ origin' \in [Blocks -> Heaps \union {NULL}]
           /\ allocated' = allocated \union S
           /\ \A b \in S : origin'[b] = h
           /\ \A b \in Blocks : b \notin S => origin'[b] = origin[b]
BY Names DEF TaskTypes, Take, allocated

LEMMA GiveBackGives ==
    ASSUME TaskTypes, NEW S, GiveBack(S)
    PROVE  /\ origin' \in [Blocks -> Heaps \union {NULL}]
           /\ allocated' = allocated \ S
           /\ \A b \in Blocks : b \notin S => origin'[b] = origin[b]
BY Names DEF TaskTypes, Take, GiveBack, allocated

(* A step leaves what the task leads to alone. *)
Same(s) ==
    /\ task'[s].stackptr = task[s].stackptr /\ task'[s].argv = task[s].argv
    /\ task'[s].table = task[s].table

LEMMA SlotTypes ==
    ASSUME TaskTypes, NEW s \in Slots
    PROVE  /\ task[s] \in Task /\ task[s].table \in AllocationTable
           /\ task[s].stackptr \in Blocks \union {NULL} /\ task[s].argv \subseteq Blocks
           /\ task[s].state \in TaskStates
           /\ NULL \notin References(s) /\ References(s) = Given(s) \union Owns(s)
           /\ Owns(s) \subseteq Listed(task[s].table) /\ References(s) \subseteq Blocks
<1>1. /\ task[s] \in Task /\ task[s].table \in AllocationTable
      /\ task[s].stackptr \in Blocks \union {NULL} /\ task[s].argv \subseteq Blocks
      /\ task[s].state \in TaskStates
  BY DEF TaskTypes, Task
<1>2. Owns(s) \subseteq Listed(task[s].table)
  BY DEF Owns, Live, Listed
<1>3. Listed(task[s].table) \subseteq Blocks
  BY <1>1 DEF Listed, AllocationTable
<1> QED BY <1>1, <1>2, <1>3, Names DEF References, Given

(* Away from the cleaner a table stands for all it lists. *)
LEMMA OwnsListed ==
    ASSUME NEW s \in Slots, s \notin gone, cleaner.pc = "clear" => cleaner.pid # s
    PROVE  Owns(s) = Listed(task[s].table)
<1>1. Live(s) = {e \in Entries : task[s].table[e].address # NULL}
  BY DEF Live, Freed
<1> QED BY <1>1 DEF Owns, Listed

LEMMA OwnsNothing ==
    ASSUME NEW s \in gone
    PROVE  Owns(s) = {}
BY DEF Owns, Live

LEMMA SameReferences ==
    ASSUME NEW s, Same(s), s \in gone' <=> s \in gone,
           \A e \in Entries : Freed(s, e)' <=> Freed(s, e)
    PROVE  /\ References(s)' = References(s) /\ Given(s)' = Given(s) /\ Owns(s)' = Owns(s)
<1>1. Given(s)' = Given(s)
  BY DEF Same, Given
<1>2. Live(s)' = Live(s)
  BY DEF Same, Live
<1>3. Owns(s)' = Owns(s)
  BY <1>2 DEF Same, Owns
<1> QED BY <1>1, <1>3 DEF References

(* A step that takes the blocks X out of what is allocated, and from all   *)
(* that lead to them.                                                      *)
Shrinks(X) ==
    /\ allocated' = allocated \ X
    /\ \A b \in Blocks : b \notin X => origin'[b] = origin[b]
    /\ \A c \in Slots :
          /\ Given(c)' \subseteq Given(c) \ X /\ Owns(c)' \subseteq Owns(c) \ X
          /\ task'[c].stackptr \notin task'[c].argv
          /\ task'[c].heap = task[c].heap \/ (Owns(c)' = {} /\ held'[c] = {})
          /\ ~BeingCleaned(c)' =>
                /\ held'[c] \intersect X = {} /\ Owns(c)' \subseteq held'[c]
                /\ held'[c] = {} \/ (~BeingCleaned(c) /\ held'[c] \subseteq held[c])

LEMMA ShrunkOwned ==
    ASSUME TaskTypes, Owned, NEW X, Shrinks(X), TablesSound', Covered'
    PROVE  Owned'
<1>1. \A c \in Slots : /\ Given(c)' \subseteq Given(c) \ X /\ Owns(c)' \subseteq Owns(c) \ X
                       /\ References(c)' = Given(c)' \union Owns(c)'
                       /\ References(c) = Given(c) \union Owns(c)
  BY DEF Shrinks, References
<1>2. \A c \in Slots : /\ References(c)' \subseteq References(c) \ X
                       /\ References(c) \subseteq Blocks
  BY <1>1, SlotTypes
<1>3. HeldApart'
  <2>1. ASSUME NEW s \in Slots, ~BeingCleaned(s)'
        PROVE  /\ held'[s] \subseteq allocated' /\ Owns(s)' \subseteq held'[s]
               /\ held'[s] \intersect Given(s)' = {}
    BY <2>1, <1>1 DEF Owned, HeldApart, Shrinks
  <2>2. ASSUME NEW s \in Slots, NEW c \in Slots, c # s, ~BeingCleaned(s)'
        PROVE  /\ held'[s] \intersect References(c)' = {}
               /\ ~BeingCleaned(c)' => held'[s] \intersect held'[c] = {}
    <3>1. CASE held'[s] = {}
      BY <3>1
    <3>2. CASE held'[s] # {}
      <4>1. ~BeingCleaned(s) /\ held'[s] \subseteq held[s]
        BY <2>2, <3>2 DEF Shrinks
      <4>2. held[s] \intersect References(c) = {}
        BY <2>2, <4>1 DEF Owned, HeldApart
      <4>3. ~BeingCleaned(c)' =>
                held'[c] = {} \/ (~BeingCleaned(c) /\ held'[c] \subseteq held[c])
        BY DEF Shrinks
      <4>4. ~BeingCleaned(c) => held[s] \intersect held[c] = {}
        BY <2>2, <4>1 DEF Owned, HeldApart
      <4> QED BY <1>2, <4>1, <4>2, <4>3, <4>4
    <3> QED BY <3>1, <3>2
  <2> QED BY <2>1, <2>2 DEF HeldApart
<1>4. OriginTrue'
  <2> SUFFICES ASSUME NEW s \in Slots
               PROVE  /\ \A b \in Given(s)' : origin'[b] = Kernel
                      /\ \A b \in Owns(s)' : origin'[b] = task'[s].heap
                      /\ ~BeingCleaned(s)' => \A b \in held'[s] : origin'[b] = task'[s].heap
    BY DEF OriginTrue
  <2>1. /\ \A b \in Given(s) : origin[b] = Kernel
        /\ \A b \in Owns(s) : origin[b] = task[s].heap
        /\ ~BeingCleaned(s) => \A b \in held[s] : origin[b] = task[s].heap
    BY DEF Owned, OriginTrue
  <2>2. Given(s) \subseteq Blocks /\ Owns(s) \subseteq Blocks /\ held[s] \subseteq Blocks
    BY <1>1, <1>2 DEF TaskTypes
  <2>3. \A b \in Given(s)' : origin'[b] = Kernel
    BY <1>1, <2>1, <2>2 DEF Shrinks
  <2>4. \A b \in Owns(s)' : origin'[b] = task'[s].heap
    BY <1>1, <2>1, <2>2 DEF Shrinks
  <2>5. ~BeingCleaned(s)' => \A b \in held'[s] : origin'[b] = task'[s].heap
    BY <2>1, <2>2 DEF Shrinks
  <2> QED BY <2>3, <2>4, <2>5
<1>5. Apart'
  <2>1. \A s \in Slots : References(s)' \subseteq allocated'
    BY <1>2 DEF Owned, Apart, Shrinks
  <2>2. \A s, c \in Slots : s # c => References(s)' \intersect References(c)' = {}
    BY <1>2 DEF Owned, Apart
  <2>3. \A s \in Slots : /\ task'[s].stackptr \notin task'[s].argv
                        /\ Given(s)' \intersect Owns(s)' = {}
    BY <1>1 DEF Owned, Apart, Shrinks
  <2> QED BY <2>1, <2>2, <2>3 DEF Apart
<1> QED BY <1>3, <1>4, <1>5 DEF Owned

(* A step that leaves stacks, arguments and tables alone. *)
LEMMA StillOwned ==
    ASSUME TaskTypes, Owned, UNCHANGED <<origin, forgotten, held, gone>>,
           \A s \in Slots : Same(s) /\ task'[s].heap = task[s].heap,
           \A s \in Slots : BeingCleaned(s) => BeingCleaned(s)',
           cleaner.pc = "clear" <=> cleaner'.pc = "clear",
           cleaner.pc = "clear" => cleaner' = cleaner
    PROVE  Owned'
<1>1. \A s \in Slots : /\ References(s)' = References(s) /\ Given(s)' = Given(s)
                       /\ Owns(s)' = Owns(s)
  <2>1. \A s \in Slots, e \in Entries : Freed(s, e)' <=> Freed(s, e)
    BY DEF Freed
  <2> QED BY <2>1, SameReferences
<1>2. TablesSound'
  BY DEF Owned, TablesSound, SoundTable, Same
<1>3. allocated' = allocated
  BY DEF allocated
<1>4. Covered'
  BY <1>1, <1>3 DEF Owned, Covered
<1>5. Shrinks({})
  BY <1>1, <1>3 DEF Owned, Apart, HeldApart, Same, Shrinks
<1> QED BY <1>2, <1>4, <1>5, ShrunkOwned

(* A new task gets blocks that nobody has. *)
LEMMA NewOwned ==
    ASSUME TaskTypes, Owned, NEW s \in Slots, task[s] = Stopped, held[s] = {}, s \notin gone,
           BeingCleaned(s) => FALSE,
           NEW stack \in (Blocks \ allocated) \union {NULL},
           NEW rest \in SUBSET (Blocks \ allocated), stack \notin rest,
           task'[s].stackptr = stack, task'[s].argv = rest, task'[s].table = task[s].table,
           \A c \in Slots : c # s => Same(c) /\ task'[c].heap = task[c].heap,
           Take(rest \union ({stack} \ {NULL}), Kernel),
           gone' = gone \/ gone' = gone \union {s},
           UNCHANGED <<forgotten, held, cleaner>>
    PROVE  Owned'
<1> DEFINE new == ({stack} \ {NULL}) \union rest
<1>1. /\ new \subseteq Blocks /\ new \intersect allocated = {}
      /\ rest \union ({stack} \ {NULL}) = new
  BY DEF allocated
<1>2. /\ origin' \in [Blocks -> Heaps \union {NULL}]
      /\ allocated' = allocated \union new
      /\ \A b \in new : origin'[b] = Kernel
      /\ \A b \in Blocks : b \notin new => origin'[b] = origin[b]
  <2>1. Kernel \in Heaps /\ Take(new, Kernel)
    BY <1>1 DEF Heaps
  <2> HIDE DEF new
  <2> QED BY <1>1, <2>1, TakeGives
<1>3. \A c \in Slots : c # s => /\ References(c)' = References(c) /\ Given(c)' = Given(c)
                                /\ Owns(c)' = Owns(c)
  <2>1. \A c \in Slots, e \in Entries : Freed(c, e)' <=> Freed(c, e)
    BY DEF Freed
  <2> QED BY <2>1, SameReferences
<1>4. \A e \in Entries : task[s].table[e].address = NULL
  BY DEF Stopped, FreeEntry
<1>5. Owns(s)' = {} /\ Owns(s) = {} /\ Given(s) = {}
  BY <1>4 DEF Owns, Live, Given, Stopped
<1>6. Given(s)' = new /\ References(s)' = new /\ References(s) = {}
  BY <1>5 DEF Given, References
<1>7. \A c \in Slots : BeingCleaned(c)' = BeingCleaned(c)
  BY DEF BeingCleaned
<1>8. \A c \in Slots : /\ References(c) \subseteq allocated
                       /\ References(c) = Given(c) \union Owns(c)
  BY DEF Owned, Apart, References
<1> HIDE DEF new
<1>9. TablesSound'
  <2>1. SoundTable(task[s].table)
    BY <1>4 DEF SoundTable
  <2> QED BY <2>1 DEF Owned, TablesSound, Same
<1>10. HeldApart'
  <2>1. ASSUME NEW c \in Slots, ~BeingCleaned(c)'
        PROVE  /\ held'[c] \subseteq allocated' /\ Owns(c)' \subseteq held'[c]
               /\ held'[c] \intersect Given(c)' = {}
    BY <2>1, <1>2, <1>3, <1>5, <1>6, <1>7 DEF Owned, HeldApart
  <2>2. ASSUME NEW c \in Slots, NEW d \in Slots, c # d, ~BeingCleaned(c)'
        PROVE  /\ held'[c] \intersect References(d)' = {}
               /\ ~BeingCleaned(d)' => held'[c] \intersect held'[d] = {}
    <3>1. held[c] \subseteq allocated /\ held[c] \intersect References(d) = {}
      BY <2>2, <1>7 DEF Owned, HeldApart
    <3> QED BY <3>1, <2>2, <1>1, <1>3, <1>6, <1>7 DEF Owned, HeldApart
  <2> QED BY <2>1, <2>2 DEF HeldApart
<1>11. OriginTrue'
  <2> SUFFICES ASSUME NEW c \in Slots
               PROVE  /\ \A b \in Given(c)' : origin'[b] = Kernel
                      /\ \A b \in Owns(c)' : origin'[b] = task'[c].heap
                      /\ ~BeingCleaned(c)' => \A b \in held'[c] : origin'[b] = task'[c].heap
    BY DEF OriginTrue
  <2>1. CASE c = s
    BY <2>1, <1>2, <1>5, <1>6
  <2>2. CASE c # s
    <3>1. \A b \in References(c) : origin'[b] = origin[b]
      BY <1>1, <1>2, <1>8 DEF allocated
    <3>2. ~BeingCleaned(c) => \A b \in held[c] : origin'[b] = origin[b]
      BY <1>1, <1>2 DEF Owned, HeldApart, allocated
    <3> QED BY <3>1, <3>2, <2>2, <1>3, <1>7, <1>8 DEF Owned, OriginTrue
  <2> QED BY <2>1, <2>2
<1>12. Apart'
  <2>1. \A c \in Slots : References(c)' \subseteq allocated'
    BY <1>2, <1>3, <1>6, <1>8
  <2>2. \A c, d \in Slots : c # d => References(c)' \intersect References(d)' = {}
    <3>1. \A c, d \in Slots : c # d => References(c) \intersect References(d) = {}
      BY DEF Owned, Apart
    <3> QED BY <3>1, <1>1, <1>3, <1>6, <1>8
  <2>3. \A c \in Slots : /\ task'[c].stackptr \notin task'[c].argv
                        /\ Given(c)' \intersect Owns(c)' = {}
    BY <1>3, <1>5 DEF Owned, Apart, Same
  <2> QED BY <2>1, <2>2, <2>3 DEF Apart
<1>13. Covered'
  <2> SUFFICES ASSUME NEW a \in allocated', a \notin forgotten'
               PROVE  \E c \in Slots : a \in References(c)'
    BY DEF Covered
  <2>1. CASE a \in new
    BY <2>1, <1>6
  <2>2. CASE a \in allocated
    <3>1. PICK c \in Slots : a \in References(c)
      BY <2>2 DEF Owned, Covered
    <3> QED BY <3>1, <1>3, <1>6
  <2> QED BY <2>1, <2>2, <1>2
<1> QED BY <1>9, <1>10, <1>11, <1>12, <1>13 DEF Owned

(* A malloc of a task whose heap is there: a new block, or none, is        *)
(* entered in its table, or dropped.                                       *)
LEMMA MallocOwned ==
    ASSUME TaskTypes, SlotsTrue, Owned, CleanerTrue, NEW s \in Slots, s \notin gone,
           NEW b \in Blocks \union {NULL}, syscall_malloc(s, b)
    PROVE  Owned' /\ origin' \in [Blocks -> Heaps \union {NULL}]
<1> DEFINE old == task[s].table
           tab == Add(old, b)
           new == {b} \ {NULL}
<1>1. /\ task[s].state = "RUNNING" /\ b \notin allocated
      /\ task' = [task EXCEPT ![s].table = tab]
      /\ Take(new, task[s].heap)
      /\ forgotten' = forgotten \union (new \ Listed(tab))
      /\ held' = [held EXCEPT ![s] = @ \union new]
      /\ cleaner' = cleaner /\ gone' = gone
  BY DEF syscall_malloc
<1>2. ~BeingCleaned(s) /\ (cleaner.pc = "clear" => cleaner.pid # s) /\ s \notin failed
  BY <1>1 DEF CleanerTrue, SlotsTrue, BeingCleaned
<1>3. /\ old \in AllocationTable /\ task[s].heap \in Heaps
      /\ References(s) = Given(s) \union Owns(s) /\ Owns(s) = Listed(old)
  BY <1>1, <1>2, SlotTypes, OwnsListed DEF SlotsTrue, Task
<1>4. new \subseteq Blocks /\ new \intersect allocated = {}
  BY <1>1
<1>5. /\ origin' \in [Blocks -> Heaps \union {NULL}]
      /\ allocated' = allocated \union new
      /\ \A a \in new : origin'[a] = task[s].heap
      /\ \A a \in Blocks : a \notin new => origin'[a] = origin[a]
  <2> HIDE DEF new
  <2> QED BY <1>1, <1>3, <1>4, TakeGives
<1>6. \A c \in Slots : /\ References(c) \subseteq allocated
                       /\ References(c) = Given(c) \union Owns(c)
  BY DEF Owned, Apart, References
<1>7. SoundTable(old) /\ b \notin Listed(old)
  BY <1>1, <1>3, <1>6 DEF Owned, TablesSound
<1>8. /\ tab \in AllocationTable /\ SoundTable(tab)
      /\ Listed(old) \subseteq Listed(tab) /\ Listed(tab) \subseteq Listed(old) \union new
  BY <1>3, <1>7, TableAdd
<1> HIDE DEF tab, old
<1>9. /\ task'[s].table = tab /\ task'[s].stackptr = task[s].stackptr
      /\ task'[s].argv = task[s].argv
      /\ \A c \in Slots : task'[c].heap = task[c].heap /\ (c # s => Same(c))
  BY <1>1 DEF TaskTypes, Task, Same
<1>10. \A c \in Slots : c # s => /\ References(c)' = References(c) /\ Given(c)' = Given(c)
                                 /\ Owns(c)' = Owns(c)
  <2>1. \A c \in Slots, e \in Entries : Freed(c, e)' <=> Freed(c, e)
    BY <1>1 DEF Freed
  <2> QED BY <2>1, <1>1, <1>9, SameReferences
<1>11. /\ Given(s)' = Given(s) /\ Owns(s)' = Listed(tab)
       /\ References(s)' = Given(s) \union Listed(tab)
  <2>1. Live(s)' = {e \in Entries : tab[e].address # NULL}
    BY <1>1, <1>2, <1>9 DEF Live, Freed
  <2>2. Owns(s)' = Listed(tab)
    BY <2>1, <1>9 DEF Owns, Listed
  <2>3. Given(s)' = Given(s)
    BY <1>9 DEF Given
  <2> QED BY <2>2, <2>3 DEF References
<1>12. /\ held'[s] = held[s] \union new /\ \A c \in Slots : c # s => held'[c] = held[c]
       /\ \A c \in Slots : BeingCleaned(c)' = BeingCleaned(c)
  BY <1>1 DEF TaskTypes, BeingCleaned
<1>13. \A c \in Slots : /\ Given(c)' = Given(c) /\ Owns(c)' \subseteq Owns(c) \union new
                        /\ c # s => Owns(c)' = Owns(c)
  BY <1>3, <1>8, <1>10, <1>11
<1>14. TablesSound'
  BY <1>1, <1>8, <1>9 DEF Owned, TablesSound, Same
<1> HIDE DEF new
<1>15. HeldApart'
  <2>1. ASSUME NEW c \in Slots, ~BeingCleaned(c)'
        PROVE  /\ held'[c] \subseteq allocated' /\ Owns(c)' \subseteq held'[c]
               /\ held'[c] \intersect Given(c)' = {}
    <3>1. ~BeingCleaned(c) /\ Given(c) \subseteq allocated
      BY <2>1, <1>6, <1>12
    <3>2. /\ held[c] \subseteq allocated /\ Owns(c) \subseteq held[c]
          /\ held[c] \intersect Given(c) = {}
      BY <3>1 DEF Owned, HeldApart
    <3>3. CASE c = s
      BY <3>1, <3>2, <3>3, <1>4, <1>5, <1>12, <1>13
    <3>4. CASE c # s
      BY <3>1, <3>2, <3>4, <1>5, <1>12, <1>13
    <3> QED BY <3>3, <3>4
  <2>2. ASSUME NEW c \in Slots, NEW d \in Slots, c # d, ~BeingCleaned(c)'
        PROVE  /\ held'[c] \intersect References(d)' = {}
               /\ ~BeingCleaned(d)' => held'[c] \intersect held'[d] = {}
    <3>1. ~BeingCleaned(c) /\ (~BeingCleaned(d)' => ~BeingCleaned(d))
      BY <2>2, <1>12
    <3>2. /\ held[c] \intersect References(d) = {} /\ held[c] \subseteq allocated
          /\ ~BeingCleaned(d) => held[c] \intersect held[d] = {} /\ held[d] \subseteq allocated
      BY <2>2, <3>1 DEF Owned, HeldApart
    <3>3. References(d)' \subseteq References(d) \union (IF d = s THEN new ELSE {})
      BY <1>3, <1>8, <1>10, <1>11
    <3>4. /\ held'[c] \subseteq held[c] \union (IF c = s THEN new ELSE {})
          /\ held'[d] \subseteq held[d] \union (IF d = s THEN new ELSE {})
      BY <1>12
    <3>5. References(d) \intersect new = {}
      BY <1>4, <1>6
    <3> QED BY <2>2, <3>1, <3>2, <3>3, <3>4, <3>5, <1>4
  <2> QED BY <2>1, <2>2 DEF HeldApart
<1>16. OriginTrue'
  <2> SUFFICES ASSUME NEW c \in Slots
               PROVE  /\ \A a \in Given(c)' : origin'[a] = Kernel
                      /\ \A a \in Owns(c)' : origin'[a] = task'[c].heap
                      /\ ~BeingCleaned(c)' => \A a \in held'[c] : origin'[a] = task'[c].heap
    BY DEF OriginTrue
  <2>1. \A a \in References(c) : origin'[a] = origin[a]
    BY <1>4, <1>5, <1>6 DEF allocated
  <2>2. ~BeingCleaned(c) => \A a \in held[c] : origin'[a] = origin[a]
    BY <1>4, <1>5 DEF Owned, HeldApart, allocated
  <2>3. /\ \A a \in Given(c) : origin[a] = Kernel
        /\ \A a \in Owns(c) : origin[a] = task[c].heap
        /\ ~BeingCleaned(c) => \A a \in held[c] : origin[a] = task[c].heap
    BY DEF Owned, OriginTrue
  <2>4. \A a \in Given(c)' : origin'[a] = Kernel
    BY <2>1, <2>3, <1>6, <1>13
  <2>5. \A a \in Owns(c)' : origin'[a] = task'[c].heap
    BY <2>1, <2>3, <1>5, <1>6, <1>9, <1>13
  <2>6. ~BeingCleaned(c)' => \A a \in held'[c] : origin'[a] = task'[c].heap
    BY <2>2, <2>3, <1>5, <1>9, <1>12
  <2> QED BY <2>4, <2>5, <2>6
<1>17. Apart'
  <2>1. \A c \in Slots : References(c)' \subseteq allocated'
    BY <1>3, <1>5, <1>6, <1>8, <1>10, <1>11
  <2>2. \A c, d \in Slots : c # d => References(c)' \intersect References(d)' = {}
    <3>1. \A c, d \in Slots : c # d => References(c) \intersect References(d) = {}
      BY DEF Owned, Apart
    <3> QED BY <3>1, <1>3, <1>4, <1>6, <1>8, <1>10, <1>11
  <2>3. \A c \in Slots : /\ task'[c].stackptr \notin task'[c].argv
                        /\ Given(c)' \intersect Owns(c)' = {}
    <3>1. \A c \in Slots : /\ task[c].stackptr \notin task[c].argv
                          /\ Given(c) \intersect Owns(c) = {}
      BY DEF Owned, Apart
    <3>2. \A c \in Slots : task'[c].stackptr = task[c].stackptr /\ task'[c].argv = task[c].argv
      BY <1>9 DEF Same
    <3> QED BY <3>1, <3>2, <1>4, <1>6, <1>13
  <2> QED BY <2>1, <2>2, <2>3 DEF Apart
<1>18. Covered'
  <2> SUFFICES ASSUME NEW a \in allocated', a \notin forgotten'
               PROVE  \E c \in Slots : a \in References(c)'
    BY DEF Covered
  <2>1. CASE a \in new
    BY <2>1, <1>1, <1>11 DEF new
  <2>2. CASE a \in allocated
    <3>1. PICK c \in Slots : a \in References(c)
      BY <2>2, <1>1 DEF Owned, Covered
    <3> QED BY <3>1, <1>3, <1>8, <1>10, <1>11
  <2> QED BY <2>1, <2>2, <1>5
<1> QED BY <1>5, <1>14, <1>15, <1>16, <1>17, <1>18 DEF Owned

LEMMA FreeOwned ==
    ASSUME TaskTypes, SlotsTrue, Owned, CleanerTrue, NEW s \in Slots, s \notin gone,
           NEW b \in Blocks \union {NULL}, syscall_free(s, b)
    PROVE  Owned' /\ origin' \in [Blocks -> Heaps \union {NULL}]
<1> DEFINE old == task[s].table
           tab == Remove(old, b)
<1>1. /\ task[s].state = "RUNNING" /\ b \in held[s] \union {NULL} /\ GiveBack({b})
      /\ task' = [task EXCEPT ![s].table = tab]
      /\ forgotten' = forgotten \ {b}
      /\ held' = [held EXCEPT ![s] = @ \ {b}] /\ cleaner' = cleaner /\ gone' = gone
  BY DEF syscall_free
<1>2. /\ origin' \in [Blocks -> Heaps \union {NULL}] /\ allocated' = allocated \ {b}
      /\ \A a \in Blocks : a # b => origin'[a] = origin[a]
  BY <1>1, GiveBackGives
<1>3. ~BeingCleaned(s) /\ (cleaner.pc = "clear" => cleaner.pid # s)
  BY <1>1 DEF CleanerTrue, BeingCleaned
<1>4. /\ old \in AllocationTable /\ Owns(s) = Listed(old)
      /\ \A c \in Slots : /\ References(c) = Given(c) \union Owns(c) /\ NULL \notin References(c)
  BY <1>3, SlotTypes, OwnsListed
<1>5. SoundTable(old)
  BY DEF Owned, TablesSound
<1>6. tab \in AllocationTable /\ SoundTable(tab) /\ Listed(tab) = Listed(old) \ {b}
  BY <1>4, <1>5, TableRemove
<1> HIDE DEF tab, old
<1>7. /\ task'[s].table = tab
      /\ \A c \in Slots : /\ task'[c].stackptr = task[c].stackptr /\ task'[c].argv = task[c].argv
                          /\ task'[c].heap = task[c].heap
                          /\ c # s => task'[c].table = task[c].table
  BY <1>1 DEF TaskTypes, Task
<1>8. b \notin Given(s) /\ \A c \in Slots : c # s => b \notin References(c)
  BY <1>1, <1>3, <1>4 DEF Owned, HeldApart
<1>9. /\ Owns(s)' = Owns(s) \ {b}
      /\ \A c \in Slots : Given(c)' = Given(c) /\ (c # s => Owns(c)' = Owns(c))
  <2>1. Live(s)' = {e \in Entries : tab[e].address # NULL}
    BY <1>1, <1>3, <1>7 DEF Live, Freed
  <2>2. Owns(s)' = Listed(tab)
    BY <2>1, <1>7 DEF Owns, Listed
  <2>3. \A c \in Slots : Given(c)' = Given(c)
    BY <1>7 DEF Given
  <2>4. \A c \in Slots : c # s => Live(c)' = Live(c)
    BY <1>1, <1>7 DEF Live, Freed
  <2>5. \A c \in Slots : c # s => Owns(c)' = Owns(c)
    BY <2>4, <1>7 DEF Owns
  <2> QED BY <2>2, <2>3, <2>5, <1>4, <1>6
<1>10. \A c \in Slots : /\ Given(c)' = Given(c) \ {b} /\ Owns(c)' = Owns(c) \ {b}
                        /\ References(c)' = References(c) \ {b}
  <2>1. \A c \in Slots : b \notin Given(c) /\ (c # s => b \notin Owns(c))
    BY <1>4, <1>8
  <2>2. \A c \in Slots : Given(c)' = Given(c) \ {b} /\ Owns(c)' = Owns(c) \ {b}
    BY <2>1, <1>9
  <2> QED BY <2>2 DEF References
<1>11. /\ held'[s] = held[s] \ {b} /\ \A c \in Slots : c # s => held'[c] = held[c]
       /\ \A c \in Slots : BeingCleaned(c)' = BeingCleaned(c)
  BY <1>1 DEF TaskTypes, BeingCleaned
<1>12. \A c \in Slots : c # s /\ ~BeingCleaned(c) => b \notin held[c]
  BY <1>1, <1>3, Names DEF Owned, HeldApart, TaskTypes
<1>13. TablesSound'
  BY <1>1, <1>6, <1>7 DEF Owned, TablesSound
<1>14. Covered'
  <2> SUFFICES ASSUME NEW a \in allocated', a \notin forgotten'
               PROVE  \E c \in Slots : a \in References(c)'
    BY DEF Covered
  <2>1. PICK c \in Slots : a \in References(c)
    BY <1>1, <1>2 DEF Owned, Covered
  <2> QED BY <2>1, <1>2, <1>10
<1>15. Shrinks({b})
  <2>1. \A c \in Slots : /\ Given(c)' \subseteq Given(c) \ {b} /\ Owns(c)' \subseteq Owns(c) \ {b}
                         /\ task'[c].stackptr \notin task'[c].argv
                         /\ task'[c].heap = task[c].heap
    BY <1>7, <1>10 DEF Owned, Apart
  <2>2. \A c \in Slots : ~BeingCleaned(c)' =>
           /\ held'[c] \intersect {b} = {} /\ Owns(c)' \subseteq held'[c]
           /\ ~BeingCleaned(c) /\ held'[c] \subseteq held[c]
    BY <1>10, <1>11, <1>12 DEF Owned, HeldApart
  <2> QED BY <2>1, <2>2, <1>2 DEF Shrinks
<1> QED BY <1>2, <1>13, <1>14, <1>15, ShrunkOwned

(* The call of a task whose heap was given back. *)
LEMMA GoneOwned ==
    ASSUME TaskTypes, Owned, NEW s \in gone, NEW tab,
           task' = [task EXCEPT ![s].table = tab],
           UNCHANGED <<origin, forgotten, held, cleaner, gone>>
    PROVE  Owned'
<1>1. s \in Slots /\ allocated' = allocated
  BY DEF TaskTypes, allocated
<1>2. \A c \in Slots : /\ task'[c].stackptr = task[c].stackptr /\ task'[c].argv = task[c].argv
                       /\ task'[c].heap = task[c].heap
                       /\ c # s => task'[c].table = task[c].table
  BY DEF TaskTypes, Task
<1>3. \A c \in Slots : References(c)' = References(c) /\ Given(c)' = Given(c) /\ Owns(c)' = Owns(c)
  <2>1. \A c \in Slots, e \in Entries : Freed(c, e)' <=> Freed(c, e)
    BY DEF Freed
  <2>2. \A c \in Slots : c # s => /\ References(c)' = References(c) /\ Given(c)' = Given(c)
                                  /\ Owns(c)' = Owns(c)
    BY <2>1, <1>2, SameReferences DEF Same
  <2>3. Owns(s) = {} /\ Owns(s)' = {} /\ Given(s)' = Given(s)
    BY <1>1, <1>2 DEF Owns, Live, Given
  <2>4. References(s)' = References(s)
    BY <2>3 DEF References
  <2> QED BY <2>2, <2>3, <2>4
<1>4. TablesSound' /\ Covered'
  BY <1>1, <1>2, <1>3 DEF Owned, TablesSound, Covered
<1>5. Shrinks({})
  BY <1>1, <1>2, <1>3 DEF Owned, Apart, HeldApart, BeingCleaned, Shrinks
<1> QED BY <1>4, <1>5, ShrunkOwned

(* Cleanup frees the block of one entry, and then clears the entry.        *)
LEMMA FreeEntryOwned ==
    ASSUME TaskTypes, Owned, NEW s \in Slots, NEW n \in Entries,
           cleaner.pc = "free", cleaner.pid = s, task[s].table[n].address # NULL,
           cleaner' = [cleaner EXCEPT !.pc = "clear", !.entry = n],
           IF s \in gone THEN UNCHANGED origin ELSE GiveBack({task[s].table[n].address}),
           UNCHANGED <<task, forgotten, held, gone>>
    PROVE  Owned' /\ origin' \in [Blocks -> Heaps \union {NULL}]
<1> DEFINE a == task[s].table[n].address
           X == IF s \in gone THEN {} ELSE {a}
<1>1. /\ cleaner'.pc = "clear" /\ cleaner'.pid = s /\ cleaner'.entry = n
      /\ \A c \in Slots : BeingCleaned(c)' = BeingCleaned(c)
  BY DEF TaskTypes, BeingCleaned
<1>2. /\ origin' \in [Blocks -> Heaps \union {NULL}] /\ allocated' = allocated \ X
      /\ \A b \in Blocks : b \notin X => origin'[b] = origin[b]
  <2>1. CASE s \in gone
    BY <2>1 DEF allocated, TaskTypes
  <2>2. CASE s \notin gone
    BY <2>2, GiveBackGives
  <2> QED BY <2>1, <2>2
<1>3. \A c \in Slots : Given(c)' = Given(c)
  BY DEF Given
<1>4. \A c \in Slots : c # s => Owns(c)' = Owns(c)
  <2>1. \A c \in Slots : c # s => Live(c)' = Live(c)
    BY <1>1 DEF Live, Freed
  <2> QED BY <2>1 DEF Owns
<1>5. Owns(s)' = Owns(s) \ X /\ X \subseteq Owns(s)
  <2>1. CASE s \in gone
    BY <2>1 DEF Owns, Live
  <2>2. CASE s \notin gone
    <3>1. /\ Live(s) = {e \in Entries : task[s].table[e].address # NULL}
          /\ Live(s)' = Live(s) \ {n} /\ n \in Live(s)
      BY <2>2, <1>1 DEF Live, Freed
    <3>2. \A e \in Live(s) : e # n => task[s].table[e].address # a
      BY <2>2, <3>1 DEF Owned, TablesSound, SoundTable
    <3>3. Owns(s)' = {task[s].table[e].address : e \in Live(s) \ {n}}
      BY <3>1 DEF Owns
    <3> QED BY <2>2, <3>1, <3>2, <3>3 DEF Owns
  <2> QED BY <2>1, <2>2
<1> HIDE DEF X, a
<1>6. \A c \in Slots : X \intersect Given(c) = {} /\ (c # s => X \intersect Owns(c) = {})
  BY <1>5 DEF Owned, Apart, References
<1>7. \A c \in Slots : /\ Given(c)' = Given(c) \ X /\ Owns(c)' = Owns(c) \ X
                       /\ References(c)' = References(c) \ X
  <2>1. \A c \in Slots : Given(c)' = Given(c) \ X /\ Owns(c)' = Owns(c) \ X
    BY <1>3, <1>4, <1>5, <1>6
  <2> QED BY <2>1 DEF References
<1>8. \A c \in Slots : ~BeingCleaned(c) => c # s /\ held[c] \intersect X = {}
  BY <1>5 DEF Owned, HeldApart, BeingCleaned, References
<1>9. TablesSound'
  BY DEF Owned, TablesSound
<1>10. Covered'
  BY <1>2, <1>7 DEF Owned, Covered
<1>11. Shrinks(X)
  BY <1>1, <1>2, <1>7, <1>8 DEF Owned, Apart, HeldApart, Shrinks
<1> QED BY <1>2, <1>9, <1>10, <1>11, ShrunkOwned

LEMMA ClearEntryOwned ==
    ASSUME TaskTypes, Owned, CleanerTrue, NEW s \in Slots, s = cleaner.pid, ClearEntry
    PROVE  Owned'
<1> DEFINE old == task[s].table
           n == cleaner.entry
           tab == [old EXCEPT ![n] = FreeEntry]
<1>1. /\ cleaner.pc = "clear" /\ n \in Entries
      /\ task' = [task EXCEPT ![s].table[n] = FreeEntry]
      /\ cleaner' = [cleaner EXCEPT !.pc = "free", !.entry = 0]
      /\ UNCHANGED <<origin, forgotten, held, gone>>
  BY DEF ClearEntry, CleanerTrue
<1>2. /\ cleaner'.pc = "free" /\ cleaner'.pid = s
      /\ \A c \in Slots : BeingCleaned(c)' = BeingCleaned(c)
  BY <1>1 DEF TaskTypes, BeingCleaned
<1>3. old \in AllocationTable /\ allocated' = allocated
  BY <1>1, SlotTypes DEF allocated
<1>4. /\ task'[s].table = tab
      /\ \A c \in Slots : /\ task'[c].stackptr = task[c].stackptr /\ task'[c].argv = task[c].argv
                          /\ task'[c].heap = task[c].heap
                          /\ c # s => task'[c].table = task[c].table
  BY <1>1 DEF TaskTypes, Task
<1>5. tab[n].address = NULL /\ \A e \in Entries : e # n => tab[e] = old[e]
  BY <1>1, <1>3 DEF AllocationTable, FreeEntry
<1>6. s \notin gone => SoundTable(tab)
  BY <1>1, <1>3, TableClear DEF Owned, TablesSound
<1> HIDE DEF tab
<1>7. Owns(s)' = Owns(s)
  <2>1. Live(s)' = Live(s)
    BY <1>1, <1>2, <1>4, <1>5 DEF Live, Freed
  <2>2. \A e \in Live(s) : task'[s].table[e].address = task[s].table[e].address
    BY <1>1, <1>4, <1>5 DEF Live, Freed
  <2> QED BY <2>1, <2>2 DEF Owns
<1>8. \A c \in Slots : c # s => Owns(c)' = Owns(c)
  <2>1. \A c \in Slots : c # s => Live(c)' = Live(c)
    BY <1>1, <1>2, <1>4 DEF Live, Freed
  <2> QED BY <2>1, <1>4 DEF Owns
<1>9. \A c \in Slots : Given(c)' = Given(c)
  BY <1>4 DEF Given
<1>10. \A c \in Slots : Owns(c)' = Owns(c) /\ References(c)' = References(c)
  BY <1>7, <1>8, <1>9 DEF References
<1>11. TablesSound'
  BY <1>1, <1>4, <1>6 DEF Owned, TablesSound
<1>12. Covered'
  BY <1>1, <1>3, <1>10 DEF Owned, Covered
<1>13. Shrinks({})
  BY <1>1, <1>2, <1>3, <1>4, <1>9, <1>10 DEF Owned, Apart, HeldApart, Shrinks
<1> QED BY <1>11, <1>12, <1>13, ShrunkOwned

(* A process gives its heap back: what came from it belonged to its users, *)
(* whose tables stand for nothing from now on.                             *)
LEMMA FreeHeapOwned ==
    ASSUME TaskTypes, SlotsTrue, Owned, NEW p \in Slots, p = cleaner.pid, FreeHeap
    PROVE  /\ Owned' /\ origin' \in [Blocks -> Heaps \union {NULL}]
           /\ Owns(p)' = {}
<1> DEFINE own == {b \in Blocks : origin[b] = p}
           users == {c \in Slots : task[c].heap = p}
<1>1. /\ cleaner.pc = "free" /\ task[p].mode = "PROCESS" /\ GiveBack(own)
      /\ forgotten' = forgotten \ own
      /\ held' = [c \in Slots |-> IF c \in users THEN {} ELSE held[c]]
      /\ gone' = gone \union users
      /\ cleaner' = [cleaner EXCEPT !.pc = "reset"] /\ task' = task
  BY DEF FreeHeap
<1>2. /\ origin' \in [Blocks -> Heaps \union {NULL}] /\ allocated' = allocated \ own
      /\ \A b \in Blocks : b \notin own => origin'[b] = origin[b]
  BY <1>1, GiveBackGives
<1>3. /\ cleaner'.pc = "reset" /\ \A c \in Slots : BeingCleaned(c)' = BeingCleaned(c)
  BY <1>1 DEF TaskTypes, BeingCleaned
<1>4. \A c \in Slots : Given(c)' = Given(c) /\ Given(c) \intersect own = {}
  <2>1. p # Kernel
    BY Names
  <2>2. \A c \in Slots : Given(c)' = Given(c)
    BY <1>1 DEF Given
  <2> QED BY <2>1, <2>2 DEF Owned, OriginTrue
<1>5. \A c \in users : Owns(c)' = {} /\ held'[c] = {}
  BY <1>1 DEF Owns, Live
<1>6. \A c \in Slots : c \notin users =>
         Owns(c)' = Owns(c) /\ Owns(c) \intersect own = {} /\ held'[c] = held[c]
  <2>1. \A c \in Slots : c \notin users => Live(c)' = Live(c)
    BY <1>1, <1>3 DEF Live, Freed
  <2>2. \A c \in Slots : c \notin users => Owns(c)' = Owns(c)
    BY <2>1, <1>1 DEF Owns
  <2>3. \A c \in Slots : c \notin users => Owns(c) \intersect own = {}
    BY DEF Owned, OriginTrue
  <2> QED BY <2>2, <2>3, <1>1
<1>7. \A c \in Slots : c \notin users /\ ~BeingCleaned(c) => held[c] \intersect own = {}
  BY DEF Owned, OriginTrue
<1>8. Owns(p)' = {}
  BY <1>1, <1>5 DEF SlotsTrue
<1>9. TablesSound'
  BY <1>1 DEF Owned, TablesSound
<1>10. Covered'
  <2> SUFFICES ASSUME NEW a \in allocated', a \notin forgotten'
               PROVE  \E c \in Slots : a \in References(c)'
    BY DEF Covered
  <2>1. a \in allocated /\ a \notin own /\ a \notin forgotten /\ a \in Blocks
    BY <1>1, <1>2 DEF allocated
  <2>2. PICK c \in Slots : a \in References(c)
    BY <2>1 DEF Owned, Covered
  <2>3. CASE a \in Given(c)
    BY <2>3, <1>4 DEF References
  <2>4. CASE a \in Owns(c)
    <3>1. c \notin users
      BY <2>1, <2>4 DEF Owned, OriginTrue
    <3> QED BY <3>1, <2>4, <1>6 DEF References
  <2> QED BY <2>2, <2>3, <2>4 DEF References
<1> HIDE DEF own, users
<1>11. Shrinks(own)
  <2> SUFFICES ASSUME NEW c \in Slots
               PROVE  /\ Given(c)' \subseteq Given(c) \ own /\ Owns(c)' \subseteq Owns(c) \ own
                      /\ task'[c].stackptr \notin task'[c].argv /\ task'[c].heap = task[c].heap
                      /\ ~BeingCleaned(c)' =>
                            /\ held'[c] \intersect own = {} /\ Owns(c)' \subseteq held'[c]
                            /\ held'[c] = {} \/ (~BeingCleaned(c) /\ held'[c] \subseteq held[c])
    BY <1>2 DEF Shrinks
  <2>1. CASE c \in users
    BY <2>1, <1>1, <1>4, <1>5 DEF Owned, Apart
  <2>2. CASE c \notin users
    BY <2>2, <1>1, <1>3, <1>4, <1>6, <1>7 DEF Owned, Apart, HeldApart
  <2> QED BY <2>1, <2>2
<1> QED BY <1>2, <1>8, <1>9, <1>10, <1>11, ShrunkOwned

(* The slot is given back: what it leads to is its stack and arguments.    *)
LEMMA ResetOwned ==
    ASSUME TaskTypes, Owned, CleanerTrue, NEW s \in Slots, s = cleaner.pid, Reset
    PROVE  Owned' /\ origin' \in [Blocks -> Heaps \union {NULL}]
<1> DEFINE stack == task[s].stackptr
<1>1. /\ cleaner.pc = "reset" /\ GiveBack({stack}) /\ task' = [task EXCEPT ![s] = Stopped]
      /\ forgotten' = forgotten \union task[s].argv /\ held' = [held EXCEPT ![s] = {}]
      /\ gone' = gone \ {s} /\ cleaner' = Resting
  BY DEF Reset
<1>2. /\ origin' \in [Blocks -> Heaps \union {NULL}] /\ allocated' = allocated \ {stack}
      /\ \A b \in Blocks : b # stack => origin'[b] = origin[b]
  BY <1>1, GiveBackGives
<1>3. /\ cleaner'.pc = "idle" /\ \A c \in Slots : ~BeingCleaned(c)'
      /\ BeingCleaned(s) /\ \A c \in Slots : c # s => ~BeingCleaned(c)
      /\ Owns(s) = {}
  BY <1>1 DEF BeingCleaned, Resting, CleanerTrue
<1>4. task'[s] = Stopped /\ \A c \in Slots : c # s => task'[c] = task[c] /\ Same(c)
  BY <1>1 DEF TaskTypes, Same
<1>5. /\ task'[s].stackptr = NULL /\ task'[s].argv = {}
      /\ \A e \in Entries : task'[s].table[e].address = NULL
  BY <1>4 DEF Stopped, FreeEntry
<1>6. Given(s)' = {} /\ Owns(s)' = {} /\ References(s)' = {}
  <2>1. Given(s)' = {} /\ Owns(s)' = {}
    BY <1>5 DEF Given, Owns, Live
  <2> QED BY <2>1 DEF References
<1>7. \A c \in Slots : c # s => /\ References(c)' = References(c) /\ Given(c)' = Given(c)
                                /\ Owns(c)' = Owns(c)
  <2>1. \A c \in Slots, e \in Entries : c # s => (Freed(c, e)' <=> Freed(c, e))
    BY <1>1, <1>3 DEF Freed
  <2>2. \A c \in Slots : c # s => (c \in gone' <=> c \in gone)
    BY <1>1
  <2> QED BY <2>1, <2>2, <1>4, SameReferences
<1>8. References(s) = ({stack} \ {NULL}) \union task[s].argv
  BY <1>3 DEF References, Given
<1>9. \A c \in Slots : NULL \notin References(c) /\ References(c) = Given(c) \union Owns(c)
  BY SlotTypes
<1>10. \A c \in Slots : c # s => stack \notin References(c)
  BY <1>8, <1>9 DEF Owned, Apart
<1>11. held'[s] = {} /\ \A c \in Slots : c # s => held'[c] = held[c] /\ stack \notin held[c]
  <2>1. held'[s] = {} /\ \A c \in Slots : c # s => held'[c] = held[c]
    BY <1>1 DEF TaskTypes
  <2>2. \A c \in Slots : c # s => NULL \notin held[c] /\ held[c] \intersect References(s) = {}
    BY <1>3, Names DEF TaskTypes, Owned, HeldApart
  <2> QED BY <2>1, <2>2, <1>8
<1> HIDE DEF stack
<1>12. TablesSound'
  <2>1. SoundTable(task'[s].table)
    BY <1>5 DEF SoundTable
  <2> QED BY <2>1, <1>1, <1>4 DEF Owned, TablesSound
<1>13. Covered'
  <2> SUFFICES ASSUME NEW x \in allocated', x \notin forgotten'
               PROVE  \E c \in Slots : x \in References(c)'
    BY DEF Covered
  <2>1. PICK c \in Slots : x \in References(c)
    BY <1>1, <1>2 DEF Owned, Covered
  <2>2. c # s
    BY <2>1, <1>1, <1>2, <1>8
  <2> QED BY <2>1, <2>2, <1>7
<1>14. Shrinks({stack})
  <2> SUFFICES ASSUME NEW c \in Slots
               PROVE  /\ Given(c)' \subseteq Given(c) \ {stack} /\ Owns(c)' \subseteq Owns(c) \ {stack}
                      /\ task'[c].stackptr \notin task'[c].argv
                      /\ task'[c].heap = task[c].heap \/ (Owns(c)' = {} /\ held'[c] = {})
                      /\ held'[c] \intersect {stack} = {} /\ Owns(c)' \subseteq held'[c]
                      /\ held'[c] = {} \/ (~BeingCleaned(c) /\ held'[c] \subseteq held[c])
    BY <1>2 DEF Shrinks
  <2>1. CASE c = s
    BY <2>1, <1>5, <1>6, <1>11
  <2>2. CASE c # s
    BY <2>2, <1>3, <1>4, <1>7, <1>9, <1>10, <1>11 DEF Owned, Apart, HeldApart
  <2> QED BY <2>1, <2>2
<1> QED BY <1>2, <1>12, <1>13, <1>14, ShrunkOwned

-----------------------------------------------------------------------------
(* What is counted, and the start. *)
Counted == task_count = Cardinality(Slots \ Free) - Cardinality(failed)

TasksInvariant == TaskTypes /\ SlotsTrue /\ CleanerTrue /\ Owned /\ Counted

LEMMA FiniteSlots == \A S \in SUBSET Slots : IsFiniteSet(S) /\ Cardinality(S) \in Nat
<1>1. IsFiniteSet(Slots)
  BY TasksAssumption, FS_Interval DEF Slots
<1> QED BY <1>1, FS_Subset, FS_CardinalityType

(* Nothing was created, nothing given back. *)
LEMMA SameCount ==
    ASSUME Counted, UNCHANGED <<task_count, failed>>,
           \A s \in Slots : task'[s].state = "STOPPED" <=> task[s].state = "STOPPED"
    PROVE  Counted'
<1>1. Free' = Free
  BY DEF Free
<1> QED BY <1>1 DEF Counted

LEMMA StoppedTask == Stopped \in Task
<1>1. Stopped.table \in AllocationTable
  BY DEF Stopped, AllocationTable, FreeEntry
<1> QED BY <1>1 DEF Stopped, Task, TaskStates

LEMMA InitTasks == TasksInit => TasksInvariant
<1> SUFFICES ASSUME TasksInit PROVE TasksInvariant OBVIOUS
<1> USE TasksAssumption DEF TasksInit
<1>1. TaskTypes
  BY StoppedTask DEF TaskTypes, Resting
<1>2. SlotsTrue
  BY DEF SlotsTrue, Stopped
<1>3. CleanerTrue
  BY DEF CleanerTrue, Resting
<1>4. \A s \in Slots : /\ task[s] = Stopped /\ Given(s) = {} /\ Owns(s) = {} /\ References(s) = {}
                       /\ \A e \in Entries : task[s].table[e] = FreeEntry
  <2>1. TAKE s \in Slots
  <2>2. task[s] = Stopped /\ \A e \in Entries : task[s].table[e] = FreeEntry
    BY DEF Stopped
  <2>3. Owns(s) = {}
    BY <2>2 DEF Owns, Live, FreeEntry
  <2>4. Given(s) = {}
    BY <2>2 DEF Given, Stopped
  <2> QED BY <2>2, <2>3, <2>4 DEF References
<1>5. Owned
  <2>1. TablesSound
    BY <1>4 DEF TablesSound, SoundTable, FreeEntry
  <2>2. HeldApart /\ OriginTrue
    BY <1>4 DEF HeldApart, OriginTrue
  <2>3. Apart
    BY <1>4 DEF Apart, Stopped
  <2> QED BY <2>1, <2>2, <2>3 DEF Owned, Covered, allocated
<1>6. Counted
  <2>1. Slots \ Free = {}
    BY <1>4 DEF Free, Stopped
  <2>2. Cardinality({}) = 0
    BY FS_EmptySet
  <2>3. Cardinality(Slots \ Free) = 0 /\ Cardinality(failed) = 0 /\ task_count = 0
    BY <2>1, <2>2
  <2> QED BY <2>3 DEF Counted
<1> QED BY <1>1, <1>2, <1>3, <1>5, <1>6 DEF TasksInvariant

-----------------------------------------------------------------------------
(* Creation. *)

(* get_free_task finds a slot that is as task_init left it. *)
LEMMA FreeSlot ==
    ASSUME SlotsTrue, NEW s \in Slots, get_free_task(s)
    PROVE  s \in Free /\ task[s] = Stopped /\ held[s] = {} /\ s \notin gone
<1>1. Free # {} /\ s = Min(Free) /\ Free \in SUBSET Nat
  BY TasksAssumption DEF get_free_task, Free, Slots
<1>2. s \in Free
  BY <1>1, FirstMember
<1> QED BY <1>2 DEF Free, SlotsTrue

(* What creation writes, field by field. *)
Written(s, mode, parent, heap_of, stack, rest) ==
    /\ task' \in [Slots -> Task] /\ \A c \in Slots : c # s => task'[c] = task[c]
    /\ task'[s].state = "CREATED" /\ task'[s].mode = mode /\ task'[s].parent = parent
    /\ task'[s].heap = heap_of
    /\ task'[s].stackptr = stack /\ task'[s].argv = rest /\ task'[s].table = task[s].table

(* A slot is taken: with success, or as a failure that keeps it. *)
Taken(s, mode, parent, heap_of, stack, rest) ==
    /\ get_free_task(s) /\ Written(s, mode, parent, heap_of, stack, rest)
    /\ Take(rest \union ({stack} \ {NULL}), Kernel)
    /\ \/ task_count' = task_count + 1 /\ failed' = failed /\ heap_of # NULL
       \/ task_count' = task_count /\ failed' = failed \union {s} /\ mode = "KTHREAD"
    /\ gone' = gone \/ gone' = gone \union {s}
    /\ UNCHANGED <<cleaner, forgotten, asleep, held, missed>>

LEMMA TakenInvariant ==
    ASSUME TasksInvariant, NEW s \in Slots, NEW mode \in {"KTHREAD", "PROCESS", "THREAD"},
           NEW parent \in Slots \union {NULL},
           parent # NULL => mode = "THREAD" /\ task[parent].state = "RUNNING",
           NEW heap_of \in Heaps \union {NULL}, mode = "PROCESS" => heap_of = s,
           NEW stack \in (Blocks \ allocated) \union {NULL},
           NEW rest \in SUBSET (Blocks \ allocated), stack \notin rest,
           Taken(s, mode, parent, heap_of, stack, rest)
    PROVE  TasksInvariant'
<1>1. TaskTypes /\ SlotsTrue /\ CleanerTrue /\ Owned /\ Counted
  BY DEF TasksInvariant
<1>2. task[s] = Stopped /\ s \in Free /\ held[s] = {} /\ s \notin gone
  BY <1>1, FreeSlot DEF Taken
<1>3. /\ task'[s].state = "CREATED" /\ task'[s].mode = mode /\ task'[s].parent = parent
      /\ task'[s].heap = heap_of
      /\ task'[s].stackptr = stack /\ task'[s].argv = rest /\ task'[s].table = task[s].table
      /\ \A c \in Slots : c # s => task'[c] = task[c] /\ Same(c)
  BY DEF Taken, Written, Same
<1>4. ~BeingCleaned(s)
  BY <1>1, <1>2 DEF CleanerTrue, BeingCleaned, Free
<1>5. Owned'
  <2>1. /\ Take(rest \union ({stack} \ {NULL}), Kernel)
        /\ gone' = gone \/ gone' = gone \union {s}
        /\ UNCHANGED <<forgotten, held, cleaner>>
    BY DEF Taken
  <2> QED BY <1>1, <1>2, <1>3, <1>4, <2>1, NewOwned
<1>6. TaskTypes'
  <2>1. origin' \in [Blocks -> Heaps \union {NULL}]
    BY <1>1, TakeGives DEF Taken, Heaps
  <2> QED BY <2>1, <1>1 DEF TaskTypes, Taken, Written
<1>7. s \notin failed /\ s \notin asleep
  BY <1>1, <1>2 DEF SlotsTrue, Free, Stopped
<1>8. SlotsTrue'
  <2>1. \A c \in failed' : c \in failed \/ (c = s /\ mode = "KTHREAD")
    BY DEF Taken
  <2>2. /\ failed \subseteq Slots /\ asleep \subseteq Slots /\ asleep' = asleep
        /\ failed \subseteq failed' /\ (s \notin failed' => heap_of # NULL)
        /\ held' = held /\ gone \subseteq gone' /\ gone' \subseteq gone \union {s}
    BY <1>1 DEF TaskTypes, Taken
  <2> QED BY <2>1, <2>2, <1>1, <1>2, <1>3, <1>7 DEF SlotsTrue
<1>9. CleanerTrue'
  <2> SUFFICES ASSUME cleaner.pc # "idle"
               PROVE  /\ cleaner.pid \in Slots
                      /\ task'[cleaner.pid].state = "ZOMBIE" /\ cleaner.pid \notin asleep
                      /\ cleaner.pc = "clear" =>
                            /\ cleaner.entry \in Entries
                            /\ task'[cleaner.pid].table[cleaner.entry].address # NULL
                      /\ cleaner.pc = "reset" => Owns(cleaner.pid)' = {}
                      /\ \A c \in Slots : task'[c].parent = cleaner.pid =>
                            \/ c \in missed
                            \/ task'[c].state \in {"ZOMBIE", "STOPPED"} /\ c \notin asleep
    BY DEF CleanerTrue, Taken
  <2>1. cleaner.pid \in Slots /\ cleaner.pid # s /\ parent # cleaner.pid /\ cleaner.pid # NULL
    BY <1>1, <1>2, Names DEF CleanerTrue, Free, Heaps
  <2>2. Owns(cleaner.pid)' = Owns(cleaner.pid)
    <3>1. Live(cleaner.pid)' = Live(cleaner.pid)
      BY <1>3, <2>1 DEF Live, Freed, Taken
    <3> QED BY <3>1, <1>3, <2>1 DEF Owns, Taken
  <2> QED BY <2>1, <2>2, <1>1, <1>3 DEF CleanerTrue
<1>10. Counted'
  <2> DEFINE taken == Slots \ Free
  <2>1. Free' = Free \ {s}
    BY <1>2, <1>3 DEF Free
  <2>2. Slots \ Free' = taken \union {s} /\ s \notin taken
    BY <2>1, <1>2 DEF Free
  <2>3. /\ IsFiniteSet(taken) /\ Cardinality(taken) \in Nat
        /\ IsFiniteSet(failed) /\ Cardinality(failed) \in Nat
    BY FiniteSlots, <1>1 DEF TaskTypes
  <2>4. Cardinality(Slots \ Free') = Cardinality(taken) + 1
    BY <2>2, <2>3, FS_AddElement
  <2>5. Cardinality(failed \union {s}) = Cardinality(failed) + 1
    BY <2>3, <1>7, FS_AddElement
  <2>6. task_count = Cardinality(taken) - Cardinality(failed)
    BY <1>1 DEF Counted
  <2> HIDE DEF taken
  <2>7. CASE task_count' = task_count + 1 /\ failed' = failed
    <3>1. task_count' = Cardinality(Slots \ Free') - Cardinality(failed')
      BY <2>3, <2>4, <2>6, <2>7
    <3> QED BY <3>1 DEF Counted
  <2>8. CASE task_count' = task_count /\ failed' = failed \union {s}
    <3>1. task_count' = Cardinality(Slots \ Free') - Cardinality(failed')
      BY <2>3, <2>4, <2>5, <2>6, <2>8
    <3> QED BY <3>1 DEF Counted
  <2> QED BY <2>7, <2>8 DEF Taken
<1> QED BY <1>5, <1>6, <1>8, <1>9, <1>10 DEF TasksInvariant

LEMMA FailureWritten ==
    ASSUME task \in [Slots -> Task], NEW s \in Slots, task[s] = Stopped,
           NEW stack \in Blocks \union {NULL}, NEW rest \in SUBSET Blocks,
           task' = [task EXCEPT ![s].state = "CREATED", ![s].mode = "KTHREAD",
                                ![s].stackptr = stack, ![s].argv = rest]
    PROVE  Written(s, "KTHREAD", NULL, NULL, stack, rest)
<1> DEFINE r == [task[s] EXCEPT !.state = "CREATED", !.mode = "KTHREAD",
                               !.stackptr = stack, !.argv = rest]
<1>1. r \in Task
  BY DEF Task, TaskStates, Heaps
<1>2. r.parent = NULL /\ r.heap = NULL
  <2>1. task[s] \in Task /\ task[s].parent = NULL /\ task[s].heap = NULL
    BY DEF Stopped
  <2> QED BY <2>1 DEF Task
<1>3. task' = [task EXCEPT ![s] = r]
  BY Zenon
<1> QED BY <1>1, <1>2, <1>3 DEF Written, Task

LEMMA KthreadWritten ==
    ASSUME task \in [Slots -> Task], NEW s \in Slots, task[s] = Stopped,
           NEW stack \in Blocks \union {NULL}, NEW rest \in SUBSET Blocks,
           task' = [task EXCEPT ![s].state = "CREATED", ![s].mode = "KTHREAD",
                                ![s].heap = Kernel,
                                ![s].stackptr = stack, ![s].argv = rest]
    PROVE  Written(s, "KTHREAD", NULL, Kernel, stack, rest)
<1> DEFINE r == [task[s] EXCEPT !.state = "CREATED", !.mode = "KTHREAD", !.heap = Kernel,
                               !.stackptr = stack, !.argv = rest]
<1>1. r \in Task
  BY DEF Task, TaskStates, Heaps
<1>2. r.parent = NULL
  <2>1. task[s] \in Task /\ task[s].parent = NULL
    BY DEF Stopped
  <2> QED BY <2>1 DEF Task
<1>3. task' = [task EXCEPT ![s] = r]
  BY Zenon
<1> QED BY <1>1, <1>2, <1>3 DEF Written, Task

LEMMA ProcessWritten ==
    ASSUME task \in [Slots -> Task], NEW s \in Slots, task[s] = Stopped,
           NEW stack \in Blocks \union {NULL},
           task' = [task EXCEPT ![s].state = "CREATED", ![s].mode = "PROCESS",
                                ![s].heap = s, ![s].stackptr = stack]
    PROVE  Written(s, "PROCESS", NULL, s, stack, {})
<1> DEFINE r == [task[s] EXCEPT !.state = "CREATED", !.mode = "PROCESS", !.heap = s,
                               !.stackptr = stack]
<1>1. r \in Task
  BY DEF Task, TaskStates, Heaps
<1>2. r.parent = NULL /\ r.argv = {}
  <2>1. task[s] \in Task /\ task[s].parent = NULL /\ task[s].argv = {}
    BY DEF Stopped
  <2> QED BY <2>1 DEF Task
<1>3. task' = [task EXCEPT ![s] = r]
  BY Zenon
<1> QED BY <1>1, <1>2, <1>3 DEF Written, Task

LEMMA ThreadWritten ==
    ASSUME task \in [Slots -> Task], NEW s \in Slots, task[s] = Stopped, NEW parent \in Slots,
           NEW stack \in Blocks \union {NULL},
           task' = [task EXCEPT ![s].state = "CREATED", ![s].mode = "THREAD",
                                ![s].parent = parent, ![s].heap = task[parent].heap,
                                ![s].stackptr = stack]
    PROVE  Written(s, "THREAD", parent, task[parent].heap, stack, {})
<1> DEFINE r == [task[s] EXCEPT !.state = "CREATED", !.mode = "THREAD",
                               !.parent = parent, !.heap = task[parent].heap,
                               !.stackptr = stack]
<1>1. r \in Task
  BY DEF Task, TaskStates, Heaps
<1>2. r.argv = {}
  <2>1. task[s] \in Task /\ task[s].argv = {}
    BY DEF Stopped
  <2> QED BY <2>1 DEF Task
<1>3. task' = [task EXCEPT ![s] = r]
  BY Zenon
<1> QED BY <1>1, <1>2, <1>3 DEF Written, Task

(* Each way to create a task takes a slot. *)
Creation ==
    \E s \in Slots, stack \in (Blocks \ allocated) \union {NULL},
       rest \in SUBSET (Blocks \ allocated), mode \in {"KTHREAD", "PROCESS", "THREAD"},
       parent \in Slots \union {NULL}, heap_of \in Heaps \union {NULL} :
          /\ stack \notin rest /\ (mode = "PROCESS" => heap_of = s)
          /\ parent # NULL => mode = "THREAD" /\ task[parent].state = "RUNNING"
          /\ Taken(s, mode, parent, heap_of, stack, rest)

LEMMA KthreadCreates ==
    ASSUME TasksInvariant, NEW argc \in 0 .. MaxArgs, task_create_kthread(argc)
    PROVE  Creation
<1> DEFINE wanted == IF argc = 0 THEN 0 ELSE 1 + argc
<1>1. PICK s \in Slots, stack \in (Blocks \ allocated) \union {NULL},
           rest \in SUBSET (Blocks \ allocated) :
        /\ get_free_task(s)
        /\ stack \notin rest /\ Cardinality(rest) <= wanted /\ (stack = NULL => rest = {})
        /\ Take(rest \union ({stack} \ {NULL}), Kernel)
        /\ IF stack # NULL /\ Cardinality(rest) = wanted
           THEN /\ task' = [task EXCEPT ![s].state = "CREATED", ![s].mode = "KTHREAD",
                                        ![s].heap = Kernel,
                                        ![s].stackptr = stack, ![s].argv = rest]
                /\ task_count' = task_count + 1 /\ UNCHANGED failed
           ELSE Fail(s, stack, rest)
        /\ UNCHANGED <<in_use, cleaner, forgotten, asleep, held, missed, gone>>
  BY Zenon DEF task_create_kthread
<1> HIDE DEF wanted
<1>2. /\ task[s] = Stopped /\ task \in [Slots -> Task]
      /\ stack \in Blocks \union {NULL} /\ rest \in SUBSET Blocks
  BY <1>1, FreeSlot DEF TasksInvariant, TaskTypes
<1>3. CASE stack # NULL /\ Cardinality(rest) = wanted
  <2>1. Written(s, "KTHREAD", NULL, Kernel, stack, rest)
    BY <1>1, <1>2, <1>3, KthreadWritten, Zenon
  <2>2. Taken(s, "KTHREAD", NULL, Kernel, stack, rest)
    BY <1>1, <1>3, <2>1, Names DEF Taken, Heaps
  <2> QED BY <1>1, <2>2 DEF Creation, Heaps
<1>4. CASE ~(stack # NULL /\ Cardinality(rest) = wanted)
  <2>1. Fail(s, stack, rest)
    BY <1>1, <1>4
  <2>2. Written(s, "KTHREAD", NULL, NULL, stack, rest)
    BY <1>2, <2>1, FailureWritten, Zenon DEF Fail
  <2>3. Taken(s, "KTHREAD", NULL, NULL, stack, rest)
    BY <1>1, <2>1, <2>2 DEF Taken, Fail
  <2> QED BY <1>1, <2>3 DEF Creation
<1> QED BY <1>3, <1>4

LEMMA ProcessCreates ==
    ASSUME TasksInvariant, create_process
    PROVE  Creation
<1>1. PICK s \in Slots, stack \in (Blocks \ allocated) \union {NULL} :
        /\ get_free_task(s)
        /\ Take({stack} \ {NULL}, Kernel)
        /\ IF stack # NULL
           THEN /\ task' = [task EXCEPT ![s].state = "CREATED", ![s].mode = "PROCESS",
                                        ![s].heap = s, ![s].stackptr = stack]
                /\ task_count' = task_count + 1 /\ UNCHANGED failed
           ELSE Fail(s, NULL, {})
        /\ UNCHANGED <<in_use, cleaner, forgotten, asleep, held, missed, gone>>
  BY Zenon DEF create_process
<1>2. /\ task[s] = Stopped /\ task \in [Slots -> Task]
      /\ stack \in Blocks \union {NULL} /\ {} \in SUBSET Blocks
      /\ Take({} \union ({stack} \ {NULL}), Kernel)
  BY <1>1, FreeSlot DEF TasksInvariant, TaskTypes
<1>3. CASE stack # NULL
  <2>1. Written(s, "PROCESS", NULL, s, stack, {})
    BY <1>1, <1>2, <1>3, ProcessWritten, Zenon
  <2>2. Taken(s, "PROCESS", NULL, s, stack, {})
    BY <1>1, <1>2, <1>3, <2>1, Names DEF Taken, Heaps
  <2> QED BY <2>2 DEF Creation, Heaps
<1>4. CASE stack = NULL
  <2>1. Fail(s, stack, {})
    BY <1>1, <1>4
  <2>2. Written(s, "KTHREAD", NULL, NULL, stack, {})
    BY <1>2, <2>1, FailureWritten, Zenon DEF Fail
  <2>3. Taken(s, "KTHREAD", NULL, NULL, stack, {})
    BY <1>1, <1>2, <2>1, <2>2 DEF Taken, Fail
  <2> QED BY <2>3 DEF Creation
<1> QED BY <1>3, <1>4

LEMMA ThreadCreates ==
    ASSUME TasksInvariant, NEW parent \in Slots, task_create_thread_process(parent)
    PROVE  Creation
<1>1. PICK s \in Slots, stack \in (Blocks \ allocated) \union {NULL} :
          /\ task[parent].state = "RUNNING" /\ get_free_task(s)
          /\ Take({stack} \ {NULL}, Kernel)
          /\ \/ /\ task' = [task EXCEPT ![s].state = "CREATED", ![s].mode = "THREAD",
                                        ![s].parent = parent, ![s].heap = task[parent].heap,
                                        ![s].stackptr = stack]
                /\ gone' = IF parent \in gone THEN gone \union {s} ELSE gone
                /\ task_count' = task_count + 1 /\ failed' = failed
             \/ Fail(s, stack, {}) /\ gone' = gone
          /\ UNCHANGED <<cleaner, forgotten, asleep, held, missed>>
  BY DEF task_create_thread_process
<1>2. /\ task[s] = Stopped /\ task \in [Slots -> Task]
      /\ stack \in Blocks \union {NULL} /\ {} \in SUBSET Blocks
      /\ Take({} \union ({stack} \ {NULL}), Kernel)
  BY <1>1, FreeSlot DEF TasksInvariant, TaskTypes
<1>3. task[parent].heap \in Heaps /\ parent # NULL
  <2>1. parent \notin failed
    BY <1>1 DEF TasksInvariant, SlotsTrue
  <2>2. task[parent].heap # NULL
    BY <1>1, <2>1 DEF TasksInvariant, SlotsTrue
  <2>3. task[parent].heap \in Heaps \union {NULL}
    BY DEF TasksInvariant, TaskTypes, Task
  <2> QED BY <2>2, <2>3, Names DEF Heaps
<1>4. CASE /\ task' = [task EXCEPT ![s].state = "CREATED", ![s].mode = "THREAD",
                                   ![s].parent = parent, ![s].heap = task[parent].heap,
                                   ![s].stackptr = stack]
           /\ gone' = IF parent \in gone THEN gone \union {s} ELSE gone
           /\ task_count' = task_count + 1 /\ failed' = failed
  <2>1. Written(s, "THREAD", parent, task[parent].heap, stack, {})
    BY <1>2, <1>4, ThreadWritten, Zenon
  <2>2. Taken(s, "THREAD", parent, task[parent].heap, stack, {})
    BY <1>1, <1>2, <1>3, <1>4, <2>1, Names DEF Taken
  <2> QED BY <1>1, <1>3, <2>2 DEF Creation
<1>5. CASE Fail(s, stack, {}) /\ gone' = gone
  <2>1. Written(s, "KTHREAD", NULL, NULL, stack, {})
    BY <1>2, <1>5, FailureWritten, Zenon DEF Fail
  <2>2. Taken(s, "KTHREAD", NULL, NULL, stack, {})
    BY <1>1, <1>2, <1>5, <2>1 DEF Taken, Fail
  <2> QED BY <2>2 DEF Creation
<1> QED BY <1>1, <1>4, <1>5

LEMMA CreationInvariant ==
    ASSUME TasksInvariant, Creation
    PROVE  TasksInvariant'
BY TakenInvariant DEF Creation

-----------------------------------------------------------------------------
(* The states of tasks. *)

(* One task changes its state. *)
LEMMA StateChanged ==
    ASSUME TasksInvariant, NEW s \in Slots, NEW new \in TaskStates \ {"STOPPED"},
           task' = [task EXCEPT ![s].state = new], task[s].state # "STOPPED",
           s \notin failed, asleep' \subseteq Slots,
           \A c \in Slots : c # s => (c \in asleep' <=> c \in asleep),
           s \in asleep' => new \in {"SLEEPING", "ZOMBIE"},
           cleaner.pc # "idle" => s # cleaner.pid,
           cleaner.pc # "idle" /\ task[s].parent = cleaner.pid =>
               s \in missed \/ (new = "ZOMBIE" /\ s \notin asleep'),
           UNCHANGED <<task_count, in_use, origin, cleaner, failed, forgotten, held, missed, gone>>
    PROVE  TasksInvariant'
<1>1. TaskTypes /\ SlotsTrue /\ CleanerTrue /\ Owned /\ Counted
  BY DEF TasksInvariant
<1>2. /\ task' \in [Slots -> Task] /\ task'[s].state = new
      /\ \A c \in Slots : /\ Same(c) /\ task'[c].parent = task[c].parent
                          /\ task'[c].mode = task[c].mode /\ task'[c].heap = task[c].heap
                          /\ c # s => task'[c] = task[c]
  BY <1>1 DEF TaskTypes, Task, Same
<1>3. TaskTypes'
  BY <1>1, <1>2 DEF TaskTypes
<1>4. SlotsTrue'
  BY <1>1, <1>2 DEF SlotsTrue, TaskTypes
<1>5. CleanerTrue'
  <2>1. \A c \in Slots : Owns(c)' = Owns(c)
    BY <1>2, SameReferences DEF Freed
  <2> QED BY <2>1, <1>1, <1>2 DEF CleanerTrue
<1>6. Owned'
  BY <1>1, <1>2, StillOwned DEF BeingCleaned
<1>7. Counted'
  BY <1>1, <1>2, SameCount
<1> QED BY <1>3, <1>4, <1>5, <1>6, <1>7 DEF TasksInvariant

LEMMA StatesInvariant ==
    ASSUME TasksInvariant, NEW s \in Slots,
           Start(s) \/ Sleep(s) \/ Wake(s) \/ scheduler_exit(s)
    PROVE  TasksInvariant'
<1>1. /\ TaskTypes /\ SlotsTrue /\ CleanerTrue
      /\ asleep \subseteq Slots
  BY DEF TasksInvariant, TaskTypes
<1>2. CASE Start(s)
  BY <1>1, <1>2, StateChanged DEF Start, TaskStates, SlotsTrue, CleanerTrue
<1>3. CASE Sleep(s)
  BY <1>1, <1>3, StateChanged DEF Sleep, TaskStates, SlotsTrue, CleanerTrue
<1>4. CASE Wake(s)
  BY <1>1, <1>4, StateChanged DEF Wake, TaskStates, SlotsTrue, CleanerTrue
<1>5. CASE scheduler_exit(s)
  BY <1>1, <1>5, StateChanged DEF scheduler_exit, TaskStates, SlotsTrue, CleanerTrue
<1> QED BY <1>2, <1>3, <1>4, <1>5

-----------------------------------------------------------------------------
(* System calls change the table of a running task and nothing of the slots. *)
LEMMA TableChanged ==
    ASSUME TasksInvariant, NEW s \in Slots, NEW tab \in AllocationTable,
           task[s].state \notin {"STOPPED", "CREATED"}, task' = [task EXCEPT ![s].table = tab],
           s \in gone \/ ~BeingCleaned(s),
           UNCHANGED <<task_count, in_use, cleaner, failed, asleep, missed, gone>>,
           \A c \in gone : held'[c] = held[c], \A c \in Slots : c # s => held'[c] = held[c],
           held' \in [Slots -> SUBSET Blocks], ~BeingCleaned(s),
           origin' \in [Blocks -> Heaps \union {NULL}], Owned'
    PROVE  TasksInvariant'
<1>1. TaskTypes /\ SlotsTrue /\ CleanerTrue /\ Owned /\ Counted
  BY DEF TasksInvariant
<1>2. /\ task' \in [Slots -> Task]
      /\ \A c \in Slots : /\ task'[c].state = task[c].state /\ task'[c].mode = task[c].mode
                          /\ task'[c].parent = task[c].parent /\ task'[c].heap = task[c].heap
                          /\ c # s => task'[c] = task[c]
  BY <1>1 DEF TaskTypes, Task
<1>3. TaskTypes'
  BY <1>1, <1>2 DEF TaskTypes
<1>4. SlotsTrue'
  BY <1>1, <1>2 DEF SlotsTrue, TaskTypes
<1>5. CleanerTrue'
  <2>1. \A c \in Slots : c # s => Owns(c)' = Owns(c)
    <3>1. \A c \in Slots : c # s => Live(c)' = Live(c)
      BY <1>2 DEF Live, Freed
    <3> QED BY <3>1, <1>2 DEF Owns
  <2> QED BY <2>1, <1>1, <1>2 DEF CleanerTrue, BeingCleaned
<1>6. Counted'
  BY <1>1, <1>2, SameCount
<1> QED BY <1>3, <1>4, <1>5, <1>6 DEF TasksInvariant

(* Any table with one entry more or less is a table. *)
LEMMA TableTypes ==
    ASSUME NEW tab \in AllocationTable, NEW b \in Blocks \union {NULL}
    PROVE  Add(tab, b) \in AllocationTable /\ Remove(tab, b) \in AllocationTable
<1>1. ASSUME NEW n \in Entries, NEW r \in [address : Blocks \union {NULL}, size : {0, 1}]
      PROVE  [tab EXCEPT ![n] = r] \in AllocationTable
  BY <1>1 DEF AllocationTable
<1>2. Add(tab, b) \in AllocationTable
  <2> DEFINE free == {e \in Entries : tab[e] = FreeEntry}
  <2>1. free # {} => Min(free) \in Entries
    BY FirstMember, Names
  <2> QED BY <1>1, <2>1 DEF Add
<1>3. Remove(tab, b) \in AllocationTable
  <2> DEFINE same == {e \in Entries : tab[e].address = b}
  <2>1. same # {} => Min(same) \in Entries
    BY FirstMember, Names
  <2> QED BY <1>1, <2>1 DEF Remove, FreeEntry
<1> QED BY <1>2, <1>3

LEMMA CallInvariant ==
    ASSUME TasksInvariant, NEW s \in Slots, NEW b \in Blocks \union {NULL},
           syscall_malloc(s, b) \/ syscall_free(s, b)
    PROVE  TasksInvariant'
<1>1. TaskTypes /\ SlotsTrue /\ CleanerTrue /\ Owned /\ Counted
  BY DEF TasksInvariant
<1>2. /\ task[s].state = "RUNNING"
      /\ UNCHANGED <<task_count, in_use, cleaner, failed, asleep, missed, gone>>
  BY DEF syscall_malloc, syscall_free
<1>3. PICK tab \in AllocationTable : task' = [task EXCEPT ![s].table = tab]
  <2>1. task[s].table \in AllocationTable
    BY <1>1, SlotTypes
  <2> QED BY <2>1, TableTypes DEF syscall_malloc, syscall_free
<1>4. ~BeingCleaned(s)
  BY <1>1, <1>2 DEF CleanerTrue, BeingCleaned
<1>5. CASE s \in gone
  <2>1. UNCHANGED <<origin, forgotten, held>>
    BY <1>5 DEF syscall_malloc, syscall_free
  <2>2. Owned'
    BY <1>1, <1>2, <1>3, <1>5, <2>1, GoneOwned
  <2> QED BY <1>1, <1>2, <1>3, <1>4, <2>1, <2>2, TableChanged DEF TaskTypes
<1>6. CASE s \notin gone
  <2>1. Owned' /\ origin' \in [Blocks -> Heaps \union {NULL}]
    BY <1>1, <1>6, MallocOwned, FreeOwned
  <2>2. /\ held' \in [Slots -> SUBSET Blocks] /\ \A c \in Slots : c # s => held'[c] = held[c]
        /\ \A c \in gone : held'[c] = held[c]
    BY <1>1, <1>6 DEF TaskTypes, syscall_malloc, syscall_free
  <2> QED BY <1>2, <1>3, <1>4, <2>1, <2>2, TableChanged
<1> QED BY <1>5, <1>6

-----------------------------------------------------------------------------
(* Cleanup. *)

LEMMA MarkInvariant ==
    ASSUME TasksInvariant, NEW s \in Slots, MarkChildren(s)
    PROVE  TasksInvariant'
<1> DEFINE threads == {c \in Slots : task[c].parent = s /\ task[c].mode = "THREAD"}
<1>1. TaskTypes /\ SlotsTrue /\ CleanerTrue /\ Owned /\ Counted
  BY DEF TasksInvariant
<1>2. /\ cleaner.pc = "idle" /\ task[s].state = "ZOMBIE" /\ s \notin asleep
      /\ task' = [c \in Slots |-> IF c \in threads THEN [task[c] EXCEPT !.state = "ZOMBIE"]
                                  ELSE task[c]]
      /\ missed' = missed \union (threads \intersect asleep)
      /\ cleaner' = [Resting EXCEPT !.pc = "free", !.pid = s]
      /\ UNCHANGED <<task_count, in_use, origin, failed, forgotten, asleep, held, gone>>
  BY DEF MarkChildren
<1>3. \A c \in Slots : task[c].parent = s <=> c \in threads
  BY <1>1, Names DEF SlotsTrue, Heaps
<1>4. \A c \in Slots :
          /\ task'[c] \in Task /\ Same(c)
          /\ task'[c].mode = task[c].mode /\ task'[c].parent = task[c].parent
          /\ task'[c].heap = task[c].heap
          /\ c \in threads => task'[c].state = "ZOMBIE"
          /\ c \notin threads => task'[c] = task[c]
  BY <1>1, <1>2 DEF TaskTypes, Task, TaskStates, Same
<1>5. \A c \in threads : task[c].state # "STOPPED" /\ c \notin failed
  BY <1>1, <1>3, TasksAssumption DEF SlotsTrue, Stopped, Slots
<1>6. cleaner' = [pc |-> "free", pid |-> s, entry |-> 0]
  BY <1>2 DEF Resting
<1> HIDE DEF threads
<1>7. TaskTypes'
  <2>1. task' \in [Slots -> Task]
    BY <1>2, <1>4
  <2>2. cleaner' \in [pc : {"idle", "free", "clear", "reset"}, pid : Nat, entry : Nat]
    BY <1>6, Names
  <2> QED BY <1>1, <1>2, <2>1, <2>2 DEF TaskTypes
<1>8. SlotsTrue'
  <2>1. failed \subseteq Slots /\ asleep \subseteq Slots
    BY <1>1 DEF TaskTypes
  <2> QED BY <2>1, <1>1, <1>2, <1>4, <1>5 DEF SlotsTrue
<1>9. CleanerTrue'
  BY <1>2, <1>3, <1>4, <1>6 DEF CleanerTrue
<1>10. Owned'
  BY <1>1, <1>2, <1>4, <1>6, StillOwned DEF BeingCleaned
<1>11. Counted'
  BY <1>1, <1>2, <1>4, <1>5, SameCount
<1> QED BY <1>7, <1>8, <1>9, <1>10, <1>11 DEF TasksInvariant

LEMMA FreeHeapInvariant ==
    ASSUME TasksInvariant, FreeHeap
    PROVE  TasksInvariant'
<1>1. TaskTypes /\ SlotsTrue /\ CleanerTrue /\ Owned /\ Counted
  BY DEF TasksInvariant
<1>2. PICK p \in Slots : p = cleaner.pid
  BY <1>1 DEF FreeHeap, CleanerTrue
<1> DEFINE users == {c \in Slots : task[c].heap = p}
<1>3. /\ cleaner.pc = "free" /\ cleaner' = [cleaner EXCEPT !.pc = "reset"]
      /\ held' = [c \in Slots |-> IF c \in users THEN {} ELSE held[c]]
      /\ gone' = gone \union users
      /\ UNCHANGED <<task, task_count, in_use, failed, asleep, missed>>
  BY <1>2 DEF FreeHeap
<1>4. /\ Owned' /\ origin' \in [Blocks -> Heaps \union {NULL}]
      /\ Owns(p)' = {}
  BY <1>1, <1>2, FreeHeapOwned
<1>5. cleaner'.pc = "reset" /\ cleaner'.pid = p
  BY <1>1, <1>2, <1>3 DEF TaskTypes
<1>6. TaskTypes'
  BY <1>1, <1>3, <1>4 DEF TaskTypes
<1>7. SlotsTrue'
  <2>1. \A c \in users : task[c].state # "STOPPED"
    BY <1>1, Names DEF SlotsTrue, Stopped, Heaps
  <2>2. \A c \in Slots : held'[c] = {} \/ held'[c] = held[c]
    BY <1>3
  <2>3. \A c \in gone' : held'[c] = {}
    BY <1>1, <1>3 DEF SlotsTrue, TaskTypes
  <2> QED BY <2>1, <2>2, <2>3, <1>1, <1>3 DEF SlotsTrue
<1>8. CleanerTrue'
  BY <1>1, <1>2, <1>3, <1>4, <1>5 DEF CleanerTrue
<1>9. Counted'
  BY <1>1, <1>3, SameCount
<1> QED BY <1>4, <1>6, <1>7, <1>8, <1>9 DEF TasksInvariant

LEMMA FreeEntriesInvariant ==
    ASSUME TasksInvariant, FreeEntries
    PROVE  TasksInvariant'
<1>1. TaskTypes /\ SlotsTrue /\ CleanerTrue /\ Owned /\ Counted
  BY DEF TasksInvariant
<1>2. PICK s \in Slots : s = cleaner.pid
  BY <1>1 DEF FreeEntries, CleanerTrue
<1> DEFINE full == {e \in Entries : task[s].table[e].address # NULL /\ task[s].table[e].size > 0}
           n == Min(full)
<1>3. /\ cleaner.pc = "free" /\ BeingCleaned(s)
      /\ UNCHANGED <<task, task_count, in_use, failed, forgotten, asleep, held, missed, gone>>
  BY <1>2 DEF FreeEntries, BeingCleaned
<1>4. CASE full = {}
  <2>1. cleaner' = [cleaner EXCEPT !.pc = "reset"] /\ origin' = origin
    BY <1>2, <1>4 DEF FreeEntries
  <2>2. cleaner'.pid = cleaner.pid /\ cleaner'.pc = "reset"
    BY <1>1, <2>1 DEF TaskTypes
  <2>3. Owns(s)' = {}
    <3>1. CASE s \in gone
      BY <3>1, <1>3 DEF Owns, Live
    <3>2. CASE s \notin gone
      <4>1. \A e \in Entries : task[s].table[e].address # NULL => task[s].table[e].size = 1
        BY <1>1, <3>2 DEF Owned, TablesSound, SoundTable
      <4> QED BY <4>1, <1>3, <1>4 DEF Owns, Live
    <3> QED BY <3>1, <3>2
  <2>4. TaskTypes' /\ SlotsTrue'
    BY <1>1, <1>3, <2>1 DEF TaskTypes, SlotsTrue
  <2>5. CleanerTrue'
    BY <1>1, <1>2, <1>3, <2>2, <2>3 DEF CleanerTrue
  <2>6. Owned'
    BY <1>1, <1>3, <2>1, <2>2, StillOwned DEF BeingCleaned, Same
  <2>7. Counted'
    BY <1>1, <1>3, SameCount
  <2> QED BY <2>4, <2>5, <2>6, <2>7 DEF TasksInvariant
<1>5. CASE full # {}
  <2>1. /\ cleaner' = [cleaner EXCEPT !.pc = "clear", !.entry = n]
        /\ IF s \in gone THEN UNCHANGED origin ELSE GiveBack({task[s].table[n].address})
    BY <1>2, <1>5 DEF FreeEntries
  <2>2. n \in Entries /\ task[s].table[n].address # NULL
    BY <1>5, FirstMember, Names
  <2> HIDE DEF n
  <2>3. Owned' /\ origin' \in [Blocks -> Heaps \union {NULL}]
    BY <1>1, <1>2, <1>3, <2>1, <2>2, FreeEntryOwned
  <2>4. /\ cleaner'.pc = "clear" /\ cleaner'.pid = s /\ cleaner'.entry = n
        /\ cleaner' \in [pc : {"idle", "free", "clear", "reset"}, pid : Nat, entry : Nat]
    BY <1>1, <1>2, <2>1, <2>2, Names DEF TaskTypes
  <2>5. TaskTypes' /\ SlotsTrue'
    BY <1>1, <1>3, <2>3, <2>4 DEF TaskTypes, SlotsTrue
  <2>6. CleanerTrue'
    BY <1>1, <1>2, <1>3, <2>2, <2>4 DEF CleanerTrue
  <2>7. Counted'
    BY <1>1, <1>3, SameCount
  <2> QED BY <2>3, <2>5, <2>6, <2>7 DEF TasksInvariant
<1> QED BY <1>4, <1>5

LEMMA ClearEntryInvariant ==
    ASSUME TasksInvariant, ClearEntry
    PROVE  TasksInvariant'
<1>1. TaskTypes /\ SlotsTrue /\ CleanerTrue /\ Owned /\ Counted
  BY DEF TasksInvariant
<1>2. PICK s \in Slots : s = cleaner.pid
  BY <1>1 DEF ClearEntry, CleanerTrue
<1> DEFINE tab == [task[s].table EXCEPT ![cleaner.entry] = FreeEntry]
<1>3. /\ cleaner.pc = "clear" /\ cleaner' = [cleaner EXCEPT !.pc = "free", !.entry = 0]
      /\ task' = [task EXCEPT ![s].table = tab]
      /\ UNCHANGED <<task_count, in_use, origin, failed, forgotten, asleep, held, missed, gone>>
  BY <1>2, Zenon DEF ClearEntry
<1>4. tab \in AllocationTable
  BY <1>1, SlotTypes DEF AllocationTable, FreeEntry
<1> HIDE DEF tab
<1>5. Owned'
  BY <1>1, <1>2, ClearEntryOwned
<1>6. /\ task' \in [Slots -> Task]
      /\ \A c \in Slots : /\ task'[c].state = task[c].state /\ task'[c].mode = task[c].mode
                          /\ task'[c].parent = task[c].parent /\ task'[c].heap = task[c].heap
                          /\ c # s => task'[c] = task[c]
  BY <1>1, <1>3, <1>4 DEF TaskTypes, Task
<1>7. TaskTypes'
  BY <1>1, <1>3, <1>6 DEF TaskTypes
<1>8. SlotsTrue'
  <2>1. task[s].state = "ZOMBIE"
    BY <1>1, <1>2, <1>3 DEF CleanerTrue
  <2> QED BY <2>1, <1>1, <1>3, <1>6 DEF SlotsTrue, TaskTypes
<1>9. CleanerTrue'
  <2>1. cleaner'.pc = "free" /\ cleaner'.pid = s
    BY <1>1, <1>2, <1>3 DEF TaskTypes
  <2> QED BY <2>1, <1>1, <1>2, <1>3, <1>6 DEF CleanerTrue
<1>10. Counted'
  BY <1>1, <1>3, <1>6, SameCount
<1> QED BY <1>5, <1>7, <1>8, <1>9, <1>10 DEF TasksInvariant

LEMMA ResetInvariant ==
    ASSUME TasksInvariant, Reset
    PROVE  TasksInvariant'
<1>1. TaskTypes /\ SlotsTrue /\ CleanerTrue /\ Owned /\ Counted
  BY DEF TasksInvariant
<1>2. PICK s \in Slots : s = cleaner.pid
  BY <1>1 DEF Reset, CleanerTrue
<1>3. /\ task' = [task EXCEPT ![s] = Stopped] /\ task_count' = task_count - 1
      /\ cleaner' = Resting /\ missed' = missed \ {s} /\ gone' = gone \ {s}
      /\ held' = [held EXCEPT ![s] = {}]
      /\ UNCHANGED <<in_use, failed, asleep>>
      /\ task[s].state = "ZOMBIE" /\ s \notin asleep
  BY <1>1, <1>2 DEF Reset, CleanerTrue
<1>4. Owned' /\ origin' \in [Blocks -> Heaps \union {NULL}]
  BY <1>1, <1>2, ResetOwned
<1>5. task'[s] = Stopped /\ \A c \in Slots : c # s => task'[c] = task[c]
  BY <1>1, <1>3 DEF TaskTypes
<1>6. TaskTypes'
  BY <1>1, <1>3, <1>4, StoppedTask DEF TaskTypes, Resting
<1>7. s \notin failed
  BY <1>1, <1>3 DEF SlotsTrue
<1>8. SlotsTrue'
  BY <1>1, <1>3, <1>5, <1>7 DEF SlotsTrue, TaskTypes, Stopped
<1>9. CleanerTrue'
  BY <1>3 DEF CleanerTrue, Resting
<1>10. Counted'
  <2> DEFINE taken == Slots \ Free
  <2>1. s \in taken /\ Slots \ Free' = taken \ {s}
    BY <1>3, <1>5 DEF Free, Stopped
  <2>2. IsFiniteSet(taken) /\ Cardinality(taken) \in Nat /\ Cardinality(failed) \in Nat
    BY FiniteSlots, <1>1 DEF TaskTypes
  <2>3. Cardinality(Slots \ Free') = Cardinality(taken) - 1
    BY <2>1, <2>2, FS_RemoveElement
  <2>4. task_count = Cardinality(taken) - Cardinality(failed)
    BY <1>1 DEF Counted
  <2> HIDE DEF taken
  <2>5. task_count' = Cardinality(Slots \ Free') - Cardinality(failed')
    BY <1>3, <2>2, <2>3, <2>4
  <2> QED BY <2>5 DEF Counted
<1> QED BY <1>4, <1>6, <1>8, <1>9, <1>10 DEF TasksInvariant

-----------------------------------------------------------------------------
LEMMA TasksStep == TasksInvariant /\ [TasksNext]_tasksVars => TasksInvariant'
<1> SUFFICES ASSUME TasksInvariant, [TasksNext]_tasksVars PROVE TasksInvariant'
  OBVIOUS
<1>1. ASSUME NEW argc \in 0 .. MaxArgs, task_create_kthread(argc) PROVE TasksInvariant'
  BY <1>1, KthreadCreates, CreationInvariant
<1>2. CASE create_process
  BY <1>2, ProcessCreates, CreationInvariant
<1>3. CASE FreeHeap \/ FreeEntries \/ ClearEntry
  BY <1>3, FreeHeapInvariant, FreeEntriesInvariant, ClearEntryInvariant
<1>4. CASE Reset
  BY <1>4, ResetInvariant
<1>5. ASSUME NEW s \in Slots, task_create_thread_process(s) PROVE TasksInvariant'
  BY <1>5, ThreadCreates, CreationInvariant
<1>6. ASSUME NEW s \in Slots, Start(s) \/ Sleep(s) \/ Wake(s) \/ scheduler_exit(s)
      PROVE  TasksInvariant'
  BY <1>6, StatesInvariant
<1>7. ASSUME NEW s \in Slots, NEW b \in Blocks \union {NULL},
             syscall_malloc(s, b) \/ syscall_free(s, b)
      PROVE  TasksInvariant'
  BY <1>7, CallInvariant
<1>8. ASSUME NEW s \in Slots, MarkChildren(s) PROVE TasksInvariant'
  BY <1>8, MarkInvariant
<1>9. CASE UNCHANGED tasksVars
  <2>1. /\ task' = task /\ task_count' = task_count /\ origin' = origin
        /\ cleaner' = cleaner /\ failed' = failed /\ forgotten' = forgotten
        /\ asleep' = asleep /\ held' = held /\ missed' = missed /\ gone' = gone
    BY <1>9 DEF tasksVars
  <2>2. TaskTypes /\ SlotsTrue /\ CleanerTrue /\ Owned /\ Counted
    BY DEF TasksInvariant
  <2>3. TaskTypes' /\ SlotsTrue'
    BY <2>1, <2>2 DEF TaskTypes, SlotsTrue
  <2>4. CleanerTrue'
    BY <2>1, <2>2 DEF CleanerTrue, Owns, Live, Freed
  <2>5. Owned'
    BY <2>1, <2>2, StillOwned DEF Same, BeingCleaned
  <2>6. Counted'
    BY <2>1, <2>2, SameCount
  <2> QED BY <2>3, <2>4, <2>5, <2>6 DEF TasksInvariant
<1> QED BY <1>1, <1>2, <1>3, <1>4, <1>5, <1>6, <1>7, <1>8, <1>9 DEF TasksNext

(* A slot is stopped by the last part of its cleanup and by nothing else.  *)
LEMMA OnlyReset ==
    ASSUME TasksInvariant, [TasksNext]_tasksVars, NEW s \in Slots,
           task[s].state # "STOPPED", task'[s].state = "STOPPED"
    PROVE  cleaner.pc # "idle" /\ s = cleaner.pid
<1>1. task \in [Slots -> Task]
  BY DEF TasksInvariant, TaskTypes
<1>2. CASE Creation
  BY <1>2 DEF Creation, Taken, Written
<1>3. ASSUME NEW c \in Slots, Start(c) \/ Sleep(c) \/ Wake(c) \/ scheduler_exit(c) PROVE FALSE
  <2>1. PICK new \in TaskStates \ {"STOPPED"} : task' = [task EXCEPT ![c].state = new]
    BY <1>3 DEF Start, Sleep, Wake, scheduler_exit, TaskStates
  <2> QED BY <1>1, <2>1 DEF Task
<1>4. ASSUME NEW c \in Slots, NEW b \in Blocks \union {NULL},
             syscall_malloc(c, b) \/ syscall_free(c, b)
      PROVE  FALSE
  <2>1. PICK tab : task' = [task EXCEPT ![c].table = tab]
    BY <1>4 DEF syscall_malloc, syscall_free
  <2> QED BY <1>1, <2>1 DEF Task
<1>5. ASSUME NEW c \in Slots, MarkChildren(c) PROVE FALSE
  BY <1>1, <1>5 DEF MarkChildren
<1>6. CASE FreeHeap \/ FreeEntries
  BY <1>6 DEF FreeHeap, FreeEntries
<1>7. CASE ClearEntry
  BY <1>1, <1>7 DEF ClearEntry, TasksInvariant, CleanerTrue
<1>8. CASE Reset
  BY <1>1, <1>8 DEF Reset, TasksInvariant, CleanerTrue
<1>9. CASE UNCHANGED tasksVars
  BY <1>9 DEF tasksVars
<1> QED BY <1>2, <1>3, <1>4, <1>5, <1>6, <1>7, <1>8, <1>9,
           KthreadCreates, ProcessCreates, ThreadCreates DEF TasksNext

THEOREM TasksInvariance == TasksSpec => []TasksInvariant
BY InitTasks, TasksStep, PTL DEF TasksSpec

(* No block belongs to two tasks or twice to one, and what a task leads to *)
(* is allocated: whatever creations fail, and between any two statements   *)
(* of a cleanup.  The block that a cleanup has just freed is led to by     *)
(* nobody, though it is listed and may be given to another task before its *)
(* entry is cleared; and whoever leads to a heap that was given back is in *)
(* gone and leads to none of its blocks (task_cleanup, syscall_free).      *)
THEOREM NothingFreedTwice == TasksSpec => []OneOwner
<1>1. TasksInvariant => OneOwner
  <2> SUFFICES ASSUME TasksInvariant PROVE OneOwner
    OBVIOUS
  <2>1. TablesSound /\ Apart /\ CleanerTrue
    BY DEF TasksInvariant, Owned
  <2>2. \A s \in Slots : \A d, e \in Live(s) :
           d # e => task[s].table[d].address # task[s].table[e].address
    BY <2>1 DEF TablesSound, SoundTable, Live
  <2>3. cleaner.pc = "clear" => task[cleaner.pid].state = "ZOMBIE"
    BY <2>1 DEF CleanerTrue
  <2> QED BY <2>1, <2>2, <2>3 DEF OneOwner, Apart
<1> QED BY <1>1, TasksInvariance, PTL

(* The leaks are those of a full allocation table and of arguments, and    *)
(* task_count is what was created less what was cleaned up.                *)
THEOREM LeaksKnown == TasksSpec => []AccountedFor
<1>1. TasksInvariant => AccountedFor
  BY DEF TasksInvariant, Owned, Covered, Counted, AccountedFor
<1> QED BY <1>1, TasksInvariance, PTL

(* A slot is given back only when no thread of its task can run, but those *)
(* that slept when they were told to end (task_cleanup).                   *)
THEOREM ThreadsEndFirst == TasksSpec => OrphansStop
<1> DEFINE Told == \A s, c \in Slots :
                      task[s].state # "STOPPED" /\ task'[s].state = "STOPPED" /\ task[c].parent = s =>
                          task[c].state \in {"ZOMBIE", "STOPPED"} \/ c \in missed
<1>1. TasksInvariant /\ [TasksNext]_tasksVars => [Told]_tasksVars
  <2> SUFFICES ASSUME TasksInvariant, [TasksNext]_tasksVars, NEW s \in Slots, NEW c \in Slots,
                      task[s].state # "STOPPED", task'[s].state = "STOPPED", task[c].parent = s
               PROVE  task[c].state \in {"ZOMBIE", "STOPPED"} \/ c \in missed
    OBVIOUS
  <2>1. cleaner.pc # "idle" /\ s = cleaner.pid
    BY OnlyReset
  <2> QED BY <2>1 DEF TasksInvariant, CleanerTrue
<1>2. [][Told]_tasksVars => OrphansStop
  BY DEF OrphansStop
<1> QED BY <1>1, <1>2, TasksInvariance, PTL DEF TasksSpec

-----------------------------------------------------------------------------
(* Heap. *)

(* The words of the heap and of the page behind it, and the memories with  *)
(* these words.                                                            *)
Words == 0 .. (MaxPages + 1) * PageSize - 1
Memory == [Words -> Int]

(* The footer of the piece at a leads back to its header.                  *)
LeadsBack(m, a) ==
    LET foot == a + m[a + 1] - Footer
    IN  m[foot] = Magic /\ m[foot + 1] = a

(* The tags in memory m divide the words lo .. hi - 1 into the pieces that *)
(* begin at P: each has its header and its footer, ends where the next     *)
(* begins, and begins where another ends.                                  *)
Tiles(m, P, lo, hi) ==
    /\ P \subseteq lo .. hi - 1
    /\ lo # hi => lo \in P
    /\ \A a \in P : /\ m[a] = Magic /\ LeadsBack(m, a)
                    /\ m[a + 1] \in Int /\ m[a + 1] >= Header + Footer
                    /\ a + m[a + 1] \in P \union {hi}
    /\ \A a, b \in P : a < b => a + m[a + 1] <= b
    /\ \A c \in P \union {hi} : c # lo => \E a \in P : a + m[a + 1] = c

(* The pieces of P that are holes.                                         *)
Holes(m, P) == {a \in P : m[a + 2] # 0}

(* The heap as heap_manager_init leaves it: one hole, without a footer.    *)
Untouched(m, P, e, ix) ==
    P = {0} /\ ix = <<0>> /\ m[0] = Magic /\ m[1] = e /\ m[2] # 0

Block == [at : Nat, size : Nat, aligned : BOOLEAN]

(* The blocks L that clients hold are the pieces that are no holes: each   *)
(* has a piece of its own, as large as was asked for and on a page         *)
(* boundary if that was asked for.                                         *)
Clients(m, P, L) ==
    /\ L \subseteq Block
    /\ \A b \in L : /\ b.at - Header \in P /\ m[b.at - Header + 2] = 0
                    /\ b.size + Header + Footer <= m[b.at - Header + 1]
                    /\ b.aligned => b.at % PageSize = 0
    /\ \A b, c \in L : b.at = c.at => b = c
    /\ \A a \in P : m[a + 2] = 0 => \E b \in L : b.at = a + Header

(* What the index lists, and that it lists it once.                        *)
Indexed(ix) == {ix[i] : i \in 1 .. Len(ix)}
Once(ix) == \A i, j \in 1 .. Len(ix) : ix[i] = ix[j] => i = j

(* The index lists holes only; it lists every hole.                        *)
IndexTrue(m, P, ix) == ix \in Seq(Nat) /\ Once(ix) /\ Indexed(ix) \subseteq Holes(m, P)
IndexAll(m, P, ix) == Holes(m, P) \subseteq Indexed(ix)

(* Where the heap may end: contract never takes the minimal heap.          *)
Ends == {n * PageSize : n \in MinPages .. MaxPages}

(* The tags, the blocks and the index agree on which pieces there are.     *)
Sane(m, P, e, L, ix) ==
    /\ m \in Memory /\ e \in Ends
    /\ Tiles(m, P, 0, e) \/ Untouched(m, P, e, ix)
    /\ Clients(m, P, L) /\ IndexTrue(m, P, ix)

(* Until one of the five coincidences happens, there are pieces that tags, *)
(* blocks and index agree on.  A call makes the index longer by one hole   *)
(* at most.                                                                *)
HeapInvariant ==
    /\ calls \in Nat
    /\ odd = "none" => \E P \in SUBSET Nat :
          /\ Sane(mem, P, end, live, index)
          /\ Len(index) <= calls + 1

(* The same, and the index lists every hole.                               *)
AllIndexed ==
    odd = "none" => \E P \in SUBSET Nat :
        Sane(mem, P, end, live, index) /\ IndexAll(mem, P, index)

(* A set of numbers that is not empty has a least element.                 *)
LEMMA LeastNumber ==
    ASSUME NEW T, T \subseteq Nat, T # {}
    PROVE  \E m \in T : \A n \in T : m <= n
<1>1. PICK m \in T : \A n \in T : ~(<<n, m>> \in OpToRel(<, Nat))
  BY NatLessThanWellFounded, WFMin
<1>2. \A n \in T : ~(n < m)
  BY <1>1 DEF OpToRel
<1> QED
  BY <1>2

(* The binary search of ordered_array_insert returns a place of the index, *)
(* whatever the sizes are now.  The recursive function exists: a partial   *)
(* one for ranges up to some length is extended to ranges one longer.      *)
LEMMA PlaceRange ==
    ASSUME NEW m, NEW ix \in Seq(Nat), NEW hole
    PROVE  Place(m, ix, hole) \in 0 .. Len(ix)
<1> DEFINE N == Len(ix)
           D == 0 .. N
           Mid(lo, hi) == lo + (hi - lo) \div 2
           Step(f, lo, hi) == IF lo >= hi THEN lo
                              ELSE IF SizeAt(m, ix[Mid(lo, hi) + 1]) < SizeAt(m, hole)
                              THEN f[<<Mid(lo, hi) + 1, hi>>] ELSE f[<<lo, Mid(lo, hi)>>]
           F(f) == [bounds \in D \X D |-> Step(f, bounds[1], bounds[2])]
           left == CHOOSE f : f = F(f)
<1>1. Place(m, ix, hole) = left[<<0, N>>]
  BY DEF Place
<1>2. N \in Nat
  OBVIOUS
<1>3. \A lo, hi \in D : lo < hi => /\ Mid(lo, hi) \in D /\ Mid(lo, hi) + 1 \in D
                                  /\ lo <= Mid(lo, hi) /\ Mid(lo, hi) < hi
  BY <1>2
<1>4. \A f : F(f) = [bounds \in D \X D |-> Step(f, bounds[1], bounds[2])]
  OBVIOUS
<1> HIDE DEF N, Mid, F
<1>5. ASSUME NEW f, NEW lo \in D, NEW hi \in D
      PROVE  F(f)[<<lo, hi>>] = Step(f, lo, hi)
  <2> HIDE DEF D, Step
  <2>1. <<lo, hi>> \in D \X D /\ <<lo, hi>>[1] = lo /\ <<lo, hi>>[2] = hi
    OBVIOUS
  <2> QED
    BY <1>4, <2>1
<1>6. ASSUME NEW f, NEW lo \in D, NEW hi \in D, lo >= hi
      PROVE  Step(f, lo, hi) = lo
  BY <1>6
<1>7. ASSUME NEW f, NEW g, NEW lo \in D, NEW hi \in D, 
             \A l, h \in D : h - l < hi - lo => f[<<l, h>>] = g[<<l, h>>]
      PROVE  Step(f, lo, hi) = Step(g, lo, hi)
  <2>1. CASE lo >= hi
    BY <1>6, <2>1
  <2>2. CASE lo < hi
    <3>1. /\ f[<<Mid(lo, hi) + 1, hi>>] = g[<<Mid(lo, hi) + 1, hi>>]
          /\ f[<<lo, Mid(lo, hi)>>] = g[<<lo, Mid(lo, hi)>>]
      <4>1. /\ Mid(lo, hi) \in D /\ Mid(lo, hi) + 1 \in D
            /\ hi - (Mid(lo, hi) + 1) < hi - lo /\ Mid(lo, hi) - lo < hi - lo
        BY <1>2, <1>3, <2>2
      <4> QED
        BY <1>7, <4>1
    <3> QED
      BY <3>1
  <2> QED
    BY <1>2, <2>1, <2>2
<1>8. ASSUME NEW f, NEW lo \in D, NEW hi \in D, 
             \A l, h \in D : h - l < hi - lo => f[<<l, h>>] \in D
      PROVE  Step(f, lo, hi) \in D
  <2>1. CASE lo >= hi
    BY <1>6, <2>1
  <2>2. CASE lo < hi
    <3>1. /\ f[<<Mid(lo, hi) + 1, hi>>] \in D
          /\ f[<<lo, Mid(lo, hi)>>] \in D
      BY <1>2, <1>3, <1>8, <2>2
    <3> QED
      BY <2>2, <1>2, <3>1
  <2> QED
    BY <1>2, <2>1, <2>2
<1> HIDE DEF Step
<1> DEFINE Ok(g, d) == \A lo, hi \in D : hi - lo <= d => g[<<lo, hi>>] = Step(g, lo, hi)
           T == {d \in Nat : ~ \E g : Ok(g, d)}
           U == {d \in Nat : \E lo, hi \in D : hi - lo <= d /\ left[<<lo, hi>>] \notin D}
<1>9. T = {}
  <2>1. SUFFICES ASSUME T # {} PROVE FALSE
    OBVIOUS
  <2>2. PICK d \in T : \A n \in T : d <= n
    <3>1. T \subseteq Nat
      OBVIOUS
    <3> HIDE DEF T
    <3> QED
      BY <2>1, <3>1, LeastNumber
  <2>3. PICK g : \A lo, hi \in D : hi - lo < d => g[<<lo, hi>>] = Step(g, lo, hi)
    <3>1. CASE d = 0
      <4>1. ASSUME NEW lo \in D, NEW hi \in D, hi - lo < d
            PROVE  F(0)[<<lo, hi>>] = Step(F(0), lo, hi)
        <5>1. lo >= hi
          BY <1>2, <3>1, <4>1
        <5>2. Step(0, lo, hi) = lo /\ Step(F(0), lo, hi) = lo
          BY <1>6, <5>1
        <5> QED
          BY <1>5, <5>2
      <4> QED
        BY <4>1
    <3>2. CASE d # 0
      <4>1. d - 1 \in Nat /\ ~(d <= d - 1)
        BY <2>2, <3>2
      <4>2. \E g : Ok(g, d - 1)
        BY <2>2, <4>1
      <4>3. \A lo, hi \in D : hi - lo < d => hi - lo <= d - 1
        BY <1>2, <2>2
      <4> QED
        BY <4>2, <4>3
    <3> QED
      BY <3>1, <3>2
  <2>4. \A lo, hi \in D : hi - lo < d => F(g)[<<lo, hi>>] = g[<<lo, hi>>]
    BY <1>5, <2>3
  <2>5. ASSUME NEW lo \in D, NEW hi \in D, hi - lo <= d
        PROVE  F(g)[<<lo, hi>>] = Step(F(g), lo, hi)
    <3>1. \A l, h \in D : h - l < hi - lo => F(g)[<<l, h>>] = g[<<l, h>>]
      <4>1. \A l, h \in D : h - l < hi - lo => h - l < d
        BY <1>2, <2>2, <2>5
      <4> QED
        BY <2>4, <4>1
    <3>2. Step(F(g), lo, hi) = Step(g, lo, hi)
      <4>1. PICK f : f = F(g)
        OBVIOUS
      <4>2. \A l, h \in D : h - l < hi - lo => f[<<l, h>>] = g[<<l, h>>]
        BY <3>1, <4>1
      <4>3. Step(f, lo, hi) = Step(g, lo, hi)
        <5> HIDE DEF D, T, U, Ok, left
        <5> QED
          BY <1>7, <4>2
      <4> QED
        BY <4>1, <4>3
    <3> QED
      BY <1>5, <3>2
  <2>6. Ok(F(g), d)
    BY <2>5
  <2> QED
    BY <2>2, <2>6
<1>10. \E f : f = F(f)
  <2>1. PICK g : Ok(g, N)
    BY <1>2, <1>9
  <2>2. \A lo, hi \in D : hi - lo <= N
    BY <1>2
  <2>3. \A lo, hi \in D : F(g)[<<lo, hi>>] = g[<<lo, hi>>]
    BY <1>5, <2>1, <2>2
  <2>4. ASSUME NEW lo \in D, NEW hi \in D
        PROVE  Step(F(g), lo, hi) = Step(g, lo, hi)
    BY <1>7, <2>3
  <2>5. F(F(g)) = F(g)
    <3> HIDE DEF D
    <3>1. \A bounds \in D \X D : bounds[1] \in D /\ bounds[2] \in D
      OBVIOUS
    <3> QED
      BY <2>4, <3>1, <1>4
  <2> QED
    BY <2>5
<1>11. left = F(left)
  BY <1>10
<1> HIDE DEF left
<1>12. \A lo, hi \in D : left[<<lo, hi>>] = Step(left, lo, hi)
  BY <1>5, <1>11
<1>13. U = {}
  <2>1. SUFFICES ASSUME U # {} PROVE FALSE
    OBVIOUS
  <2>2. PICK d \in U : \A n \in U : d <= n
    <3>1. U \subseteq Nat
      OBVIOUS
    <3> HIDE DEF U
    <3> QED
      BY <2>1, <3>1, LeastNumber
  <2>3. PICK lo \in D, hi \in D : hi - lo <= d /\ left[<<lo, hi>>] \notin D
    BY <2>2
  <2>4. lo < hi
    BY <1>2, <1>6, <1>12, <2>3
  <2>5. d - 1 \in Nat /\ ~(d <= d - 1)
    BY <1>2, <2>2, <2>3, <2>4
  <2>6. \A l, h \in D : h - l <= d - 1 => left[<<l, h>>] \in D
    BY <2>2, <2>5
  <2>7. \A l, h \in D : h - l < hi - lo => left[<<l, h>>] \in D
    BY <1>2, <2>2, <2>3, <2>6
  <2> QED
    BY <1>8, <1>12, <2>3, <2>7
<1>14. 0 \in D /\ N \in D /\ N - 0 <= N
  BY <1>2
<1> QED
  BY <1>1, <1>2, <1>13, <1>14 DEF N

(* Arithmetic of pages.                                                    *)
LEMMA Grow == ASSUME NEW q \in Nat, NEW k \in Nat, NEW n \in Nat, q <= k PROVE q * n <= k * n
  OBVIOUS

LEMMA DivPage ==
    ASSUME NEW n \in Nat
    PROVE  /\ n \div PageSize \in Nat /\ n % PageSize \in 0 .. PageSize - 1
           /\ n = (n \div PageSize) * PageSize + (n % PageSize)
  BY HeapAssumption, SMTT(30) DEF RightTest, Header, Footer

LEMMA ModPage ==
    ASSUME NEW q \in Nat, NEW r \in 0 .. PageSize - 1
    PROVE  (q * PageSize + r) % PageSize = r
  BY HeapAssumption, SMTT(30) DEF RightTest, Header, Footer

(* RoundUp gives the least multiple of the page size that is not less.     *)
LEMMA RoundedUp ==
    ASSUME NEW n \in Nat
    PROVE  /\ \E q \in Nat : RoundUp(n) = q * PageSize
           /\ n <= RoundUp(n) /\ RoundUp(n) \in Nat
           /\ \A k \in Nat : n <= k * PageSize => RoundUp(n) <= k * PageSize
<1> DEFINE q == (n + PageSize - 1) \div PageSize
<1>0. PageSize \in Nat \ {0} /\ n + PageSize - 1 \in Nat
  BY HeapAssumption DEF RightTest, Header, Footer
<1>1. /\ q \in Nat /\ RoundUp(n) = q * PageSize
      /\ q * PageSize <= n + PageSize - 1 /\ n <= q * PageSize
  BY <1>0, DivPage DEF RoundUp
<1> HIDE DEF q
<1>2. ASSUME NEW k \in Nat, n <= k * PageSize PROVE q <= k
  <2>1. CASE k + 1 <= q
    <3>1. (k + 1) * PageSize <= q * PageSize
      BY <1>0, <1>1, <2>1, Grow
    <3>2. (k + 1) * PageSize = k * PageSize + PageSize
      BY <1>0
    <3> DEFINE x == k * PageSize  y == q * PageSize
    <3>3. x \in Nat /\ y \in Nat
      BY <1>0, <1>1
    <3> HIDE DEF x, y
    <3> QED
      BY <1>0, <1>1, <1>2, <3>1, <3>2, <3>3 DEF x, y
  <2> QED
    BY <1>1, <2>1
<1> QED
  BY <1>0, <1>1, <1>2, Grow

(* ordered_array_insert adds its hole, and only that, if there is room.    *)
LEMMA Inserted ==
    ASSUME NEW m, NEW ix \in Seq(Nat), NEW hole \in Nat, Once(ix), hole \notin Indexed(ix)
    PROVE  LET r == Insert(m, ix, hole)
           IN  /\ r \in Seq(Nat) /\ Once(r) /\ Len(r) <= Len(ix) + 1
               /\ Indexed(r) \subseteq Indexed(ix) \union {hole}
               /\ Len(ix) < IndexSize => Indexed(r) = Indexed(ix) \union {hole}
<1> DEFINE N == Len(ix)
           n == Place(m, ix, hole)
           r == SubSeq(ix, 1, n) \o <<hole>> \o SubSeq(ix, n + 1, N)
<1>1. CASE Len(ix) >= IndexSize
  BY <1>1, HeapAssumption DEF Insert
<1>2. CASE ~(Len(ix) >= IndexSize)
  <2>1. Insert(m, ix, hole) = r
    BY <1>2 DEF Insert
  <2>2. n \in 0 .. N /\ N \in Nat
    BY PlaceRange
  <2> HIDE DEF n
  <2>3. /\ SubSeq(ix, 1, n) \in Seq(Nat) /\ Len(SubSeq(ix, 1, n)) = n
        /\ \A i \in 1 .. n : SubSeq(ix, 1, n)[i] = ix[i]
    BY <2>2, SMT
  <2>4. /\ SubSeq(ix, n + 1, N) \in Seq(Nat) /\ Len(SubSeq(ix, n + 1, N)) = N - n
        /\ \A i \in 1 .. N - n : SubSeq(ix, n + 1, N)[i] = ix[n + i]
    BY <2>2, SMT
  <2> DEFINE s == SubSeq(ix, 1, n)
             t == SubSeq(ix, n + 1, N)
  <2> HIDE DEF s, t, N
  <2>5. /\ r \in Seq(Nat) /\ Len(r) = N + 1
        /\ \A i \in 1 .. N + 1 :
              r[i] = IF i <= n THEN ix[i] ELSE IF i = n + 1 THEN hole ELSE ix[i - 1]
    BY <2>2, <2>3, <2>4 DEF s, t
  <2> HIDE DEF r
  <2>6. Once(r)
    <3> SUFFICES ASSUME NEW i \in 1 .. N + 1, NEW j \in 1 .. N + 1, r[i] = r[j]
                 PROVE  i = j
      BY <2>5 DEF Once
    <3>1. \A k \in 1 .. N : ix[k] # hole
      BY DEF Indexed, N
    <3>2. \A k, l \in 1 .. N : ix[k] = ix[l] => k = l
      BY DEF Once, N
    <3> DEFINE o(k) == IF k <= n THEN k ELSE k - 1
    <3>3. \A k \in 1 .. N + 1 : k # n + 1 => o(k) \in 1 .. N /\ r[k] = ix[o(k)]
      BY <2>2, <2>5
    <3>4. r[n + 1] = hole
      BY <2>2, <2>5
    <3>5. CASE i = n + 1 \/ j = n + 1
      BY <3>1, <3>3, <3>4, <3>5
    <3>6. CASE i # n + 1 /\ j # n + 1
      <4>1. o(i) \in 1 .. N /\ o(j) \in 1 .. N /\ ix[o(i)] = ix[o(j)]
        BY <3>3, <3>6
      <4>2. o(i) = o(j)
        BY <3>2, <4>1
      <4> QED
        BY <2>2, <3>6, <4>2
    <3> QED
      BY <3>5, <3>6
  <2>7. Indexed(r) = Indexed(ix) \union {hole}
    <3>1. ASSUME NEW i \in 1 .. N + 1 PROVE r[i] \in Indexed(ix) \union {hole}
      <4>1. \A k \in 1 .. N : ix[k] \in Indexed(ix)
        BY DEF Indexed, N
      <4>2. r[i] = IF i <= n THEN ix[i] ELSE IF i = n + 1 THEN hole ELSE ix[i - 1]
        BY <2>5
      <4>3. CASE i <= n
        <5>1. i \in 1 .. N
          BY <2>2, <4>3
        <5> QED
          BY <4>1, <4>2, <4>3, <5>1
      <4>4. CASE i = n + 1
        <5>1. ~(i <= n)
          BY <2>2, <4>4
        <5> QED
          BY <4>2, <4>4, <5>1
      <4>5. CASE ~(i <= n) /\ i # n + 1
        <5>1. i - 1 \in 1 .. N
          BY <2>2, <4>5
        <5> QED
          BY <4>1, <4>2, <4>5, <5>1
      <4> QED
        BY <4>3, <4>4, <4>5
    <3>2. ASSUME NEW k \in 1 .. N PROVE \E i \in 1 .. N + 1 : r[i] = ix[k]
      <4>1. CASE k <= n
        <5>1. k \in 1 .. N + 1
          BY <2>2
        <5>2. r[k] = ix[k]
          BY <2>5, <4>1, <5>1
        <5> QED
          BY <5>1, <5>2
      <4>2. CASE k > n
        <5>1. r[k + 1] = ix[k] /\ k + 1 \in 1 .. N + 1
          BY <2>2, <2>5, <4>2
        <5> QED
          BY <5>1
      <4> QED
        BY <2>2, <4>1, <4>2
    <3>3. r[n + 1] = hole /\ n + 1 \in 1 .. N + 1
      BY <2>2, <2>5
    <3>4. Indexed(ix) = {ix[k] : k \in 1 .. N} /\ Indexed(r) = {r[k] : k \in 1 .. N + 1}
      BY <2>5 DEF Indexed, N
    <3>5. Indexed(ix) \subseteq Indexed(r) /\ hole \in Indexed(r)
      BY <3>2, <3>3, <3>4
    <3>6. Indexed(r) \subseteq Indexed(ix) \union {hole}
      BY <3>1, <3>4
    <3> QED
      BY <3>5, <3>6
  <2> QED
    BY <2>1, <2>5, <2>6, <2>7 DEF N
<1> QED
  BY <1>1, <1>2

(* ordered_array_remove removes its entry, and only that.                  *)
LEMMA Removed ==
    ASSUME NEW ix \in Seq(Nat), NEW i \in 1 .. Len(ix), Once(ix)
    PROVE  LET r == RemoveAt(ix, i)
           IN  /\ r \in Seq(Nat) /\ Once(r) /\ Len(r) = Len(ix) - 1
               /\ Indexed(r) = Indexed(ix) \ {ix[i]}
<1> DEFINE N == Len(ix)
           s == SubSeq(ix, 1, i - 1)
           t == SubSeq(ix, i + 1, N)
           r == s \o t
<1>1. N \in Nat /\ i \in 1 .. N /\ RemoveAt(ix, i) = r
  BY DEF RemoveAt
<1>2. /\ s \in Seq(Nat) /\ Len(s) = i - 1
      /\ \A j \in 1 .. i - 1 : s[j] = ix[j]
  BY <1>1, SMT
<1>3. /\ t \in Seq(Nat) /\ Len(t) = N - i
      /\ \A j \in 1 .. N - i : t[j] = ix[i + j]
  BY <1>1, SMT
<1> HIDE DEF s, t, N
<1>4. /\ r \in Seq(Nat) /\ Len(r) = N - 1
      /\ \A j \in 1 .. N - 1 : r[j] = IF j < i THEN ix[j] ELSE ix[j + 1]
  <2>1. /\ s \o t \in Seq(Nat) /\ Len(s \o t) = Len(s) + Len(t)
        /\ \A j \in 1 .. Len(s) + Len(t) :
              (s \o t)[j] = IF j <= Len(s) THEN s[j] ELSE t[j - Len(s)]
    BY <1>2, <1>3, ConcatProperties
  <2>2. /\ r \in Seq(Nat) /\ Len(r) = (i - 1) + (N - i)
        /\ \A j \in 1 .. (i - 1) + (N - i) :
              r[j] = IF j <= i - 1 THEN s[j] ELSE t[j - (i - 1)]
    BY <1>2, <1>3, <2>1, Zenon
  <2> HIDE DEF r
  <2>3. ASSUME NEW j \in 1 .. N - 1
        PROVE  r[j] = IF j < i THEN ix[j] ELSE ix[j + 1]
    <3>1. CASE j < i
      <4>1. j \in 1 .. i - 1 /\ j \in 1 .. (i - 1) + (N - i) /\ j <= i - 1
        BY <1>1, <3>1
      <4> QED
        BY <1>2, <2>2, <3>1, <4>1
    <3>2. CASE ~(j < i)
      <4>1. /\ j - (i - 1) \in 1 .. N - i /\ j \in 1 .. (i - 1) + (N - i)
            /\ ~(j <= i - 1) /\ i + (j - (i - 1)) = j + 1
        BY <1>1, <3>2
      <4> QED
        BY <1>3, <2>2, <3>2, <4>1
    <3> QED
      BY <3>1, <3>2
  <2>4. (i - 1) + (N - i) = N - 1
    BY <1>1
  <2> QED
    BY <2>2, <2>3, <2>4, Zenon
<1> HIDE DEF r
<1>5. \A k, l \in 1 .. N : ix[k] = ix[l] => k = l
  BY DEF Once, N
<1>6. Once(r)
  <2> SUFFICES ASSUME NEW k \in 1 .. N - 1, NEW j \in 1 .. N - 1, r[k] = r[j]
               PROVE  k = j
    BY <1>4 DEF Once
  <2> DEFINE o(l) == IF l < i THEN l ELSE l + 1
  <2>1. ASSUME NEW l \in 1 .. N - 1 PROVE o(l) \in 1 .. N /\ r[l] = ix[o(l)]
    <3>1. o(l) \in 1 .. N
      BY <1>1
    <3>2. r[l] = IF l < i THEN ix[l] ELSE ix[l + 1]
      BY <1>4
    <3> QED
      BY <3>1, <3>2
  <2>2. o(k) = o(j)
    <3>1. o(k) \in 1 .. N /\ o(j) \in 1 .. N /\ ix[o(k)] = ix[o(j)]
      BY <2>1
    <3> HIDE DEF o
    <3> QED
      BY <1>5, <3>1
  <2> QED
    BY <1>1, <2>2
<1>7. ASSUME NEW j \in 1 .. N - 1 PROVE r[j] \in Indexed(ix) \ {ix[i]}
  <2>1. CASE j < i
    <3>1. j \in 1 .. N /\ j # i /\ r[j] = ix[j]
      BY <1>1, <1>4, <2>1
    <3> QED
      BY <1>1, <1>5, <3>1 DEF Indexed, N
  <2>2. CASE ~(j < i)
    <3>1. j + 1 \in 1 .. N /\ j + 1 # i /\ r[j] = ix[j + 1]
      BY <1>1, <1>4, <2>2
    <3> QED
      BY <1>1, <1>5, <3>1 DEF Indexed, N
  <2> QED
    BY <2>1, <2>2
<1>8. ASSUME NEW k \in 1 .. N, k # i PROVE \E j \in 1 .. N - 1 : r[j] = ix[k]
  <2>1. CASE k < i
    BY <1>1, <1>4, <2>1
  <2>2. CASE k > i
    <3>1. k - 1 \in 1 .. N - 1 /\ r[k - 1] = ix[k]
      BY <1>1, <1>4, <2>2
    <3> QED
      BY <3>1
  <2> QED
    BY <1>1, <1>8, <2>1, <2>2
<1>9. Indexed(r) = Indexed(ix) \ {ix[i]}
  <2>1. Indexed(ix) = {ix[k] : k \in 1 .. N} /\ Indexed(r) = {r[k] : k \in 1 .. N - 1}
    BY <1>4 DEF Indexed, N
  <2>2. Indexed(r) \subseteq Indexed(ix) \ {ix[i]}
    BY <1>7, <2>1
  <2>3. ASSUME NEW x \in Indexed(ix) \ {ix[i]} PROVE x \in Indexed(r)
    <3>1. PICK k \in 1 .. N : x = ix[k]
      BY <2>1, <2>3
    <3>2. k # i
      BY <2>3, <3>1
    <3> QED
      BY <1>8, <2>1, <3>1, <3>2
  <2> QED
    BY <2>2, <2>3
<1> QED
  BY <1>1, <1>4, <1>6, <1>9 DEF N

(* How divisions are put together: none, one piece, two divisions side by  *)
(* side; and taken apart at a piece.  A division depends on its own words  *)
(* only.                                                                   *)
LEMMA TilesEmpty == ASSUME NEW m, NEW lo \in Int PROVE Tiles(m, {}, lo, lo)
  BY DEF Tiles

LEMMA TilesOne ==
    ASSUME NEW m, NEW a \in Nat, NEW s \in Int, s >= Header + Footer,
           m[a] = Magic, m[a + 1] = s, m[a + s - Footer] = Magic, m[a + s - Footer + 1] = a
    PROVE  Tiles(m, {a}, a, a + s)
  BY DEF Tiles, LeadsBack, Header, Footer

LEMMA TilesFrame ==
    ASSUME NEW m, NEW m2, NEW lo \in Nat, NEW hi \in Nat, NEW P, Tiles(m, P, lo, hi),
           \A w \in lo .. hi - 1 : m2[w] = m[w]
    PROVE  Tiles(m2, P, lo, hi)
<1>1. ASSUME NEW a \in P
      PROVE  /\ m2[a] = m[a] /\ m2[a + 1] = m[a + 1]
             /\ LeadsBack(m2, a)
  <2>1. /\ a \in Int /\ lo <= a /\ m[a + 1] \in Int /\ m[a + 1] >= 5 /\ a + m[a + 1] <= hi
    BY DEF Tiles, Header, Footer
  <2>2. m2[a] = m[a] /\ m2[a + 1] = m[a + 1]
    BY <2>1
  <2>3. m2[a + m[a + 1] - Footer] = m[a + m[a + 1] - Footer]
    BY <2>1 DEF Footer
  <2>4. m2[a + m[a + 1] - Footer + 1] = m[a + m[a + 1] - Footer + 1]
    BY <2>1 DEF Footer
  <2> QED
    BY <2>2, <2>3, <2>4 DEF Tiles, LeadsBack
<1> QED
  BY <1>1 DEF Tiles

LEMMA TilesJoin ==
    ASSUME NEW m, NEW lo \in Nat, NEW mid \in Nat, NEW hi \in Nat, NEW P, NEW Q,
           lo <= mid, mid <= hi, Tiles(m, P, lo, mid), Tiles(m, Q, mid, hi)
    PROVE  Tiles(m, P \union Q, lo, hi)
<1> DEFINE R == P \union Q
<1>1. R \subseteq lo .. hi - 1
  BY DEF Tiles
<1>2. lo # hi => lo \in R
  BY DEF Tiles
<1>3. ASSUME NEW a \in R
      PROVE  /\ m[a] = Magic /\ LeadsBack(m, a)
             /\ m[a + 1] \in Int /\ m[a + 1] >= Header + Footer
             /\ a + m[a + 1] \in R \union {hi}
  BY DEF Tiles
<1>4. ASSUME NEW a \in R, NEW b \in R, a < b PROVE a + m[a + 1] <= b
  <2>1. CASE a \in P /\ b \in P
    BY <1>4, <2>1 DEF Tiles
  <2>2. CASE a \in Q /\ b \in Q
    BY <1>4, <2>2 DEF Tiles
  <2>3. CASE a \in P /\ b \in Q
    BY <2>3 DEF Tiles
  <2>4. CASE a \in Q /\ b \in P
    BY <1>4, <2>4 DEF Tiles
  <2> QED
    BY <2>1, <2>2, <2>3, <2>4
<1>5. ASSUME NEW c \in R \union {hi}, c # lo PROVE \E a \in R : a + m[a + 1] = c
  <2>1. c \in P \union {mid} \/ (c \in Q \union {hi} /\ c # mid)
    OBVIOUS
  <2> QED
    BY <1>5, <2>1 DEF Tiles
<1> QED
  BY <1>1, <1>2, <1>3, <1>4, <1>5 DEF Tiles

LEMMA TilesSplit ==
    ASSUME NEW m, NEW lo \in Nat, NEW hi \in Nat, NEW P, NEW c \in P \union {hi}, lo <= hi,
           Tiles(m, P, lo, hi)
    PROVE  /\ Tiles(m, {a \in P : a < c}, lo, c)
           /\ Tiles(m, {a \in P : c <= a}, c, hi)
<1> DEFINE A == {a \in P : a < c}
           B == {a \in P : c <= a}
<1>0. P \subseteq Nat /\ c \in Nat /\ lo <= c /\ c <= hi /\ P \subseteq lo .. hi - 1
  BY DEF Tiles
<1>1. ASSUME NEW a \in P
      PROVE  /\ m[a] = Magic /\ LeadsBack(m, a)
             /\ m[a + 1] \in Int /\ m[a + 1] >= Header + Footer
             /\ a + m[a + 1] \in P \union {hi}
             /\ a < c => a + m[a + 1] <= c
             /\ a + m[a + 1] > a
  BY <1>0 DEF Tiles, Header, Footer
<1>2. Tiles(m, A, lo, c)
  <2>1. A \subseteq lo .. c - 1
    <3>1. \A a \in P : a \in Nat /\ lo <= a /\ a <= hi - 1
      BY <1>0
    <3>2. ASSUME NEW a \in P, a \in A PROVE a \in lo .. c - 1
      BY <1>0, <3>1, <3>2
    <3> QED
      BY <3>2
  <2>2. lo # c => lo \in A
    BY <1>0 DEF Tiles
  <2>3. ASSUME NEW a \in A PROVE a + m[a + 1] \in A \union {c}
    BY <1>0, <1>1
  <2>4. ASSUME NEW b \in A \union {c}, b # lo PROVE \E a \in A : a + m[a + 1] = b
    <3>1. PICK a \in P : a + m[a + 1] = b
      BY <2>4 DEF Tiles
    <3> QED
      BY <1>0, <1>1, <3>1
  <2> QED
    BY <1>1, <2>1, <2>2, <2>3, <2>4 DEF Tiles
<1>3. Tiles(m, B, c, hi)
  <2>1. B \subseteq c .. hi - 1
    <3>1. \A a \in P : a \in Nat /\ lo <= a /\ a <= hi - 1
      BY <1>0
    <3>2. ASSUME NEW a \in P, a \in B PROVE a \in c .. hi - 1
      BY <1>0, <3>1, <3>2
    <3> QED
      BY <3>2
  <2>2. c # hi => c \in B
    BY <1>0
  <2>3. ASSUME NEW a \in B PROVE a + m[a + 1] \in B \union {hi}
    BY <1>0, <1>1
  <2>4. ASSUME NEW b \in B \union {hi}, b # c PROVE \E a \in B : a + m[a + 1] = b
    <3>1. b # lo /\ b \in P \union {hi}
      BY <1>0, <2>4 DEF Tiles
    <3>2. PICK a \in P : a + m[a + 1] = b
      BY <3>1 DEF Tiles
    <3> QED
      BY <1>0, <1>1, <2>4, <3>2
  <2> QED
    BY <1>1, <2>1, <2>2, <2>3, <2>4 DEF Tiles
<1> QED
  BY <1>2, <1>3

(* What is left and right of a hole, or of the end *)

(* Writing the tags of a piece changes no word outside it.                 *)
LEMMA PutPiece ==
    ASSUME NEW m \in Memory, NEW a \in Nat, NEW s \in Int, NEW k \in Int,
           s >= Header + Footer, a + s - 1 \in Words
    PROVE  LET m2 == PutFooter(PutHeader(m, a, s, k), a + s - Footer, a)
           IN  /\ m2 \in Memory
               /\ m2[a] = Magic /\ m2[a + 1] = s /\ m2[a + 2] = k
               /\ m2[a + s - Footer] = Magic /\ m2[a + s - Footer + 1] = a
               /\ \A w \in Words : ~(a <= w /\ w < a + s) => m2[w] = m[w]
<1> DEFINE m1 == PutHeader(m, a, s, k)
           m2 == PutFooter(m1, a + s - Footer, a)
<1> USE DEF Magic, Header, Footer
<1>1. /\ a \in Words /\ a + 1 \in Words /\ a + 2 \in Words
      /\ a + s - Footer \in Words /\ a + s - Footer + 1 \in Words
  <2> DEFINE top == (MaxPages + 1) * PageSize
  <2>1. top \in Nat
    BY HeapAssumption DEF RightTest
  <2> HIDE DEF top
  <2>2. Words = 0 .. top - 1
    BY DEF top, Words
  <2> QED
    BY <2>1, <2>2
<1>2. /\ m1 \in Memory /\ m1[a] = Magic /\ m1[a + 1] = s /\ m1[a + 2] = k
      /\ \A w \in Words : w # a /\ w # a + 1 /\ w # a + 2 => m1[w] = m[w]
  BY <1>1 DEF PutHeader, Memory
<1> HIDE DEF m1
<1>3. /\ m2 \in Memory /\ m2[a + s - Footer] = Magic /\ m2[a + s - Footer + 1] = a
      /\ \A w \in Words : w # a + s - Footer /\ w # a + s - Footer + 1 => m2[w] = m1[w]
  BY <1>1, <1>2 DEF PutFooter, Memory
<1> HIDE DEF m2
<1>4. m2[a] = Magic /\ m2[a + 1] = s /\ m2[a + 2] = k
  BY <1>1, <1>2, <1>3
<1>5. \A w \in Words : ~(a <= w /\ w < a + s) => m2[w] = m[w]
  BY <1>2, <1>3 DEF Words
<1> QED
  BY <1>2, <1>3, <1>4, <1>5 DEF m1, m2

(* The words in front of the end, and those of the page behind it, exist.  *)
LEMMA InHeap ==
    ASSUME NEW e \in Ends
    PROVE  /\ PageSize \in Nat /\ PageSize > 19
           /\ e \in Nat /\ e >= PageSize /\ e >= MinPages * PageSize /\ e <= MaxPages * PageSize
           /\ \A w \in Nat : w < e + PageSize => w \in Words
<1>0. PageSize \in Nat /\ PageSize > 19 /\ MinPages \in Nat \ {0} /\ MaxPages \in Nat
  BY HeapAssumption DEF RightTest, Header, Footer
<1>1. PICK n \in MinPages .. MaxPages : e = n * PageSize
  BY DEF Ends
<1> DEFINE x == MaxPages * PageSize
<1>2. x \in Nat /\ e \in Nat /\ e <= x /\ e >= MinPages * PageSize /\ e >= 1 * PageSize
  BY <1>0, <1>1, Grow
<1>3. (MaxPages + 1) * PageSize = x + PageSize
  BY <1>0
<1> HIDE DEF x
<1>4. \A w \in Nat : w < e + PageSize => w \in 0 .. x + PageSize - 1
  BY <1>0, <1>2
<1> QED
  BY <1>0, <1>2, <1>3, <1>4 DEF x, Words

(* The sizes that a cut gives, where no part is too small for its tags: a  *)
(* hole in front, the block and a hole behind, where the first and the     *)
(* last may be missing.                                                    *)
LEMMA CutArithmetic ==
    ASSUME NEW pos \in Nat, NEW hole \in Int, NEW size \in Nat, NEW aligned \in BOOLEAN,
           NEW offset, NEW gap, NEW new, NEW rest,
           offset = IF aligned THEN (PageSize - ((pos + Header) % PageSize)) % PageSize ELSE 0,
           hole - offset >= size + Header + Footer,
           gap = Gap(pos, aligned),
           new = IF hole - (size + Header + Footer) < Header + Footer
                 THEN hole ELSE size + Header + Footer,
           rest = hole - gap - new,
           ~(aligned /\ gap < Header + Footer),
           rest \notin 1 .. Header + Footer - 1
    PROVE  /\ gap \in Nat /\ new \in Nat /\ new >= size + 5 /\ rest \in Nat
           /\ IF aligned THEN gap >= 5 /\ (pos + gap + Header) % PageSize = 0 ELSE gap = 0
           /\ rest = 0 \/ rest >= 5
<1> USE DEF Header, Footer
<1>0. PageSize \in Nat \ {0}
  BY HeapAssumption DEF RightTest
<1>1. CASE ~aligned
  BY <1>1 DEF Gap
<1>2. CASE aligned
  <2> DEFINE q == pos \div PageSize
             r == pos % PageSize
             x == q * PageSize
  <2>1. q \in Nat /\ r \in Nat /\ r < PageSize /\ x \in Nat /\ pos = x + r
    BY <1>0, DivPage
  <2>2. gap = PageSize - r - 3 /\ gap >= 5
    BY <1>2, <1>0, <2>1 DEF Gap
  <2>3. (q + 1) * PageSize = x + PageSize /\ 0 * PageSize = 0
    BY <1>0, <2>1
  <2>4. (x + (r + 3)) % PageSize = r + 3
    <3>1. q \in Nat /\ r + 3 \in 0 .. PageSize - 1
      BY <1>0, <2>1, <2>2
    <3> HIDE DEF r
    <3> QED
      BY <3>1, ModPage
  <2>5. (0 * PageSize + gap) % PageSize = gap
    <3>1. 0 \in Nat /\ gap \in 0 .. PageSize - 1
      BY <1>0, <2>1, <2>2
    <3> QED
      BY <3>1, ModPage
  <2>6. ((q + 1) * PageSize + 0) % PageSize = 0
    BY <1>0, <2>1, ModPage
  <2> HIDE DEF q, r, x
  <2>7. pos + Header = x + (r + 3) /\ pos + gap + Header = x + PageSize + 0
    BY <1>0, <2>1, <2>2
  <2>8. offset = gap /\ (pos + gap + Header) % PageSize = 0
    <3>1. (pos + Header) % PageSize = r + 3
      BY <2>4, <2>7
    <3>2. PageSize - (r + 3) = 0 * PageSize + gap
      <4> DEFINE z == 0 * PageSize
      <4>1. z = 0
        BY <2>3
      <4> HIDE DEF z
      <4>2. PageSize - (r + 3) = z + gap
        BY <1>0, <2>1, <2>2, <4>1
      <4> QED
        BY <4>2 DEF z
    <3>3. offset = gap
      BY <1>2, <2>5, <3>1, <3>2
    <3> QED
      BY <2>3, <2>6, <2>7, <3>3
  <2>9. gap \in Nat /\ gap >= 5 /\ offset = gap
    BY <1>0, <2>1, <2>2, <2>8
  <2>10. new = size + 5
    BY <2>9
  <2>11. rest \in Nat
    BY <2>9, <2>10
  <2>12. rest = 0 \/ rest >= 5
    BY <2>11
  <2>13. new \in Nat /\ new >= size + 5
    BY <2>10
  <2> HIDE DEF q, r, x, Header, Footer
  <2> QED
    BY <1>2, <2>8, <2>9, <2>11, <2>12, <2>13
<1> QED
  BY <1>1, <1>2

(* The hole at a has a left and a right side, which the tags divide too.   *)
HoleAround(m, P, e, a) ==
    /\ a \in P /\ a \in Nat /\ m[a + 1] \in Int /\ m[a + 1] >= 5 /\ a + m[a + 1] <= e
    /\ m[a + 2] # 0
    /\ Tiles(m, {p \in P : p < a}, 0, a)
    /\ Tiles(m, {p \in P : a + m[a + 1] <= p}, a + m[a + 1], e)
    /\ P = {p \in P : p < a} \union {a} \union {p \in P : a + m[a + 1] <= p}

(* Every hole in the index has such divisions around it.                   *)
LEMMA Around ==
    ASSUME NEW m, NEW P, NEW e, NEW L, NEW ix, Sane(m, P, e, L, ix), NEW a \in Indexed(ix)
    PROVE  HoleAround(m, P, e, a)
<1>1. a \in P /\ m[a + 2] # 0 /\ e \in Nat /\ e > 19
  BY InHeap DEF Sane, IndexTrue, Holes
<1>2. CASE Tiles(m, P, 0, e)
  <2>1. /\ P \subseteq Nat /\ m[a + 1] \in Int /\ m[a + 1] >= 5 /\ a + m[a + 1] <= e
        /\ a + m[a + 1] \in P \union {e}
        /\ \A p \in P : p < a \/ p = a \/ a + m[a + 1] <= p
    BY <1>1, <1>2 DEF Tiles, Header, Footer
  <2>2. Tiles(m, {p \in P : p < a}, 0, a)
    <3>1. 0 \in Nat /\ e \in Nat /\ 0 <= e /\ a \in P \union {e}
      BY <1>1
    <3> QED
      BY <1>2, <3>1, TilesSplit
  <2>3. Tiles(m, {p \in P : a + m[a + 1] <= p}, a + m[a + 1], e)
    <3>1. 0 \in Nat /\ e \in Nat /\ 0 <= e
      BY <1>1
    <3> QED
      BY <1>2, <2>1, <3>1, TilesSplit
  <2> QED
    BY <1>1, <2>1, <2>2, <2>3 DEF HoleAround
<1>3. CASE Untouched(m, P, e, ix)
  <2>1. P = {0} /\ a = 0 /\ m[a + 1] = e
    BY <1>1, <1>3 DEF Untouched
  <2>2. {p \in P : p < a} = {} /\ {p \in P : a + m[a + 1] <= p} = {}
    BY <1>1, <2>1
  <2> QED
    BY <1>1, <2>1, <2>2, TilesEmpty DEF HoleAround
<1> QED
  BY <1>2, <1>3 DEF Sane

(* The tags of a piece of size s at a, with k in the place of is_hole.     *)
Marked(m, a, s, k) ==
    /\ m[a] = Magic /\ m[a + 1] = s /\ m[a + 2] = k
    /\ m[a + s - Footer] = Magic /\ m[a + s - Footer + 1] = a

LEMMA MarkedPut ==
    ASSUME NEW m \in Memory, NEW a \in Nat, NEW s \in Int, NEW k \in Int,
           s >= Header + Footer, a + s - 1 \in Words
    PROVE  LET m2 == PutFooter(PutHeader(m, a, s, k), a + s - Footer, a)
           IN  /\ m2 \in Memory /\ Marked(m2, a, s, k)
               /\ \A w \in Words : ~(a <= w /\ w < a + s) => m2[w] = m[w]
  BY PutPiece DEF Marked

LEMMA MarkedFrame ==
    ASSUME NEW m, NEW m2, NEW a \in Nat, NEW s \in Int, NEW k,
           s >= Header + Footer, Marked(m, a, s, k),
           \A w \in Nat : a <= w /\ w < a + s => m2[w] = m[w]
    PROVE  Marked(m2, a, s, k)
<1>1. /\ m2[a] = m[a] /\ m2[a + 1] = m[a + 1] /\ m2[a + 2] = m[a + 2]
      /\ m2[a + s - Footer] = m[a + s - Footer] /\ m2[a + s - Footer + 1] = m[a + s - Footer + 1]
  BY DEF Header, Footer
<1> QED
  BY <1>1 DEF Marked

(* What Cut leaves of the hole of size `hole` at pos. *)
CutInto(h, g, i, aligned, size, gap, new, rest) ==
    LET pos == h.index[i]
        left == IF aligned THEN h.index ELSE RemoveAt(h.index, i)
    IN  /\ gap = Gap(pos, aligned) /\ SizeAt(h.mem, pos) = gap + new + rest
        /\ new >= size + 5 /\ (rest = 0 \/ rest >= 5)
        /\ IF aligned THEN gap >= 5 /\ (pos + gap + Header) % PageSize = 0 ELSE gap = 0
        /\ g.end = h.end /\ g.mem \in Memory
        /\ \A w \in Words : ~(pos <= w /\ w < pos + SizeAt(h.mem, pos)) => g.mem[w] = h.mem[w]
        /\ aligned => Marked(g.mem, pos, gap, 1)
        /\ Marked(g.mem, pos + gap, new, 0)
        /\ rest # 0 => Marked(g.mem, pos + gap + new, rest, 1)
        /\ g.index = IF rest = 0 THEN left ELSE Insert(g.mem, left, pos + gap + new)

LEMMA CutMemory ==
    ASSUME NEW h, NEW i, NEW size \in Nat, NEW aligned \in BOOLEAN,
           h = [mem |-> h.mem, index |-> h.index, end |-> h.end, odd |-> "none"],
           h.mem \in Memory, h.end \in Ends, h.index[i] \in Nat, SizeAt(h.mem, h.index[i]) \in Int,
           h.index[i] + SizeAt(h.mem, h.index[i]) <= h.end,
           NEW g, g = Cut(h, i, size, aligned), g.odd = "none",
           Fits(h, h.index[i], size + Header + Footer, aligned)
    PROVE  \E gap, new, rest \in Nat : CutInto(h, g, i, aligned, size, gap, new, rest)
<1> DEFINE pos == h.index[i]
           hole == SizeAt(h.mem, pos)
           m == h.mem
           e == h.end
           need == size + Header + Footer
           offset == IF aligned THEN (PageSize - ((pos + Header) % PageSize)) % PageSize ELSE 0
           gap == Gap(pos, aligned)
           new == IF hole - need < Header + Footer THEN hole ELSE need
           at == pos + gap
           rest == hole - gap - new
           next == at + new
           m0 == IF aligned
                 THEN PutFooter(PutHeader(h.mem, pos, gap, 1), at - Footer, pos) ELSE h.mem
           m1 == PutFooter(PutHeader(m0, at, new, 0), next - Footer, at)
           m2 == IF rest = 0 THEN m1
                 ELSE LET mm == PutHeader(m1, next, rest, 1)
                      IN  IF next + rest - Footer < h.end
                          THEN PutFooter(mm, next + rest - Footer, next) ELSE mm
           left == IF aligned THEN h.index ELSE RemoveAt(h.index, i)
           small == \/ aligned /\ gap < Header + Footer
                    \/ rest \in 1 .. Header + Footer - 1
<1>1. g = [mem |-> m2, index |-> IF rest = 0 THEN left ELSE Insert(m2, left, next),
           end |-> e, odd |-> IF small THEN "sliver" ELSE "none"]
  <2>1. g = [h EXCEPT !.mem = m2,
                      !.index = IF rest = 0 THEN left ELSE Insert(m2, left, next),
                      !.odd = IF small THEN "sliver" ELSE @]
    BY DEF Cut
  <2> HIDE DEF m2, left, rest, next, small, e
  <2> QED
    BY <2>1 DEF e
<1>2. hole - offset >= need
  BY DEF Fits
<1>0. pos \in Nat /\ hole \in Int /\ pos + hole <= e /\ m \in Memory /\ e \in Ends
  OBVIOUS
<1> HIDE DEF offset, gap, new, m0, m1, m2, left, pos, hole, m, e
<1>3. ~small
  BY <1>1
<1>4. /\ gap \in Nat /\ new \in Nat /\ new >= size + 5 /\ rest \in Nat
      /\ IF aligned THEN gap >= 5 /\ (pos + gap + Header) % PageSize = 0 ELSE gap = 0
      /\ rest = 0 \/ rest >= 5
  <2>1. /\ offset = IF aligned THEN (PageSize - ((pos + Header) % PageSize)) % PageSize ELSE 0
        /\ gap = Gap(pos, aligned)
        /\ new = IF hole - (size + Header + Footer) < Header + Footer
                 THEN hole ELSE size + Header + Footer
    BY DEF offset, gap, new
  <2> QED
    BY <1>0, <1>2, <1>3, <2>1, CutArithmetic
<1>5. /\ hole = gap + new + rest /\ new >= 5
      /\ \A w \in Nat : w < pos + hole => w \in Words
  BY <1>0, <1>4, InHeap
<1> HIDE DEF rest
<1>6. /\ m0 \in Memory
      /\ aligned => Marked(m0, pos, gap, 1)
      /\ \A w \in Words : ~(pos <= w /\ w < at) => m0[w] = m[w]
  <2>1. CASE ~aligned
    BY <1>0, <2>1 DEF m0, m
  <2>2. CASE aligned
    <3>1. pos + gap - 1 \in Words /\ gap \in Int /\ gap >= Header + Footer /\ 1 \in Int
      BY <1>0, <1>4, <1>5, <2>2 DEF Header, Footer
    <3> DEFINE z == PutFooter(PutHeader(m, pos, gap, 1), pos + gap - Footer, pos)
    <3>2. /\ z \in Memory /\ Marked(z, pos, gap, 1)
          /\ \A w \in Words : ~(pos <= w /\ w < pos + gap) => z[w] = m[w]
      BY <1>0, <3>1, MarkedPut
    <3>3. m0 = z
      <4>1. at - Footer = pos + gap - Footer
        BY <1>0, <1>4 DEF Footer
      <4> HIDE DEF at
      <4> QED
        BY <2>2, <4>1 DEF m0, m
    <3> HIDE DEF z
    <3> QED
      BY <2>2, <3>2, <3>3
  <2> QED
    BY <2>1, <2>2
<1>7. /\ m1 \in Memory /\ Marked(m1, at, new, 0)
      /\ \A w \in Words : ~(at <= w /\ w < next) => m1[w] = m0[w]
  <2>1. /\ at \in Nat /\ at + new - 1 \in Words /\ new \in Int
        /\ new >= Header + Footer /\ 0 \in Int
    BY <1>0, <1>4, <1>5 DEF Header, Footer
  <2> DEFINE z == PutFooter(PutHeader(m0, at, new, 0), at + new - Footer, at)
  <2>2. /\ z \in Memory /\ Marked(z, at, new, 0)
        /\ \A w \in Words : ~(at <= w /\ w < at + new) => z[w] = m0[w]
    <3> HIDE DEF at
    <3> QED
      BY <1>6, <1>0, <2>1, MarkedPut
  <2>3. m1 = z
    <3>1. next - Footer = at + new - Footer
      BY <1>0, <1>4 DEF Footer
    <3> HIDE DEF next, at
    <3> QED
      BY <3>1 DEF m1
  <2> HIDE DEF z
  <2> QED
    BY <2>2, <2>3
<1>8. /\ m2 \in Memory
      /\ rest # 0 => Marked(m2, next, rest, 1)
      /\ \A w \in Words : ~(next <= w /\ w < pos + hole) => m2[w] = m1[w]
  <2>1. CASE rest = 0
    BY <1>7, <2>1 DEF m2
  <2>2. CASE rest # 0
    <3>1. /\ next \in Nat /\ next + rest - 1 \in Words /\ rest \in Int
          /\ rest >= Header + Footer /\ 1 \in Int
      BY <1>0, <1>4, <1>5, <2>2 DEF Header, Footer
    <3>2. next + rest - Footer < e /\ next + rest = pos + hole
      BY <1>0, <1>4, <1>5, InHeap DEF Footer
    <3>3. m2 = PutFooter(PutHeader(m1, next, rest, 1), next + rest - Footer, next)
      BY <2>2, <3>2 DEF m2, e
    <3> DEFINE z == PutFooter(PutHeader(m1, next, rest, 1), next + rest - Footer, next)
    <3>4. /\ z \in Memory /\ Marked(z, next, rest, 1)
          /\ \A w \in Words : ~(next <= w /\ w < next + rest) => z[w] = m1[w]
      <4> HIDE DEF next
      <4> QED
        BY <1>7, <1>0, <3>1, MarkedPut
    <3> HIDE DEF z
    <3> QED
      BY <3>2, <3>3, <3>4 DEF z
  <2> QED
    BY <2>1, <2>2
<1>9. /\ aligned => Marked(m2, pos, gap, 1)
      /\ Marked(m2, at, new, 0)
  <2>1. ASSUME NEW w \in Nat, at <= w, w < next PROVE m2[w] = m1[w]
    BY <1>0, <1>4, <1>5, <1>8, <2>1
  <2>2. ASSUME NEW w \in Nat, pos <= w, w < at PROVE m2[w] = m0[w]
    BY <1>0, <1>4, <1>5, <1>7, <1>8, <2>2
  <2>3. Marked(m2, at, new, 0)
    <3>1. at \in Nat /\ new \in Int /\ new >= Header + Footer
      BY <1>0, <1>4, <1>5 DEF Header, Footer
    <3>2. \A w \in Nat : at <= w /\ w < at + new => m2[w] = m1[w]
      BY <2>1
    <3> HIDE DEF at
    <3> QED
      BY <1>7, <3>1, <3>2, MarkedFrame
  <2>4. ASSUME aligned PROVE Marked(m2, pos, gap, 1)
    <3>1. gap \in Int /\ gap >= Header + Footer
      BY <1>0, <1>4, <2>4 DEF Header, Footer
    <3>2. \A w \in Nat : pos <= w /\ w < pos + gap => m2[w] = m0[w]
      BY <2>2
    <3> QED
      BY <1>0, <1>6, <2>4, <3>1, <3>2, MarkedFrame
  <2> QED
    BY <2>3, <2>4
<1>10. \A w \in Words : ~(pos <= w /\ w < pos + hole) => m2[w] = m[w]
  <2> SUFFICES ASSUME NEW w \in Words, ~(pos <= w /\ w < pos + hole) PROVE m2[w] = m[w]
    OBVIOUS
  <2>1. w \in Int
    BY DEF Words
  <2> QED
    BY <1>0, <1>4, <1>5, <1>6, <1>7, <1>8, <2>1
<1>11. gap = Gap(pos, aligned)
  BY DEF gap
<1> QED
  BY <1>1, <1>4, <1>5, <1>8, <1>9, <1>10, <1>11 DEF left, pos, hole, m, e, CutInto

(* A piece with its tags is a division.                                    *)
LEMMA TilesMarked ==
    ASSUME NEW m, NEW a \in Nat, NEW s \in Int, s >= Header + Footer, NEW k, Marked(m, a, s, k)
    PROVE  Tiles(m, {a}, a, a + s)
  BY TilesOne DEF Marked

(* The pieces beside a hole keep what they are. *)
Kept(m, m2, a) == m2[a + 1] = m[a + 1] /\ m2[a + 2] = m[a + 2]

(* The pieces of a division stay what they are while its words do.         *)
LEMMA Beside ==
    ASSUME NEW m, NEW P, NEW lo \in Nat, NEW hi \in Nat, Tiles(m, P, lo, hi),
           NEW m2, \A w \in lo .. hi - 1 : m2[w] = m[w], NEW a \in P
    PROVE  /\ a \in Nat /\ a + 1 \in Nat /\ lo <= a /\ a < hi
           /\ Kept(m, m2, a)
<1>1. /\ a \in Int /\ lo <= a /\ m[a + 1] \in Int /\ m[a + 1] >= 5 /\ a + m[a + 1] <= hi
  BY DEF Tiles, Header, Footer
<1> QED
  BY <1>1 DEF Kept

(* The tags in m3 divide the hole at pos into a hole, a block and a hole,   *)
(* the first or the last of which may be missing.                          *)
Parts(m, m3, e, pos, gap, new, rest) ==
    /\ m[pos + 1] = gap + new + rest
    /\ gap = 0 \/ gap >= 5
    /\ new >= 5
    /\ rest = 0 \/ rest >= 5
    /\ gap # 0 => Marked(m3, pos, gap, 1)
    /\ Marked(m3, pos + gap, new, 0)
    /\ rest # 0 => Marked(m3, pos + gap + new, rest, 1)
    /\ \A w \in 0 .. e - 1 : ~(pos <= w /\ w < pos + m[pos + 1]) => m3[w] = m[w]

(* A part of a hole is a piece unless it is empty.                         *)
Part(a, size) == IF size = 0 THEN {} ELSE {a}

(* A block at x and holes R have taken the place of the hole at pos. *)
Replaced(m, P, pos, m3, Q, x, R) ==
    /\ P \subseteq Nat /\ pos \in P /\ m[pos + 2] # 0 /\ x \in Nat
    /\ Q = (P \ {pos}) \union {x} \union R
    /\ x \notin P \ {pos} /\ x \notin R
    /\ \A a \in P \ {pos} : Kept(m, m3, a)
    /\ \A a \in R : m3[a + 2] # 0

(* The piece at x is the block b. *)
Houses(m, x, b) ==
    /\ b \in Block /\ b.at = x + Header /\ m[x + 2] = 0 /\ b.size + Header + Footer <= m[x + 1]
    /\ b.aligned => b.at % PageSize = 0

Joined(L, b, L2) == L2 = L \union {b}

(* Clients and index when the hole at pos makes room for the block at x.   *)
LEMMA NewBlock ==
    ASSUME NEW m, NEW P, NEW L, Clients(m, P, L),
           NEW pos, NEW x, NEW m2, NEW Q, NEW R, Replaced(m, P, pos, m2, Q, x, R),
           NEW b, Houses(m2, x, b), NEW L2, Joined(L, b, L2)
    PROVE  /\ Clients(m2, Q, L2)
           /\ Holes(m2, Q) = (Holes(m, P) \ {pos}) \union R
<1> USE DEF Header, Footer, Kept, Replaced, Houses
<1>0. /\ P \subseteq Nat /\ pos \in P /\ m[pos + 2] # 0 /\ x \in Nat
      /\ b \in Block /\ L \subseteq Block
  BY DEF Clients
<1>1. ASSUME NEW c \in L
      PROVE  /\ c.at \in Nat /\ c.at - Header \in P \ {pos} /\ c.at - Header + 1 = c.at - 2
             /\ c.at - Header + 2 = c.at - 1 /\ c.at # b.at
             /\ m2[c.at - Header + 2] = 0
             /\ c.size + Header + Footer <= m2[c.at - Header + 1]
             /\ c.aligned => c.at % PageSize = 0
  <2>1. c.at \in Nat /\ c.at - 3 \in P /\ m[c.at - 3 + 2] = 0
    BY <1>0 DEF Clients, Block
  <2>2. c.at - 3 # pos
    BY <1>0, <2>1
  <2>3. c.at # b.at
    <3>1. c.at - 3 # x
      BY <2>1, <2>2
    <3> QED
      BY <1>0, <2>1, <3>1
  <2>4. m2[c.at - 3 + 1] = m[c.at - 3 + 1] /\ m2[c.at - 3 + 2] = m[c.at - 3 + 2]
    BY <2>1, <2>2
  <2>5. c.size + Header + Footer <= m[c.at - 3 + 1] /\ (c.aligned => c.at % PageSize = 0)
    BY DEF Clients
  <2> QED
    BY <2>1, <2>2, <2>3, <2>4, <2>5
<1>2. b.at - Header = x
  BY <1>0
<1>3. ASSUME NEW c \in L \union {b}
      PROVE  /\ c.at - Header \in Q /\ m2[c.at - Header + 2] = 0
             /\ c.size + Header + Footer <= m2[c.at - Header + 1]
             /\ c.aligned => c.at % PageSize = 0
  <2>1. CASE c \in L
    BY <1>1, <2>1
  <2>2. CASE c = b
    BY <1>2, <2>2
  <2> QED
    BY <2>1, <2>2
<1>4. \A c, d \in L \union {b} : c.at = d.at => c = d
  <2>1. \A c, d \in L : c.at = d.at => c = d
    BY DEF Clients
  <2> QED
    BY <1>1, <2>1
<1>5. ASSUME NEW a \in Q, m2[a + 2] = 0
      PROVE  \E c \in L \union {b} : c.at = a + Header
  <2>1. CASE a = x
    BY <2>1
  <2>2. CASE a \in P \ {pos}
    <3>1. m[a + 2] = 0
      BY <1>5, <2>2
    <3> QED
      BY <2>2, <3>1 DEF Clients
  <2> QED
    BY <1>5, <2>1, <2>2
<1>6. Holes(m2, Q) = (Holes(m, P) \ {pos}) \union R
  BY DEF Holes
<1>7. Clients(m2, Q, L2)
  BY <1>0, <1>3, <1>4, <1>5 DEF Clients, Joined
<1> QED
  BY <1>6, <1>7

(* After a cut the tags divide the heap again.                             *)
LEMMA CutTiles ==
    ASSUME NEW m, NEW P, NEW e \in Nat, NEW pos \in Nat, HoleAround(m, P, e, pos),
           NEW gap \in Nat, NEW new \in Nat, NEW rest \in Nat,
           NEW m3, Parts(m, m3, e, pos, gap, new, rest)
    PROVE  \E Q : /\ Tiles(m3, Q, 0, e)
                  /\ Replaced(m, P, pos, m3, Q, pos + gap,
                              Part(pos, gap) \union Part(pos + gap + new, rest))
                  /\ \A a \in Part(pos + gap + new, rest) : a \in Nat /\ a \notin P
<1>a. PICK Q0 : Q0 = Part(pos, gap)
  OBVIOUS
<1>b. PICK Q2 : Q2 = Part(pos + gap + new, rest)
  OBVIOUS
<1>c. Q0 = (IF gap = 0 THEN {} ELSE {pos}) /\ Q2 = IF rest = 0 THEN {} ELSE {pos + gap + new}
  BY <1>a, <1>b DEF Part
<1>0. /\ m[pos + 1] = gap + new + rest
      /\ gap = 0 \/ gap >= 5
      /\ new >= 5
      /\ rest = 0 \/ rest >= 5
      /\ gap # 0 => Marked(m3, pos, gap, 1)
      /\ Marked(m3, pos + gap, new, 0)
      /\ rest # 0 => Marked(m3, pos + gap + new, rest, 1)
      /\ \A w \in 0 .. e - 1 : ~(pos <= w /\ w < pos + m[pos + 1]) => m3[w] = m[w]
  BY DEF Parts
<1> DEFINE hole == m[pos + 1]
           x == pos + gap
           next == x + new
           Before == {p \in P : p < pos}
           After == {p \in P : pos + hole <= p}
<1>1. /\ pos \in P /\ hole >= 5 /\ pos + hole <= e /\ m[pos + 2] # 0
      /\ Tiles(m, Before, 0, pos) /\ Tiles(m, After, pos + hole, e)
      /\ P = Before \union {pos} \union After
  BY DEF HoleAround
<1>2. /\ x \in Nat /\ next \in Nat /\ next + rest = pos + hole /\ next + rest <= e
      /\ pos <= x /\ x < next /\ next <= next + rest /\ hole \in Nat /\ next + rest \in Nat
  BY <1>0, <1>1
<1> HIDE DEF hole
<1>3. /\ \A w \in 0 .. pos - 1 : m3[w] = m[w]
      /\ \A w \in pos + hole .. e - 1 : m3[w] = m[w]
  BY <1>0, <1>1, <1>2 DEF hole
<1>4. /\ x \notin P \ {pos} /\ x \notin Q0 \union Q2
      /\ \A a \in Q2 : a \in Nat /\ a \notin P
      /\ pos \notin Before /\ pos \notin After
  BY <1>c, <1>0, <1>1, <1>2
<1>5. \A a \in Q0 \union Q2 : m3[a + 2] # 0
  BY <1>c, <1>0 DEF Marked
<1> HIDE DEF x, next, Before, After
<1>6. /\ Marked(m3, x, new, 0)
      /\ rest # 0 => Marked(m3, next, rest, 1) /\ Q2 = {next}
      /\ rest = 0 => Q2 = {}
  BY <1>c, <1>0 DEF x, next
<1>7. Tiles(m3, Before, 0, pos) /\ Tiles(m3, After, next + rest, e)
  <2>1. pos + hole \in Nat
    BY <1>2
  <2>2. Tiles(m3, Before, 0, pos)
    BY <1>1, <1>3, TilesFrame
  <2>3. Tiles(m3, After, pos + hole, e)
    BY <1>1, <1>3, <2>1, TilesFrame
  <2> QED
    BY <1>2, <2>2, <2>3
<1>8. Tiles(m3, Q0, pos, x)
  <2>1. CASE gap # 0
    <3>1. gap \in Int /\ gap >= Header + Footer /\ Q0 = {pos}
      BY <1>c, <1>0, <2>1 DEF Header, Footer
    <3> QED
      BY <1>0, <2>1, <3>1, TilesMarked DEF x
  <2>2. CASE gap = 0
    <3>1. x = pos /\ Q0 = {} /\ pos \in Int
      BY <1>c, <2>2 DEF x
    <3> QED
      BY <3>1, TilesEmpty
  <2> QED
    BY <2>1, <2>2
<1>9. Tiles(m3, {x}, x, next)
  <2>1. new \in Int /\ new >= Header + Footer
    BY <1>0 DEF Header, Footer
  <2> QED
    BY <1>2, <1>6, <2>1, TilesMarked DEF next
<1>10. Tiles(m3, Q2, next, next + rest)
  <2>1. CASE rest # 0
    <3>1. rest \in Int /\ rest >= Header + Footer
      BY <1>c, <1>0, <2>1 DEF Header, Footer
    <3> QED
      BY <1>2, <1>6, <2>1, <3>1, TilesMarked
  <2>2. CASE rest = 0
    <3>1. next + rest = next /\ next \in Int
      BY <1>2, <2>2
    <3> QED
      BY <1>6, <2>2, <3>1, TilesEmpty
  <2> QED
    BY <2>1, <2>2
<1>11. Tiles(m3, Before \union Q0, 0, x)
  BY <1>2, <1>7, <1>8, TilesJoin
<1>12. Tiles(m3, Before \union Q0 \union {x}, 0, next)
  <2>1. 0 \in Nat /\ 0 <= x /\ x <= next
    BY <1>2
  <2> QED
    BY <1>2, <1>9, <1>11, <2>1, TilesJoin
<1>13. Tiles(m3, Before \union Q0 \union {x} \union Q2, 0, next + rest)
  <2>1. 0 \in Nat /\ 0 <= next
    BY <1>2
  <2> QED
    BY <1>2, <1>10, <1>12, <2>1, TilesJoin
<1>14. Tiles(m3, Before \union Q0 \union {x} \union Q2 \union After, 0, e)
  <2>1. 0 \in Nat /\ 0 <= next + rest
    BY <1>2
  <2> QED
    BY <1>2, <1>7, <1>13, <2>1, TilesJoin
<1>15. \A a \in P \ {pos} : Kept(m, m3, a)
  <2> SUFFICES ASSUME NEW a \in P \ {pos}
               PROVE  Kept(m, m3, a)
    OBVIOUS
  <2>1. CASE a \in Before
    <3>1. 0 \in Nat
      OBVIOUS
    <3> QED
      BY <1>1, <1>3, <2>1, <3>1, Beside
  <2>2. CASE a \in After
    <3>1. pos + hole \in Nat
      BY <1>2
    <3> QED
      BY <1>1, <1>3, <2>2, <3>1, Beside
  <2> QED
    BY <1>1, <2>1, <2>2
<1>16. Before \union Q0 \union {x} \union Q2 \union After
       = (P \ {pos}) \union {x} \union (Q0 \union Q2)
  BY <1>1, <1>4
<1> QED
  <2>1. /\ Tiles(m3, Before \union Q0 \union {x} \union Q2 \union After, 0, e)
        /\ Replaced(m, P, pos, m3, Before \union Q0 \union {x} \union Q2 \union After, x,
                    Q0 \union Q2)
    <3>1. P \subseteq Nat
      BY <1>1, <1>2, <1>7 DEF Tiles
    <3> QED
      BY <1>1, <1>2, <1>4, <1>5, <1>14, <1>15, <1>16, <3>1 DEF Replaced
  <2> QED
    BY <1>a, <1>b, <1>4, <2>1 DEF x

(* The index new lists what was lists, but for the holes in R it had no     *)
(* room for.                                                               *)
Added(ix, was, new, R) ==
    /\ new \in Seq(Nat) /\ Once(new) /\ Len(new) <= Len(ix) + 1
    /\ Indexed(new) \subseteq was \union R
    /\ Len(ix) < IndexSize => Indexed(new) = was \union R

(* The index after a cut: the hole leaves it unless a part in front stays. *)
LEMMA CutIndex ==
    ASSUME NEW m, NEW P, NEW ix, IndexTrue(m, P, ix), NEW i \in 1 .. Len(ix),
           NEW Q0, Q0 \in {{}, {ix[i]}},
           NEW left, left = IF Q0 = {} THEN RemoveAt(ix, i) ELSE ix,
           NEW Q2, NEW new, NEW next \in Nat, NEW m2,
           \/ Q2 = {} /\ new = left
           \/ Q2 = {next} /\ next \notin P /\ new = Insert(m2, left, next)
    PROVE  Added(ix, (Indexed(ix) \ {ix[i]}) \union Q0, new, Q2)
<1> DEFINE pos == ix[i]
           was == (Indexed(ix) \ {pos}) \union Q0
<1>1. /\ ix \in Seq(Nat) /\ Once(ix) /\ Indexed(ix) \subseteq P
      /\ pos \in Indexed(ix) /\ Len(ix) \in Nat /\ IndexSize \in Nat
  BY HeapAssumption DEF IndexTrue, Holes, Indexed
<1>2. /\ left \in Seq(Nat) /\ Once(left) /\ Len(left) \in Nat /\ Len(left) <= Len(ix)
      /\ Indexed(left) = was
  <2>1. CASE Q0 = {}
    <3> DEFINE r == RemoveAt(ix, i)
    <3>1. /\ r \in Seq(Nat) /\ Once(r) /\ Len(r) = Len(ix) - 1
          /\ Indexed(r) = Indexed(ix) \ {pos}
      BY <1>1, Removed
    <3>2. left = r
      BY <2>1
    <3> HIDE DEF r
    <3>3. Len(r) \in Nat
      BY <3>1
    <3> QED
      BY <1>1, <2>1, <3>1, <3>2, <3>3
  <2>2. CASE Q0 = {pos} /\ Q0 # {}
    <3>1. left = ix /\ was = Indexed(ix)
      BY <1>1, <2>2
    <3> QED
      BY <1>1, <3>1
  <2> QED
    BY <2>1, <2>2
<1>3. was \subseteq P
  BY <1>1
<1> HIDE DEF was
<1>4. CASE Q2 = {} /\ new = left
  BY <1>1, <1>2, <1>4 DEF was, Added
<1>5. CASE Q2 = {next} /\ next \notin P /\ new = Insert(m2, left, next)
  <2> DEFINE r == Insert(m2, left, next)
  <2>1. next \notin Indexed(left)
    BY <1>2, <1>3, <1>5
  <2>2. /\ r \in Seq(Nat) /\ Once(r) /\ Len(r) <= Len(left) + 1
        /\ Indexed(r) \subseteq Indexed(left) \union {next}
        /\ Len(left) < IndexSize => Indexed(r) = Indexed(left) \union {next}
    BY <1>2, <2>1, Inserted
  <2>3. Len(r) \in Nat
    BY <2>2
  <2> HIDE DEF r
  <2>4. new = r
    BY <1>5 DEF r
  <2>5. Len(r) <= Len(ix) + 1 /\ (Len(ix) < IndexSize => Len(left) < IndexSize)
    BY <1>1, <1>2, <2>2, <2>3
  <2>6. Indexed(r) \subseteq was \union Q2 /\ (Len(ix) < IndexSize => Indexed(r) = was \union Q2)
    <3>1. Indexed(left) \union {next} = was \union Q2
      BY <1>2, <1>5
    <3> QED
      BY <2>2, <2>5, <3>1
  <2> QED
    BY <2>2, <2>4, <2>5, <2>6 DEF was, Added
<1> QED
  BY <1>4, <1>5

(* What a client gets: the memory after Give. *)
Handed(g, at, size, wiped) ==
    IF wiped THEN [a \in Words |-> IF a \in at .. at + size - 1 THEN 0 ELSE g.mem[a]]
    ELSE g.mem

(* What a client writes is not in the tags.                                *)
LEMMA HandedMemory ==
    ASSUME NEW g, g.mem \in Memory, NEW x \in Nat, NEW size \in Nat, NEW wiped \in BOOLEAN
    PROVE  LET m3 == Handed(g, x + 3, size, wiped)
           IN  /\ m3 \in Memory
               /\ \A w \in Words : w < x + 3 \/ x + 3 + size <= w => m3[w] = g.mem[w]
<1>1. \A w \in Words : w \in Int
  BY DEF Words
<1> QED
  BY <1>1 DEF Handed, Memory

(* g is the heap after cutting a block out of hole i of the index. *)
CutGives(m, e, ix, i, size, aligned, g) ==
    LET h == [mem |-> m, index |-> ix, end |-> e, odd |-> "none"]
    IN  /\ Fits(h, ix[i], size + Header + Footer, aligned)
        /\ g = Cut(h, i, size, aligned) /\ g.odd = "none"

(* The client has its block, and the tags and the index are right again.   *)
CutKept(m, P, e, L, ix, size, aligned, wiped, g, at) ==
    \E Q \in SUBSET Nat :
        /\ Sane(Handed(g, at, size, wiped), Q, e,
                L \union {[at |-> at, size |-> size, aligned |-> aligned]}, g.index)
        /\ g.end = e /\ Len(g.index) <= Len(ix) + 1
        /\ IndexAll(m, P, ix) /\ Len(ix) < IndexSize
           => IndexAll(Handed(g, at, size, wiped), Q, g.index)

(* A cut in a sane heap leaves a sane heap in which the client has its     *)
(* block.                                                                  *)
LEMMA CutKeeps ==
    ASSUME NEW m, NEW P, NEW e, NEW L, NEW ix, Sane(m, P, e, L, ix), NEW i \in 1 .. Len(ix),
           NEW size \in Nat, NEW aligned \in BOOLEAN, NEW wiped \in BOOLEAN,
           NEW g, CutGives(m, e, ix, i, size, aligned, g),
           NEW at, at = BlockOf(ix[i], aligned)
    PROVE  CutKept(m, P, e, L, ix, size, aligned, wiped, g, at)
<1>1. PICK pos : pos = ix[i]
  OBVIOUS
<1>2. /\ pos \in Indexed(ix) /\ m \in Memory /\ e \in Ends /\ e \in Nat /\ L \subseteq Block
      /\ Clients(m, P, L) /\ IndexTrue(m, P, ix) /\ P \subseteq Nat
      /\ \A w \in Nat : w < e => w \in Words
  <2>1. P \subseteq Nat
    BY DEF Sane, Tiles, Untouched
  <2> QED
    BY <1>1, <2>1, InHeap DEF Sane, Clients, Indexed
<1>3. HoleAround(m, P, e, pos)
  BY <1>2, Around
<1>4. /\ pos \in P /\ pos \in Nat /\ m[pos + 1] \in Int /\ pos + m[pos + 1] <= e
      /\ m[pos + 2] # 0
  BY <1>3 DEF HoleAround
<1> DEFINE left == IF aligned THEN ix ELSE RemoveAt(ix, i)
<1>5. \E gap, new, rest \in Nat :
         CutInto([mem |-> m, index |-> ix, end |-> e, odd |-> "none"], g, i, aligned, size,
                 gap, new, rest)
  <2> DEFINE h == [mem |-> m, index |-> ix, end |-> e, odd |-> "none"]
  <2>1. /\ h.mem = m /\ h.end = e /\ h.index = ix /\ h.index[i] = pos
        /\ SizeAt(h.mem, h.index[i]) = m[pos + 1]
    BY <1>1 DEF SizeAt
  <2>2. /\ Fits(h, h.index[i], size + Header + Footer, aligned)
        /\ g = Cut(h, i, size, aligned) /\ g.odd = "none"
    BY <2>1, <1>1 DEF CutGives
  <2>3. h = [mem |-> h.mem, index |-> h.index, end |-> h.end, odd |-> "none"]
    OBVIOUS
  <2> HIDE DEF h
  <2>4. /\ h.mem \in Memory /\ h.end \in Ends /\ h.index[i] \in Nat
        /\ SizeAt(h.mem, h.index[i]) \in Int
        /\ h.index[i] + SizeAt(h.mem, h.index[i]) <= h.end
    BY <1>2, <1>4, <2>1
  <2>5. \E gap, new, rest \in Nat : CutInto(h, g, i, aligned, size, gap, new, rest)
    BY <2>2, <2>3, <2>4, CutMemory
  <2> QED
    BY <2>5 DEF h
<1>6. PICK gap \in Nat, new \in Nat, rest \in Nat :
         CutInto([mem |-> m, index |-> ix, end |-> e, odd |-> "none"], g, i, aligned, size,
                 gap, new, rest)
  BY <1>5
<1>7. /\ gap = Gap(pos, aligned) /\ m[pos + 1] = gap + new + rest
      /\ new >= size + 5 /\ (rest = 0 \/ rest >= 5)
      /\ IF aligned THEN gap >= 5 /\ (pos + gap + Header) % PageSize = 0 ELSE gap = 0
      /\ g.end = e /\ g.mem \in Memory
      /\ \A w \in Words : ~(pos <= w /\ w < pos + m[pos + 1]) => g.mem[w] = m[w]
      /\ aligned => Marked(g.mem, pos, gap, 1)
      /\ Marked(g.mem, pos + gap, new, 0)
      /\ rest # 0 => Marked(g.mem, pos + gap + new, rest, 1)
      /\ g.index = IF rest = 0 THEN left ELSE Insert(g.mem, left, pos + gap + new)
  BY <1>1, <1>6 DEF CutInto, SizeAt
<1>8. PICK x : x = pos + gap
  OBVIOUS
<1>9. PICK next : next = x + new
  OBVIOUS
<1>10. PICK m3 : m3 = Handed(g, at, size, wiped)
  OBVIOUS
<1>11. PICK b : b = [at |-> at, size |-> size, aligned |-> aligned]
  OBVIOUS
<1>12. /\ x \in Nat /\ next \in Nat /\ next + rest = pos + m[pos + 1] /\ at = x + 3
       /\ next + rest <= e /\ size + 5 <= new
  <2>1. gap + new + rest = m[pos + 1] /\ size + 5 <= new /\ gap = Gap(pos, aligned)
    BY <1>7
  <2>2. at = pos + gap + Header
    BY <1>1, <2>1 DEF BlockOf
  <2>3. /\ x \in Nat /\ next \in Nat /\ next + rest = pos + m[pos + 1]
    <3>1. x \in Nat
      BY <1>4, <1>8
    <3>2. next \in Nat
      BY <1>9, <3>1
    <3>3. next + rest = pos + (gap + new + rest)
      BY <1>4, <1>8, <1>9
    <3> QED
      BY <2>1, <3>1, <3>2, <3>3
  <2>4. at = x + 3
    BY <1>4, <1>8, <2>2 DEF Header
  <2> QED
    BY <1>4, <2>1, <2>3, <2>4
<1>13. /\ m3 \in Memory
       /\ \A w \in Words : w < x + 3 \/ x + 3 + size <= w => m3[w] = g.mem[w]
  BY <1>7, <1>10, <1>12, HandedMemory
<1>14. \A w \in Words : w \in Nat
  BY DEF Words
<1>15. /\ aligned => Marked(m3, pos, gap, 1)
       /\ Marked(m3, x, new, 0)
       /\ rest # 0 => Marked(m3, next, rest, 1)
  <2>1. ASSUME aligned PROVE Marked(m3, pos, gap, 1)
    <3>1. \A w \in Nat : pos <= w /\ w < pos + gap => m3[w] = g.mem[w]
      <4> SUFFICES ASSUME NEW w \in Nat, pos <= w, w < pos + gap PROVE m3[w] = g.mem[w]
        OBVIOUS
      <4>1. w < x + 3 /\ w < e
        BY <1>2, <1>4, <1>8, <1>9, <1>12
      <4> QED
        BY <1>2, <1>13, <4>1
    <3>2. gap \in Int /\ gap >= Header + Footer /\ Marked(g.mem, pos, gap, 1)
      <4>1. gap >= 5 /\ Marked(g.mem, pos, gap, 1)
        BY <1>7, <2>1
      <4> QED
        BY <4>1 DEF Header, Footer
    <3> QED
      BY <1>4, <3>1, <3>2, MarkedFrame
  <2>2. ASSUME rest # 0 PROVE Marked(m3, next, rest, 1)
    <3>1. \A w \in Nat : next <= w /\ w < next + rest => m3[w] = g.mem[w]
      <4> SUFFICES ASSUME NEW w \in Nat, next <= w, w < next + rest PROVE m3[w] = g.mem[w]
        OBVIOUS
      <4>1. x + 3 + size <= w /\ w < e
        BY <1>2, <1>9, <1>12
      <4> QED
        BY <1>2, <1>13, <4>1
    <3>2. rest \in Int /\ rest >= Header + Footer /\ Marked(g.mem, next, rest, 1)
      BY <1>7, <1>8, <1>9, <2>2 DEF Header, Footer
    <3> QED
      BY <1>12, <3>1, <3>2, MarkedFrame
  <2>3. Marked(m3, x, new, 0)
    <3>1. /\ x \in Words /\ x + 1 \in Words /\ x + 2 \in Words
          /\ x + new - Footer \in Words /\ x + new - Footer + 1 \in Words
      BY <1>2, <1>9, <1>12 DEF Footer
    <3>2. /\ m3[x] = g.mem[x] /\ m3[x + 1] = g.mem[x + 1] /\ m3[x + 2] = g.mem[x + 2]
      BY <1>12, <1>13, <3>1
    <3>3. /\ m3[x + new - Footer] = g.mem[x + new - Footer]
          /\ m3[x + new - Footer + 1] = g.mem[x + new - Footer + 1]
      BY <1>12, <1>13, <3>1 DEF Footer
    <3>4. Marked(g.mem, x, new, 0)
      BY <1>7, <1>8
    <3> QED
      BY <3>2, <3>3, <3>4 DEF Marked
  <2> QED
    BY <2>1, <2>2, <2>3
<1>16. \A w \in 0 .. e - 1 : ~(pos <= w /\ w < pos + m[pos + 1]) => m3[w] = m[w]
  <2> SUFFICES ASSUME NEW w \in 0 .. e - 1, ~(pos <= w /\ w < pos + m[pos + 1])
               PROVE  m3[w] = m[w]
    OBVIOUS
  <2>1. w \in Words
    BY <1>2
  <2>2. g.mem[w] = m[w]
    BY <1>7, <2>1
  <2>3. w < x + 3 \/ x + 3 + size <= w
    BY <1>4, <1>8, <1>9, <1>12
  <2> QED
    BY <1>13, <2>1, <2>2, <2>3
<1>17. PICK Q0 : Q0 = IF gap = 0 THEN {} ELSE {pos}
  OBVIOUS
<1>18. PICK Q2 : Q2 = IF rest = 0 THEN {} ELSE {next}
  OBVIOUS
<1>a. PICK R : R = Q0 \union Q2
  OBVIOUS
<1>b. PICK L2 : L2 = L \union {b}
  OBVIOUS
<1>19. Parts(m, m3, e, pos, gap, new, rest)
  <2>1. /\ gap = 0 \/ gap >= 5
        /\ new >= 5 /\ (rest = 0 \/ rest >= 5)
        /\ m[pos + 1] = gap + new + rest
    BY <1>7, <1>12
  <2>2. /\ gap # 0 => Marked(m3, pos, gap, 1)
        /\ Marked(m3, pos + gap, new, 0)
        /\ rest # 0 => Marked(m3, pos + gap + new, rest, 1)
    BY <1>7, <1>8, <1>9, <1>15
  <2> QED
    BY <1>16, <2>1, <2>2 DEF Parts
<1>20. PICK Q : /\ Tiles(m3, Q, 0, e)
                /\ Replaced(m, P, pos, m3, Q, x, R)
                /\ \A a \in Q2 : a \in Nat /\ a \notin P
  <2>1. Q2 = Part(pos + gap + new, rest) /\ Q0 = Part(pos, gap)
    BY <1>8, <1>9, <1>17, <1>18 DEF Part
  <2>2. \E Q : /\ Tiles(m3, Q, 0, e)
               /\ Replaced(m, P, pos, m3, Q, pos + gap,
                           Part(pos, gap) \union Part(pos + gap + new, rest))
               /\ \A a \in Part(pos + gap + new, rest) : a \in Nat /\ a \notin P
    BY <1>2, <1>3, <1>4, <1>19, CutTiles
  <2> QED
    BY <1>8, <1>a, <2>1, <2>2
<1>21. /\ Clients(m3, Q, L2) /\ b \in Block
       /\ Holes(m3, Q) = (Holes(m, P) \ {pos}) \union (Q0 \union Q2)
  <2>1. b \in Block /\ b.at = x + Header /\ b.size = size
    BY <1>11, <1>12 DEF Block, Header
  <2>2. b.aligned => b.at % PageSize = 0
    BY <1>7, <1>8, <1>11, <1>12 DEF Header
  <2>3. m3[x + 2] = 0 /\ b.size + Header + Footer <= m3[x + 1]
    BY <1>12, <1>15, <2>1 DEF Marked, Header, Footer
  <2> QED
    <3>1. Houses(m3, x, b)
      BY <2>1, <2>2, <2>3 DEF Houses
    <3>2. Replaced(m, P, pos, m3, Q, x, R)
      BY <1>20
    <3>3. Clients(m, P, L)
      BY <1>2
    <3>4. /\ Clients(m3, Q, L2)
          /\ Holes(m3, Q) = (Holes(m, P) \ {pos}) \union (Q0 \union Q2)
      <4>1. Joined(L, b, L2)
        BY <1>b DEF Joined
      <4>2. Clients(m3, Q, L2) /\ Holes(m3, Q) = (Holes(m, P) \ {pos}) \union R
        BY <3>1, <3>2, <3>3, <4>1, NewBlock
      <4> QED
        BY <4>2, <1>a
    <3> QED
      BY <2>1, <3>4
<1>22. /\ g.index \in Seq(Nat) /\ Once(g.index) /\ Len(g.index) <= Len(ix) + 1
       /\ Indexed(g.index) \subseteq (Indexed(ix) \ {pos}) \union Q0 \union Q2
       /\ Len(ix) < IndexSize => Indexed(g.index) = (Indexed(ix) \ {pos}) \union Q0 \union Q2
  <2>1. Q0 \in {{}, {ix[i]}} /\ left = IF Q0 = {} THEN RemoveAt(ix, i) ELSE ix
    BY <1>1, <1>7, <1>17
  <2>2. \/ Q2 = {} /\ g.index = left
        \/ Q2 = {next} /\ next \notin P /\ g.index = Insert(g.mem, left, next)
    BY <1>7, <1>8, <1>9, <1>18, <1>20
  <2> HIDE DEF left
  <2>3. Added(ix, (Indexed(ix) \ {ix[i]}) \union Q0, g.index, Q2)
    BY <1>2, <1>12, <2>1, <2>2, CutIndex
  <2> QED
    BY <1>1, <2>3 DEF Added
<1>23. IndexTrue(m3, Q, g.index)
  <2>1. Indexed(ix) \subseteq Holes(m, P)
    BY <1>2 DEF IndexTrue
  <2> QED
    BY <1>21, <1>22, <2>1 DEF IndexTrue
<1>24. IndexAll(m, P, ix) /\ Len(ix) < IndexSize => IndexAll(m3, Q, g.index)
  BY <1>21, <1>22 DEF IndexAll
<1>25. Sane(m3, Q, e, L2, g.index)
  BY <1>2, <1>13, <1>20, <1>21, <1>23 DEF Sane
<1>26. Q \in SUBSET Nat
  BY <1>2, <1>4, <1>12, <1>17, <1>18, <1>a, <1>20 DEF Replaced
<1> QED
  BY <1>7, <1>10, <1>11, <1>b, <1>22, <1>24, <1>25, <1>26 DEF CutKept

(* What find_smallest_hole returns is a place of the index whose hole      *)
(* fits.                                                                   *)
LEMMA Found ==
    ASSUME NEW h, h.index \in Seq(Nat), NEW need, NEW aligned,
           NEW i, i = find_smallest_hole(h, need, aligned), i # 0
    PROVE  i \in 1 .. Len(h.index) /\ Fits(h, h.index[i], need, aligned)
<1> DEFINE fit == {j \in DOMAIN h.index : Fits(h, h.index[j], need, aligned)}
<1>1. i = IF fit = {} THEN 0 ELSE CHOOSE j \in fit : \A k \in fit : j <= k
  BY DEF find_smallest_hole
<1>2. fit \subseteq Nat /\ DOMAIN h.index = 1 .. Len(h.index)
  OBVIOUS
<1> HIDE DEF fit
<1>3. fit # {} => \E j \in fit : \A k \in fit : j <= k
  BY <1>2, LeastNumber
<1>4. i \in fit
  BY <1>1, <1>3
<1> QED
  BY <1>2, <1>4 DEF fit

(* Fewer words, fewer pages; a heap of so many pages ends at one of Ends.  *)
LEMMA Fewer ==
    ASSUME NEW q \in Nat, NEW k \in Nat, q * PageSize <= k * PageSize
    PROVE  q <= k
<1>0. PageSize \in Nat \ {0}
  BY HeapAssumption DEF RightTest, Header, Footer
<1>1. SUFFICES ASSUME k + 1 <= q PROVE FALSE
  OBVIOUS
<1>2. (k + 1) * PageSize <= q * PageSize
  BY <1>0, <1>1, Grow
<1>3. (k + 1) * PageSize = k * PageSize + PageSize
  BY <1>0
<1> DEFINE x == k * PageSize  y == q * PageSize
<1>4. x \in Nat /\ y \in Nat
  BY <1>0
<1> HIDE DEF x, y
<1> QED
  BY <1>0, <1>2, <1>3, <1>4 DEF x, y

LEMMA EndOf ==
    ASSUME NEW q \in Nat, MinPages * PageSize <= q * PageSize, q * PageSize <= MaxPages * PageSize
    PROVE  q * PageSize \in Ends
<1>1. MinPages \in Nat /\ MaxPages \in Nat
  BY HeapAssumption
<1>2. q \in MinPages .. MaxPages
  BY <1>1, Fewer
<1> QED
  BY <1>2 DEF Ends

(* A piece of size t at y ends where the pieces behind z begin, or ends    *)
(* the heap, whose end was z.                                              *)
Fitted(m, m3, y, t, z, e, e3) ==
    \/ y + t = z /\ e3 = e /\ \A w \in z .. e - 1 : m3[w] = m[w]
    \/ z = e /\ e3 = y + t

(* The pieces in front of y and behind z stay; one of size t takes the     *)
(* place of what was between them, up to z or to a new end of the heap.    *)
LEMMA Resized ==
    ASSUME NEW m, NEW A, NEW B, NEW y \in Nat, NEW z \in Nat, NEW e \in Nat, z <= e,
           Tiles(m, A, 0, y), Tiles(m, B, z, e),
           NEW t \in Nat, t >= 5, NEW k, NEW m3, Marked(m3, y, t, k),
           \A w \in 0 .. y - 1 : m3[w] = m[w],
           NEW e3 \in Nat, Fitted(m, m3, y, t, z, e, e3)
    PROVE  /\ Tiles(m3, A \union {y} \union B, 0, e3)
           /\ \A a \in A \union B : a \in Nat /\ Kept(m, m3, a)
<1>1. Tiles(m3, A, 0, y)
  BY TilesFrame
<1>2. Tiles(m3, {y}, y, y + t)
  <2>1. t \in Int /\ t >= Header + Footer
    BY DEF Header, Footer
  <2> QED
    BY <2>1, TilesMarked
<1>3. Tiles(m3, A \union {y}, 0, y + t)
  <2>1. 0 \in Nat /\ 0 <= y /\ y <= y + t /\ y + t \in Nat
    OBVIOUS
  <2> QED
    BY <1>1, <1>2, <2>1, TilesJoin
<1>4. \A a \in A : a \in Nat /\ Kept(m, m3, a)
  <2>1. 0 \in Nat
    OBVIOUS
  <2> QED
    BY <2>1, Beside
<1>5. CASE y + t = z /\ e3 = e /\ \A w \in z .. e - 1 : m3[w] = m[w]
  <2>1. Tiles(m3, B, z, e)
    BY <1>5, TilesFrame
  <2>2. Tiles(m3, A \union {y} \union B, 0, e)
    <3>1. 0 \in Nat /\ 0 <= z /\ Tiles(m3, A \union {y}, 0, z)
      BY <1>3, <1>5
    <3> QED
      BY <2>1, <3>1, TilesJoin
  <2>3. \A a \in B : a \in Nat /\ Kept(m, m3, a)
    BY <1>5, Beside
  <2> QED
    BY <1>4, <1>5, <2>2, <2>3
<1>6. CASE z = e /\ e3 = y + t
  <2>1. B = {}
    BY <1>6 DEF Tiles
  <2> QED
    BY <1>3, <1>4, <1>6, <2>1
<1> QED
  BY <1>5, <1>6 DEF Fitted

(* The piece at y is a hole now, the others are what they were. *)
Retagged(m, P, m3, Q, y) ==
    /\ P \subseteq Nat /\ y \in Nat /\ y \in Q /\ m3[y + 2] # 0
    /\ \A a \in Q \ {y} : a \in P /\ Kept(m, m3, a)
    /\ Holes(m, P) \subseteq Q

(* L2 are the blocks of L whose pieces are still there and no hole. *)
Staying(L, Q, y, L2) ==
    /\ L2 \subseteq L
    /\ \A b \in L2 : b.at - Header \in Q \ {y}
    /\ \A b \in L : b.at - Header \in Q \ {y} => b \in L2

(* Blocks and holes after one piece has become a hole or a larger one.     *)
LEMMA Retag ==
    ASSUME NEW m, NEW P, NEW L, Clients(m, P, L), NEW m3, NEW Q, NEW y, Retagged(m, P, m3, Q, y),
           NEW L2, Staying(L, Q, y, L2)
    PROVE  /\ Clients(m3, Q, L2)
           /\ Holes(m3, Q) = Holes(m, P) \union {y}
           /\ Q \in SUBSET Nat
<1> USE DEF Retagged, Staying
<1>1. L \subseteq Block /\ L2 \subseteq L
  BY DEF Clients
<1>2. ASSUME NEW a \in Q, a # y
      PROVE  a \in P /\ a \in Nat /\ m3[a + 1] = m[a + 1] /\ m3[a + 2] = m[a + 2]
  BY <1>2 DEF Kept
<1>3. ASSUME NEW b \in L2
      PROVE  /\ b.at - Header \in Q /\ m3[b.at - Header + 2] = 0
             /\ b.size + Header + Footer <= m3[b.at - Header + 1]
             /\ b.aligned => b.at % PageSize = 0
  <2>1. PICK x : x = b.at - Header
    OBVIOUS
  <2>2. x \in Q /\ x # y
    BY <2>1
  <2>3. m3[x + 1] = m[x + 1] /\ m3[x + 2] = m[x + 2]
    BY <1>2, <2>2
  <2>4. /\ m[x + 2] = 0 /\ b.size + Header + Footer <= m[x + 1]
        /\ b.aligned => b.at % PageSize = 0
    BY <1>1, <2>1 DEF Clients
  <2> QED
    BY <2>1, <2>2, <2>3, <2>4
<1>4. ASSUME NEW a \in Q, m3[a + 2] = 0
      PROVE  \E b \in L2 : b.at = a + Header
  <2>1. a # y /\ a \in P /\ m[a + 2] = 0 /\ a \in Nat
    BY <1>2, <1>4
  <2>2. PICK b \in L : b.at = a + Header
    BY <2>1 DEF Clients
  <2>3. b.at - Header = a
    BY <2>1, <2>2 DEF Header
  <2> QED
    BY <2>1, <2>2, <2>3
<1>5. \A b, c \in L2 : b.at = c.at => b = c
  BY <1>1 DEF Clients
<1>6. Clients(m3, Q, L2)
  <2>1. L2 \subseteq Block
    BY <1>1
  <2> QED
    BY <1>3, <1>4, <1>5, <2>1 DEF Clients
<1>7. Holes(m3, Q) = Holes(m, P) \union {y}
  BY <1>2 DEF Holes
<1>8. Q \in SUBSET Nat
  BY <1>2
<1> QED
  BY <1>6, <1>7, <1>8

(* The end of an expanded heap.                                            *)
LEMMA Topped ==
    ASSUME NEW e \in Ends, NEW need \in Nat, e + need <= MaxPages * PageSize
    PROVE  RoundUp(e + need) \in Ends /\ RoundUp(e + need) >= e + need
<1>0. e \in Nat /\ e >= MinPages * PageSize /\ MaxPages \in Nat /\ e + need \in Nat
  BY InHeap, HeapAssumption
<1>1. PICK q \in Nat : RoundUp(e + need) = q * PageSize
  BY <1>0, RoundedUp
<1>2. e + need <= RoundUp(e + need) /\ RoundUp(e + need) <= MaxPages * PageSize
  BY <1>0, RoundedUp
<1>3. MinPages * PageSize <= q * PageSize
  <2>1. MinPages * PageSize \in Nat /\ q * PageSize \in Nat
    BY HeapAssumption
  <2> DEFINE x == MinPages * PageSize  y == q * PageSize
  <2> HIDE DEF x, y
  <2> QED
    BY <1>0, <1>1, <1>2, <2>1 DEF x, y
<1> QED
  BY <1>1, <1>2, <1>3, EndOf

(* g is the heap after it was expanded for a request of need words.        *)
ExpandGives(m, e, ix, need, g) ==
    /\ g = expand([mem |-> m, index |-> ix, end |-> e, odd |-> "none"], need)
    /\ g.odd = "none"

(* The highest hole is enlarged up to the new end of the heap.             *)
LEMMA ExpandHole ==
    ASSUME NEW m, NEW P, NEW e, NEW L, NEW ix, Sane(m, P, e, L, ix), ix # <<>>,
           NEW need \in Nat, need >= 5, e + need <= MaxPages * PageSize,
           NEW g, ExpandGives(m, e, ix, need, g)
    PROVE  \E a \in Indexed(ix) : \E top \in Ends :
               LET size == m[a + 1] + top - e
               IN  /\ a + m[a + 1] = e /\ top >= e + need
                   /\ g.mem = PutFooter(PutHeader(m, a, size, 1), a + size - Footer, a)
                   /\ g.index = ix /\ g.end = top
<1> DEFINE top == RoundUp(e + need)
           S == {ix[i] : i \in DOMAIN ix}
           at == CHOOSE a \in S : \A i \in DOMAIN ix : ix[i] <= a
           size == m[at + 1] + top - e
<1>0. ix \in Seq(Nat) /\ e \in Ends /\ e \in Nat
  BY InHeap DEF Sane, IndexTrue
<1>1. S = Indexed(ix) /\ S # {}
  <2>1. DOMAIN ix = 1 .. Len(ix) /\ Len(ix) \in Nat /\ Len(ix) # 0
    BY <1>0, EmptySeq
  <2>2. ix[1] \in S
    BY <2>1
  <2> QED
    BY <2>1, <2>2 DEF Indexed
<1>2. /\ g.mem = PutFooter(PutHeader(m, at, size, 1), at + size - Footer, at)
      /\ g.index = ix /\ g.end = top /\ at + size = top
  BY DEF ExpandGives, expand, SizeAt
<1>3. top \in Ends /\ top >= e + need
  BY <1>0, Topped
<1>4. \A a \in S : a \in Nat /\ m[a + 1] \in Int /\ m[a + 1] >= 5 /\ a + m[a + 1] <= e
  BY <1>1, Around DEF HoleAround
<1>5. \E a \in S : \A c \in S : c <= a
  <2> DEFINE T == {n \in Nat : \E a \in S : n = e - a}
  <2>1. \A a \in S : e - a \in T
    <3> SUFFICES ASSUME NEW a \in S PROVE e - a \in T
      OBVIOUS
    <3> HIDE DEF S
    <3>1. a \in Nat /\ m[a + 1] \in Int /\ m[a + 1] >= 5 /\ a + m[a + 1] <= e
      BY <1>4
    <3>2. e - a \in Nat
      BY <1>0, <3>1
    <3> QED
      BY <3>2
  <2>2. T # {} /\ T \subseteq Nat
    BY <1>1, <2>1
  <2> HIDE DEF T, S
  <2>3. PICK n \in T : \A k \in T : n <= k
    BY <2>2, LeastNumber
  <2>4. PICK a \in S : n = e - a
    BY <2>3 DEF T
  <2>5. \A c \in S : c <= a
    BY <1>0, <1>4, <2>1, <2>3, <2>4
  <2> QED
    BY <2>5
<1>6. at \in S
  <2>1. \E a \in S : \A i \in DOMAIN ix : ix[i] <= a
    BY <1>5
  <2> QED
    BY <2>1
<1> HIDE DEF at, top, S
<1>7. at + m[at + 1] = e
  <2>1. at \in Nat /\ m[at + 1] \in Int /\ top \in Nat
    BY <1>3, <1>4, <1>6, InHeap
  <2>2. at + (m[at + 1] + top - e) = top
    BY <1>2
  <2> DEFINE s == m[at + 1]
  <2>3. s \in Int /\ at + (s + top - e) = top
    BY <2>1, <2>2
  <2> HIDE DEF s
  <2>4. at + s = e
    BY <1>0, <2>1, <2>3
  <2> QED
    BY <2>4 DEF s
<1> QED
  BY <1>1, <1>2, <1>3, <1>6, <1>7

(* The heap after the expansion, whatever it was before. *)
Stretched(m, P, L, ix, g) ==
    \E Q \in SUBSET Nat :
        /\ Sane(g.mem, Q, g.end, L, g.index)
        /\ IndexAll(m, P, ix) => IndexAll(g.mem, Q, g.index)
        /\ Len(g.index) <= Len(ix) \/ Len(g.index) = 1

LEMMA ExpandLast ==
    ASSUME NEW m, NEW P, NEW e, NEW L, NEW ix, Sane(m, P, e, L, ix), ix # <<>>,
           NEW need \in Nat, need >= 5, e + need <= MaxPages * PageSize,
           NEW g, ExpandGives(m, e, ix, need, g)
    PROVE  Stretched(m, P, L, ix, g)
<1>1. PICK a \in Indexed(ix), top \in Ends :
         LET size == m[a + 1] + top - e
         IN  /\ a + m[a + 1] = e /\ top >= e + need
             /\ g.mem = PutFooter(PutHeader(m, a, size, 1), a + size - Footer, a)
             /\ g.index = ix /\ g.end = top
  BY ExpandHole
<1>2. PICK t : t = m[a + 1] + top - e
  OBVIOUS
<1>3. PICK m3 : m3 = g.mem
  OBVIOUS
<1>4. PICK A, B : A = {p \in P : p < a} /\ B = {p \in P : e <= p}
  OBVIOUS
<1>5. /\ m \in Memory /\ e \in Ends /\ e \in Nat /\ top \in Nat
      /\ Clients(m, P, L) /\ IndexTrue(m, P, ix)
      /\ \A w \in Nat : w < e => w \in Words
      /\ \A w \in Nat : w < top => w \in Words
  BY InHeap DEF Sane
<1>6. HoleAround(m, P, e, a)
  BY Around
<1>7. /\ a \in P /\ a \in Nat /\ m[a + 1] \in Int /\ m[a + 1] >= 5 /\ a + m[a + 1] = e
      /\ m[a + 2] # 0
      /\ Tiles(m, A, 0, a) /\ Tiles(m, B, e, e) /\ P = A \union {a} \union B
  BY <1>1, <1>4, <1>6 DEF HoleAround
<1>8. t \in Nat /\ t >= 5 /\ a + t = top /\ top >= e + 5
  <2> DEFINE s == m[a + 1]
  <2>1. s \in Int /\ s >= 5 /\ a + s = e /\ t = s + top - e /\ top >= e + need
    BY <1>1, <1>2, <1>7
  <2> HIDE DEF s
  <2> QED
    BY <1>5, <1>7, <2>1
<1>9. /\ m3 \in Memory /\ Marked(m3, a, t, 1)
      /\ \A w \in Words : ~(a <= w /\ w < a + t) => m3[w] = m[w]
  <2>1. m3 = PutFooter(PutHeader(m, a, t, 1), a + t - Footer, a)
    BY <1>1, <1>2, <1>3
  <2>2. a + t - 1 \in Words /\ t \in Int /\ t >= Header + Footer /\ 1 \in Int
    BY <1>5, <1>7, <1>8 DEF Header, Footer
  <2> QED
    BY <1>5, <1>7, <2>1, <2>2, MarkedPut
<1>10. \A w \in 0 .. a - 1 : m3[w] = m[w]
  BY <1>5, <1>7, <1>9
<1>11. /\ Tiles(m3, P, 0, top)
       /\ \A c \in A \union B : c \in Nat /\ Kept(m, m3, c)
  <2>1. e <= e /\ Fitted(m, m3, a, t, e, e, top)
    BY <1>5, <1>8 DEF Fitted
  <2>2. /\ Tiles(m3, A \union {a} \union B, 0, top)
        /\ \A c \in A \union B : c \in Nat /\ Kept(m, m3, c)
    BY <1>5, <1>7, <1>8, <1>9, <1>10, <2>1, Resized
  <2> QED
    BY <1>7, <2>2
<1>12. Retagged(m, P, m3, P, a)
  <2>1. P \subseteq Nat
    BY <1>7, <1>11
  <2>2. m3[a + 2] # 0
    BY <1>9 DEF Marked
  <2>3. \A c \in P \ {a} : c \in P /\ Kept(m, m3, c)
    BY <1>7, <1>11
  <2>4. Holes(m, P) \subseteq P
    BY DEF Holes
  <2> QED
    BY <1>7, <2>1, <2>2, <2>3, <2>4 DEF Retagged
<1>13. Staying(L, P, a, L)
  <2> SUFFICES ASSUME NEW b \in L PROVE b.at - Header \in P \ {a}
    BY DEF Staying
  <2>1. b.at - Header \in P /\ m[b.at - Header + 2] = 0
    BY <1>5 DEF Clients
  <2> QED
    BY <1>7, <2>1
<1>14. /\ Clients(m3, P, L) /\ Holes(m3, P) = Holes(m, P) \union {a} /\ P \in SUBSET Nat
  BY <1>5, <1>12, <1>13, Retag
<1>15. Holes(m3, P) = Holes(m, P)
  BY <1>7, <1>14 DEF Holes
<1>16. IndexTrue(m3, P, ix) /\ (IndexAll(m, P, ix) => IndexAll(m3, P, ix))
  BY <1>5, <1>15 DEF IndexTrue, IndexAll
<1>17. Sane(m3, P, top, L, ix)
  BY <1>9, <1>11, <1>14, <1>16 DEF Sane
<1>18. Len(ix) <= Len(ix)
  BY <1>5 DEF IndexTrue
<1> QED
  BY <1>1, <1>3, <1>14, <1>16, <1>17, <1>18 DEF Stretched

(* Without a hole in the index the new pages become one.                   *)
LEMMA ExpandFirst ==
    ASSUME NEW m, NEW P, NEW e, NEW L, NEW ix, Sane(m, P, e, L, ix), ix = <<>>,
           NEW need \in Nat, need >= 5, e + need <= MaxPages * PageSize,
           NEW g, ExpandGives(m, e, ix, need, g)
    PROVE  Stretched(m, P, L, ix, g)
<1>1. PICK top : top = RoundUp(e + need)
  OBVIOUS
<1>2. PICK t : t = top - e
  OBVIOUS
<1>3. PICK m3 : m3 = g.mem
  OBVIOUS
<1>5. /\ m \in Memory /\ e \in Ends /\ e \in Nat
      /\ Clients(m, P, L) /\ IndexTrue(m, P, ix)
      /\ \A w \in Nat : w < e => w \in Words
  BY InHeap DEF Sane
<1>6. /\ top \in Ends /\ top \in Nat /\ top >= e + need
      /\ \A w \in Nat : w < top => w \in Words
  <2>1. top \in Ends /\ top >= e + need
    BY <1>1, <1>5, Topped
  <2> QED
    BY <2>1, InHeap
<1>7. Tiles(m, P, 0, e)
  BY DEF Sane, Untouched
<1>8. t \in Nat /\ t >= 5 /\ e + t = top
  BY <1>2, <1>5, <1>6
<1>9. /\ m3 = PutFooter(PutHeader(m, e, t, 1), e + t - Footer, e)
      /\ g.index = <<e>> /\ g.end = top
  <2> DEFINE h == [mem |-> m, index |-> ix, end |-> e, odd |-> "none"]
  <2>1. g = expand(h, need)
    BY DEF ExpandGives
  <2>2. h.mem = m /\ h.index = <<>> /\ h.end = e
    OBVIOUS
  <2> HIDE DEF h
  <2>3. 0 + top - e = t
    BY <1>2, <1>5, <1>6
  <2> QED
    BY <1>1, <1>3, <2>1, <2>2, <2>3 DEF expand
<1>10. /\ m3 \in Memory /\ Marked(m3, e, t, 1)
       /\ \A w \in Words : ~(e <= w /\ w < e + t) => m3[w] = m[w]
  <2>1. e + t - 1 \in Words /\ t \in Int /\ t >= Header + Footer /\ 1 \in Int
    BY <1>5, <1>6, <1>8 DEF Header, Footer
  <2> QED
    BY <1>5, <1>9, <2>1, MarkedPut
<1>11. /\ Tiles(m3, P \union {e}, 0, top)
       /\ \A c \in P : c \in Nat /\ Kept(m, m3, c)
  <2>1. /\ e <= e /\ Fitted(m, m3, e, t, e, e, top)
        /\ \A w \in 0 .. e - 1 : m3[w] = m[w]
    BY <1>5, <1>8, <1>10 DEF Fitted
  <2>2. Tiles(m, {}, e, e)
    BY <1>5, TilesEmpty
  <2>3. /\ Tiles(m3, P \union {e} \union {}, 0, top)
        /\ \A c \in P \union {} : c \in Nat /\ Kept(m, m3, c)
    BY <1>5, <1>6, <1>7, <1>8, <1>10, <2>1, <2>2, Resized
  <2>4. P \union {e} \union {} = P \union {e} /\ P \union {} = P
    OBVIOUS
  <2> QED
    BY <2>3, <2>4
<1>12. PICK Q : Q = P \union {e}
  OBVIOUS
<1>13. e \notin P
  BY <1>5, <1>7 DEF Tiles
<1>14. Retagged(m, P, m3, Q, e)
  <2>1. m3[e + 2] # 0
    BY <1>10 DEF Marked
  <2>2. Holes(m, P) \subseteq Q
    BY <1>12 DEF Holes
  <2> QED
    BY <1>5, <1>11, <1>12, <2>1, <2>2 DEF Retagged
<1>15. Staying(L, Q, e, L)
  <2> SUFFICES ASSUME NEW b \in L PROVE b.at - Header \in Q \ {e}
    BY DEF Staying
  <2>1. b.at - Header \in P
    BY <1>5 DEF Clients
  <2> QED
    BY <1>12, <1>13, <2>1
<1>16. /\ Clients(m3, Q, L) /\ Holes(m3, Q) = Holes(m, P) \union {e} /\ Q \in SUBSET Nat
  BY <1>5, <1>14, <1>15, Retag
<1>17. /\ g.index \in Seq(Nat) /\ Once(g.index) /\ Indexed(g.index) = {e} /\ Len(g.index) = 1
       /\ Indexed(ix) = {}
  BY <1>5, <1>9 DEF Once, Indexed
<1>18. IndexTrue(m3, Q, g.index) /\ (IndexAll(m, P, ix) => IndexAll(m3, Q, g.index))
  BY <1>16, <1>17 DEF IndexTrue, IndexAll
<1>19. Sane(m3, Q, top, L, g.index)
  BY <1>6, <1>10, <1>11, <1>12, <1>16, <1>18 DEF Sane
<1> QED
  BY <1>3, <1>9, <1>16, <1>17, <1>18, <1>19 DEF Stretched

(* An expansion of a sane heap leaves a sane heap.                         *)
LEMMA ExpandKeeps ==
    ASSUME NEW m, NEW P, NEW e, NEW L, NEW ix, Sane(m, P, e, L, ix),
           NEW need \in Nat, need >= 5, e + need <= MaxPages * PageSize,
           NEW g, ExpandGives(m, e, ix, need, g)
    PROVE  Stretched(m, P, L, ix, g)
  BY ExpandFirst, ExpandLast

(* The piece in front of x, as the footer in front of x finds it. *)
LEMMA InFront ==
    ASSUME NEW m, NEW P, NEW e \in Nat, Tiles(m, P, 0, e), NEW x \in P, x # 0
    PROVE  \E p \in P : /\ p \in Nat /\ m[p + 1] \in Int /\ m[p + 1] >= 5 /\ p + m[p + 1] = x
                        /\ m[p] = Magic
                        /\ m[x - Footer] = Magic /\ m[x - 1] = p
<1>1. PICK p \in P : p + m[p + 1] = x
  BY DEF Tiles
<1>2. /\ p \in Nat /\ m[p + 1] \in Int /\ m[p + 1] >= 5 /\ m[p] = Magic /\ LeadsBack(m, p)
      /\ x \in Nat
  BY DEF Tiles, Header, Footer
<1>3. p + m[p + 1] - Footer = x - 2 /\ p + m[p + 1] - Footer + 1 = x - 1
  <2> DEFINE s == m[p + 1]
  <2>1. s \in Int /\ p + s = x
    BY <1>1, <1>2
  <2> HIDE DEF s
  <2>2. p + s - Footer = x - 2 /\ p + s - Footer + 1 = x - 1
    BY <1>2, <2>1 DEF Footer
  <2> QED
    BY <2>2 DEF s
<1>4. m[x - 2] = Magic /\ m[x - 1] = p
  BY <1>2, <1>3 DEF LeadsBack
<1> QED
  BY <1>1, <1>2, <1>4 DEF Footer

(* The pieces from y to z have become one hole of size t at y.             *)
Merged(m, P, e, x, m2, y, t) ==
    /\ y \in P /\ y \in Nat /\ t \in Nat /\ t >= 5 /\ y + t <= e /\ x \in P /\ m[x + 2] = 0
    /\ m2 \in Memory /\ \E k : k # 0 /\ Marked(m2, y, t, k)
    /\ \A w \in Words : ~(y <= w /\ w < y + t) => m2[w] = m[w]
    /\ Tiles(m, {p \in P : p < y}, 0, y)
    /\ Tiles(m, {p \in P : y + t <= p}, y + t, e)
    /\ (P \ {x}) \union {y} = {p \in P : p < y} \union {y} \union {p \in P : y + t <= p}
    /\ y # x => m[y + 2] # 0

(* b is a block of the clients, so its piece is one of the pieces.         *)
LEMMA BlockPiece ==
    ASSUME NEW m, NEW P, NEW e, NEW L, NEW ix, Sane(m, P, e, L, ix), NEW b \in L,
           NEW x, x = b.at - Header
    PROVE  /\ Tiles(m, P, 0, e) /\ P \subseteq Nat /\ x \in P /\ x \in Nat /\ m[x + 2] = 0
           /\ m[x] = Magic /\ m[x + 1] \in Int /\ m[x + 1] >= 5 /\ x + m[x + 1] <= e
           /\ LeadsBack(m, x) /\ x + m[x + 1] \in P \union {e}
<1>1. x \in P /\ m[x + 2] = 0 /\ e \in Nat
  BY InHeap DEF Sane, Clients
<1>2. Tiles(m, P, 0, e)
  BY <1>1 DEF Sane, Untouched
<1> QED
  BY <1>1, <1>2 DEF Tiles, Header, Footer

(* Without a hole in front the block itself becomes one. *)
LEMMA MergeAlone ==
    ASSUME NEW m, NEW P, NEW e, NEW L, NEW ix, Sane(m, P, e, L, ix), NEW b \in L,
           NEW x, x = b.at - Header
    PROVE  Merged(m, P, e, x, [m EXCEPT ![x + 2] = 1], x, m[x + 1])
<1>1. /\ Tiles(m, P, 0, e) /\ P \subseteq Nat /\ x \in P /\ x \in Nat /\ m[x + 2] = 0
      /\ m[x] = Magic /\ m[x + 1] \in Int /\ m[x + 1] >= 5 /\ x + m[x + 1] <= e
      /\ LeadsBack(m, x) /\ x + m[x + 1] \in P \union {e}
  BY BlockPiece
<1>2. m \in Memory /\ e \in Nat /\ \A w \in Nat : w < e => w \in Words
  BY InHeap DEF Sane
<1>3. PICK t : t = m[x + 1]
  OBVIOUS
<1>4. PICK m2 : m2 = [m EXCEPT ![x + 2] = 1]
  OBVIOUS
<1>5. t \in Nat /\ t >= 5 /\ x + t <= e /\ x + t \in Nat
  BY <1>1, <1>3
<1>6. /\ m2 \in Memory /\ m2[x + 2] = 1
      /\ \A w \in Words : w # x + 2 => m2[w] = m[w]
  <2>1. x + 2 \in Words
    BY <1>1, <1>2, <1>5
  <2> QED
    BY <1>2, <1>4, <2>1 DEF Memory
<1>7. Marked(m2, x, t, 1)
  <2>1. x \in Words /\ x + 1 \in Words /\ x + t - Footer \in Words /\ x + t - Footer + 1 \in Words
    BY <1>1, <1>2, <1>5 DEF Footer
  <2>2. x # x + 2 /\ x + 1 # x + 2 /\ x + t - Footer # x + 2 /\ x + t - Footer + 1 # x + 2
    BY <1>1, <1>5 DEF Footer
  <2>3. m[x + t - Footer] = Magic /\ m[x + t - Footer + 1] = x
    BY <1>1, <1>3 DEF LeadsBack
  <2> QED
    BY <1>1, <1>3, <1>6, <2>1, <2>2, <2>3 DEF Marked
<1>8. \A w \in Words : ~(x <= w /\ w < x + t) => m2[w] = m[w]
  BY <1>1, <1>5, <1>6
<1>9. /\ Tiles(m, {p \in P : p < x}, 0, x)
      /\ Tiles(m, {p \in P : x + t <= p}, x + t, e)
  <2>1. 0 \in Nat /\ 0 <= e /\ x + t \in P \union {e} /\ x \in P \union {e}
    BY <1>1, <1>2, <1>3
  <2>2. Tiles(m, {p \in P : p < x}, 0, x)
    <3>1. Tiles(m, P, 0, e) /\ e \in Nat
      BY <1>1, <1>2
    <3> QED
      BY <2>1, <3>1, TilesSplit
  <2>3. Tiles(m, {p \in P : x + t <= p}, x + t, e)
    BY <1>1, <1>2, <2>1, TilesSplit
  <2> QED
    BY <2>2, <2>3
<1>10. (P \ {x}) \union {x} = {p \in P : p < x} \union {x} \union {p \in P : x + t <= p}
  <2>1. \A p \in P : p < x \/ p = x \/ x + t <= p
    BY <1>1, <1>3 DEF Tiles
  <2> QED
    BY <1>1, <2>1
<1>11. \E k : k # 0 /\ Marked(m2, x, t, k)
  BY <1>7
<1>12. Merged(m, P, e, x, m2, x, t)
  BY <1>1, <1>5, <1>6, <1>8, <1>9, <1>10, <1>11 DEF Merged
<1> QED
  BY <1>3, <1>4, <1>12

(* A hole in front takes the block in. *)
LEMMA MergeInto ==
    ASSUME NEW m, NEW P, NEW e, NEW L, NEW ix, Sane(m, P, e, L, ix), NEW b \in L,
           NEW x, x = b.at - Header,
           NEW p \in P, p \in Nat, m[p + 1] \in Int, m[p + 1] >= 5, p + m[p + 1] = x,
           m[p] = Magic, m[p + 2] # 0,
           NEW m2, m2 = [[[m EXCEPT ![x + 2] = 1] EXCEPT ![x + m[x + 1] - Footer + 1] = p]
                         EXCEPT ![p + 1] = m[p + 1] + m[x + 1]]
    PROVE  Merged(m, P, e, x, m2, p, m[p + 1] + m[x + 1])
<1>1. /\ Tiles(m, P, 0, e) /\ P \subseteq Nat /\ x \in P /\ x \in Nat /\ m[x + 2] = 0
      /\ m[x] = Magic /\ m[x + 1] \in Int /\ m[x + 1] >= 5 /\ x + m[x + 1] <= e
      /\ LeadsBack(m, x) /\ x + m[x + 1] \in P \union {e}
  BY BlockPiece
<1>2. m \in Memory /\ e \in Nat /\ \A w \in Nat : w < e => w \in Words
  BY InHeap DEF Sane
<1>3. PICK s : s = m[x + 1]
  OBVIOUS
<1>4. PICK s0 : s0 = m[p + 1]
  OBVIOUS
<1>5. PICK t : t = s0 + s
  OBVIOUS
<1>6. /\ s \in Nat /\ s >= 5 /\ s0 \in Nat /\ s0 >= 5 /\ t \in Nat /\ t >= 5
      /\ p + s0 = x /\ p + t = x + s /\ p + t <= e /\ p + t \in Nat
  BY <1>1, <1>3, <1>4, <1>5
<1>7. /\ p \in Words /\ p + 1 \in Words /\ p + 2 \in Words /\ x + 2 \in Words
      /\ x + s - Footer \in Words /\ x + s - Footer + 1 \in Words
  BY <1>1, <1>2, <1>6 DEF Footer
<1>8. PICK f : f = x + s - Footer
  OBVIOUS
<1>9. f = x + s - 2 /\ f \in Nat /\ f = p + t - 2
  BY <1>1, <1>6, <1>8 DEF Footer
<1>10. m2 = [[[m EXCEPT ![x + 2] = 1] EXCEPT ![f + 1] = p] EXCEPT ![p + 1] = t]
  BY <1>3, <1>4, <1>5, <1>8
<1>11. /\ m2 \in Memory /\ m2[p + 1] = t
       /\ m2[f + 1] = p
       /\ \A w \in Words : w # p + 1 /\ w # f + 1 /\ w # x + 2 => m2[w] = m[w]
  <2>1. p \in Int /\ t \in Int /\ p + 1 # f + 1 /\ f + 1 \in Words
    BY <1>6, <1>7, <1>8, <1>9
  <2>2. PICK ma : ma = [m EXCEPT ![x + 2] = 1]
    OBVIOUS
  <2>3. PICK mb : mb = [ma EXCEPT ![f + 1] = p]
    OBVIOUS
  <2>4. ma \in Memory /\ \A w \in Words : w # x + 2 => ma[w] = m[w]
    BY <1>2, <1>7, <2>2 DEF Memory
  <2>5. /\ mb \in Memory /\ mb[f + 1] = p
        /\ \A w \in Words : w # f + 1 => mb[w] = ma[w]
    BY <2>1, <2>3, <2>4 DEF Memory
  <2>6. m2 = [mb EXCEPT ![p + 1] = t]
    BY <1>10, <2>2, <2>3
  <2>7. /\ m2 \in Memory /\ m2[p + 1] = t
        /\ \A w \in Words : w # p + 1 => m2[w] = mb[w]
    BY <1>7, <2>1, <2>5, <2>6 DEF Memory
  <2> QED
    BY <2>1, <2>4, <2>5, <2>7
<1>12. Marked(m2, p, t, m[p + 2])
  <2>1. p + t - Footer = f /\ p + t - Footer + 1 = f + 1
    BY <1>9 DEF Footer
  <2>2. m[f] = Magic
    BY <1>1, <1>3, <1>8 DEF LeadsBack
  <2>3. /\ f # p + 1 /\ f # f + 1 /\ f # x + 2 /\ f \in Words
        /\ p # p + 1 /\ p # f + 1 /\ p # x + 2
        /\ p + 2 # p + 1 /\ p + 2 # f + 1 /\ p + 2 # x + 2
    BY <1>1, <1>6, <1>7, <1>8, <1>9
  <2> QED
    BY <1>7, <1>11, <2>1, <2>2, <2>3 DEF Marked
<1>13. \A w \in Words : ~(p <= w /\ w < p + t) => m2[w] = m[w]
  <2> SUFFICES ASSUME NEW w \in Words, ~(p <= w /\ w < p + t) PROVE m2[w] = m[w]
    OBVIOUS
  <2>1. w \in Int
    BY DEF Words
  <2>2. w # p + 1 /\ w # f + 1 /\ w # x + 2
    BY <1>1, <1>6, <1>9, <2>1
  <2> QED
    BY <1>11, <2>2
<1>14. /\ Tiles(m, {a \in P : a < p}, 0, p)
       /\ Tiles(m, {a \in P : p + t <= a}, p + t, e)
  <2>1. 0 \in Nat /\ 0 <= e /\ p + t \in P \union {e} /\ p \in P \union {e}
    BY <1>1, <1>2, <1>3, <1>6
  <2>2. Tiles(m, {a \in P : a < p}, 0, p)
    BY <1>1, <1>2, <2>1, TilesSplit
  <2>3. Tiles(m, {a \in P : p + t <= a}, p + t, e)
    BY <1>1, <1>2, <2>1, TilesSplit
  <2> QED
    BY <2>2, <2>3
<1>15. (P \ {x}) \union {p} = {a \in P : a < p} \union {p} \union {a \in P : p + t <= a}
  <2>1. \A a \in P : a < p \/ a = p \/ x <= a
    BY <1>1 DEF Tiles
  <2>2. \A a \in P : a < x \/ a = x \/ p + t <= a
    BY <1>1, <1>3, <1>6 DEF Tiles
  <2>3. ASSUME NEW a \in P, a # x
        PROVE  a < p \/ a = p \/ p + t <= a
    BY <1>1, <1>6, <2>1, <2>2, <2>3
  <2>4. ASSUME NEW a \in P, a < p \/ p + t <= a
        PROVE  a # x
    BY <1>1, <1>6, <2>4
  <2> QED
    BY <2>3, <2>4
<1>16. m[p + 2] # 0 /\ \E k : k # 0 /\ Marked(m2, p, t, k)
  BY <1>12
<1>17. Merged(m, P, e, x, m2, p, t)
  BY <1>1, <1>6, <1>11, <1>13, <1>14, <1>15, <1>16 DEF Merged
<1> QED
  BY <1>3, <1>4, <1>5, <1>17

(* Two words are written one after the other.                              *)
LEMMA PutTwice ==
    ASSUME NEW m, NEW u, NEW v, u # v, NEW p, NEW s, NEW m2, m2 = [m EXCEPT ![u] = p]
    PROVE  [m EXCEPT ![u] = p, ![v] = @ + s] = [m2 EXCEPT ![v] = @ + s]
  OBVIOUS

(* MergeLeft in a sane heap makes a hole, from the block or from the hole  *)
(* in front of it and the block.                                           *)
LEMMA MergeGives ==
    ASSUME NEW m, NEW P, NEW e, NEW L, NEW ix, Sane(m, P, e, L, ix), NEW b \in L,
           NEW x, x = b.at - Header,
           NEW r, r = MergeLeft([mem |-> m, index |-> ix, end |-> e, odd |-> "none"], x)
    PROVE  \E y, t : /\ Merged(m, P, e, x, r.mem, y, t)
                     /\ r.at = y /\ r.foot = y + t - Footer /\ (r.merged <=> y # x)
<1>1. /\ Tiles(m, P, 0, e) /\ P \subseteq Nat /\ x \in P /\ x \in Nat /\ m[x + 2] = 0
      /\ m[x] = Magic /\ m[x + 1] \in Int /\ m[x + 1] >= 5 /\ x + m[x + 1] <= e
      /\ LeadsBack(m, x) /\ x + m[x + 1] \in P \union {e}
  BY BlockPiece
<1>2. m \in Memory /\ e \in Nat /\ \A w \in Nat : w < e => w \in Words
  BY InHeap DEF Sane
<1>3. PICK f : f = x + m[x + 1] - Footer
  OBVIOUS
<1>4. PICK m1 : m1 = [m EXCEPT ![x + 2] = 1]
  OBVIOUS
<1>5. \A w \in Words : w # x + 2 => m1[w] = m[w]
  BY <1>2, <1>4 DEF Memory
<1> DEFINE left == x > 0 /\ m1[x - Footer] = Magic /\ m1[m1[x - 1] + 2] # 0
           at == IF left THEN m1[x - 1] ELSE x
           both == [m1 EXCEPT ![f + 1] = at, ![at + 1] = @ + SizeAt(m1, x)]
<1>6. r = [at |-> at, foot |-> f, merged |-> left,
           mem |-> IF left THEN both ELSE m1]
  <2> DEFINE h == [mem |-> m, index |-> ix, end |-> e, odd |-> "none"]
  <2>1. r = MergeLeft(h, x) /\ h.mem = m
    OBVIOUS
  <2> HIDE DEF h
  <2> QED
    BY <1>3, <1>4, <2>1 DEF MergeLeft, SizeAt
<1>7. CASE ~left
  <2>1. r.at = x /\ r.foot = f /\ ~r.merged /\ r.mem = m1
    <3> HIDE DEF left
    <3> QED
      BY <1>6, <1>7
  <2>2. Merged(m, P, e, x, m1, x, m[x + 1])
    BY <1>4, MergeAlone
  <2> QED
    BY <1>3, <2>1, <2>2
<1>8. CASE left
  <2>1. x # 0
    BY <1>8
  <2>2. PICK p \in P : /\ p \in Nat /\ m[p + 1] \in Int /\ m[p + 1] >= 5 /\ p + m[p + 1] = x
                       /\ m[p] = Magic /\ m[x - Footer] = Magic /\ m[x - 1] = p
    BY <1>1, <1>2, <2>1, InFront
  <2>3. PICK s, s0 : s = m[x + 1] /\ s0 = m[p + 1]
    OBVIOUS
  <2>4. /\ s \in Nat /\ s0 \in Nat /\ s >= 5 /\ s0 >= 5 /\ p + s0 = x /\ x + s <= e
        /\ f = x + s - 2 /\ f + 1 \in Nat
    BY <1>1, <1>3, <2>2, <2>3 DEF Footer
  <2>5. /\ x - 1 \in Words /\ p + 2 \in Words /\ p + 1 \in Words /\ x + 1 \in Words
        /\ f + 1 \in Words
        /\ x - 1 # x + 2 /\ p + 2 # x + 2 /\ p + 1 # x + 2 /\ x + 1 # x + 2 /\ p + 1 # f + 1
    BY <1>1, <1>2, <2>2, <2>4
  <2>6. m1[x - 1] = p /\ m1[p + 1] = s0 /\ m1[x + 1] = s /\ m1[p + 2] = m[p + 2]
    BY <1>5, <2>2, <2>3, <2>5
  <2>7. /\ r.at = p /\ r.foot = f /\ r.merged /\ m[p + 2] # 0
        /\ r.mem = [m1 EXCEPT ![f + 1] = p, ![p + 1] = @ + s]
    <3>1. m1[m1[x - 1] + 2] # 0
      BY <1>8
    <3>2. at = p
      BY <1>8, <2>6
    <3>3. SizeAt(m1, x) = s
      BY <2>6 DEF SizeAt
    <3> HIDE DEF left, at
    <3>4. r.at = at /\ r.foot = f /\ r.merged = left
      BY <1>6
    <3>5. r.mem = [m1 EXCEPT ![f + 1] = at, ![at + 1] = @ + SizeAt(m1, x)]
      <4>1. r.mem = both
        <5> HIDE DEF both
        <5> QED
          BY <1>6, <1>8
      <4> QED
        BY <4>1
    <3>6. r.mem = [m1 EXCEPT ![f + 1] = p, ![p + 1] = @ + s]
      BY <3>2, <3>3, <3>5
    <3> QED
      BY <1>8, <2>6, <3>1, <3>2, <3>4, <3>6
  <2>8. PICK mb : mb = [m1 EXCEPT ![f + 1] = p]
    OBVIOUS
  <2>9. mb[p + 1] = s0
    <3>1. p + 1 \in DOMAIN m1
      BY <1>2, <1>4, <2>5 DEF Memory
    <3> QED
      BY <2>5, <2>6, <2>8, <3>1
  <2>10. r.mem = [mb EXCEPT ![p + 1] = s0 + s]
    <3>1. [m1 EXCEPT ![f + 1] = p, ![p + 1] = @ + s] = [mb EXCEPT ![p + 1] = @ + s]
      BY <2>5, <2>8, PutTwice
    <3>2. r.mem = [mb EXCEPT ![p + 1] = @ + s]
      BY <2>7, <3>1
    <3> QED
      BY <2>9, <3>2
  <2>11. r.mem = [[[m EXCEPT ![x + 2] = 1] EXCEPT ![x + m[x + 1] - Footer + 1] = p]
                  EXCEPT ![p + 1] = m[p + 1] + m[x + 1]]
    BY <1>3, <1>4, <2>3, <2>8, <2>10
  <2>12. Merged(m, P, e, x, r.mem, p, m[p + 1] + m[x + 1])
    BY <2>2, <2>7, <2>11, MergeInto
  <2>13. f = p + (m[p + 1] + m[x + 1]) - Footer
    BY <2>3, <2>4, <2>2 DEF Footer
  <2>14. p # x
    BY <2>2, <2>4
  <2> QED
    BY <2>7, <2>12, <2>13, <2>14
<1> QED
  BY <1>7, <1>8

(* contract leaves what lies in front of the hole, and the minimal heap.   *)
LEMMA ContractedEnd ==
    ASSUME NEW e \in Ends, NEW y \in Nat, y <= e
    PROVE  Contracted(y) \in Ends /\ y <= Contracted(y) /\ Contracted(y) <= e
<1>0. /\ e \in Nat /\ e >= MinPages * PageSize /\ e <= MaxPages * PageSize
      /\ MinPages \in Nat /\ MaxPages \in Nat /\ PageSize \in Nat /\ MinPages <= MaxPages
  BY InHeap, HeapAssumption
<1>1. PICK n \in MinPages .. MaxPages : e = n * PageSize
  BY DEF Ends
<1>2. PICK q \in Nat : RoundUp(y) = q * PageSize
  BY RoundedUp
<1>3. y <= RoundUp(y) /\ RoundUp(y) <= e
  BY <1>0, <1>1, RoundedUp
<1> DEFINE low == MinPages * PageSize
           high == MaxPages * PageSize
           x == q * PageSize
<1>4. low \in Nat /\ high \in Nat /\ x \in Nat /\ low <= e /\ e <= high
  BY <1>0
<1>5. low \in Ends
  BY <1>0 DEF Ends
<1>6. low <= x => x \in Ends
  <2>1. x <= high
    <3> HIDE DEF x, high
    <3>1. RoundUp(y) = x
      BY <1>2 DEF x
    <3> QED
      BY <1>0, <1>3, <1>4, <3>1
  <2> QED
    BY <2>1, EndOf
<1> HIDE DEF low, high, x
<1>7. Contracted(y) = IF x < low THEN low ELSE x
  BY <1>2 DEF Contracted, x, low
<1>8. y <= x /\ x <= e
  BY <1>2, <1>3 DEF x
<1> QED
  BY <1>0, <1>4, <1>5, <1>6, <1>7, <1>8

(* The hole at y is t2 words long now, in a heap that ends at s.end. *)
Shrunk(m, s, y, t, t2, e) ==
    /\ t2 \in Nat /\ t2 >= 5 /\ s.mem \in Memory /\ s.end \in Ends
    /\ \E k : k # 0 /\ Marked(s.mem, y, t2, k)
    /\ Fitted(m, s.mem, y, t2, y + t, e, s.end)
    /\ \A w \in 0 .. y - 1 : s.mem[w] = m[w]

(* Shrink leaves the hole as it is, or with the new end of the heap as its *)
(* own.                                                                    *)
LEMMA ShrinkGives ==
    ASSUME NEW m, NEW P, NEW e \in Ends, NEW x, NEW r, NEW y, NEW t,
           Merged(m, P, e, x, r.mem, y, t), r.at = y, r.foot = y + t - Footer,
           NEW s, s = Shrink(r, e), s.size \notin 0 .. Header + Footer - 1
    PROVE  \E t2 : Shrunk(m, s, y, t, t2, e)
<1>1. /\ y \in Nat /\ t \in Nat /\ t >= 5 /\ y + t <= e /\ r.mem \in Memory
      /\ \A w \in Words : ~(y <= w /\ w < y + t) => r.mem[w] = m[w]
      /\ y + t \in Nat
  BY DEF Merged
<1>2. PICK k : k # 0 /\ Marked(r.mem, y, t, k)
  BY DEF Merged
<1>3. e \in Nat /\ \A w \in Nat : w < e => w \in Words
  BY InHeap
<1>4. PICK top : top = Contracted(y)
  OBVIOUS
<1>5. top \in Ends /\ top \in Nat /\ y <= top /\ top <= e
  <2>1. y <= e
    BY <1>1, <1>3
  <2>2. top \in Ends /\ y <= top /\ top <= e
    BY <1>1, <1>4, <2>1, ContractedEnd
  <2> QED
    BY <2>2, InHeap
<1>6. \A w \in 0 .. y - 1 : r.mem[w] = m[w]
  BY <1>1, <1>3
<1>7. SizeAt(r.mem, r.at) = t
  BY <1>2 DEF Marked, SizeAt
<1>8. CASE r.foot + Footer # e
  <2>1. s.mem = r.mem /\ s.end = e
    BY <1>8 DEF Shrink
  <2>2. Fitted(m, s.mem, y, t, y + t, e, s.end)
    <3>1. \A w \in y + t .. e - 1 : r.mem[w] = m[w]
      BY <1>1, <1>3
    <3> QED
      BY <2>1, <3>1 DEF Fitted
  <2>3. Shrunk(m, s, y, t, t, e)
    BY <1>1, <1>2, <1>6, <2>1, <2>2 DEF Shrunk
  <2> QED
    BY <2>3
<1>9. CASE r.foot + Footer = e
  <2>1. y + t = e
    BY <1>1, <1>9 DEF Footer
  <2>2. PICK t2 : t2 = t - (e - top)
    OBVIOUS
  <2>3. /\ s.end = top /\ s.size = t2
        /\ s.mem = IF t2 = 0 THEN r.mem
                   ELSE PutFooter(PutHeader(r.mem, y, t2, 1), y + t2 - Footer, y)
    BY <1>4, <1>7, <1>9, <2>2 DEF Shrink
  <2>4. t2 \in Nat /\ t2 >= 5 /\ y + t2 = top
    <3>1. t2 \in Nat /\ y + t2 = top
      BY <1>1, <1>3, <1>5, <2>1, <2>2
    <3>2. t2 \notin 0 .. 4
      BY <2>3 DEF Header, Footer
    <3> QED
      BY <3>1, <3>2
  <2>5. /\ s.mem \in Memory /\ Marked(s.mem, y, t2, 1)
        /\ \A w \in Words : ~(y <= w /\ w < y + t2) => s.mem[w] = r.mem[w]
    <3>1. y + t2 - 1 \in Words /\ t2 \in Int /\ t2 >= Header + Footer /\ 1 \in Int
      BY <1>1, <1>3, <1>5, <2>4 DEF Header, Footer
    <3>2. s.mem = PutFooter(PutHeader(r.mem, y, t2, 1), y + t2 - Footer, y)
      BY <2>3, <2>4
    <3> QED
      BY <1>1, <3>1, <3>2, MarkedPut
  <2>6. \A w \in 0 .. y - 1 : s.mem[w] = m[w]
    BY <1>1, <1>3, <1>6, <2>5
  <2>7. Fitted(m, s.mem, y, t2, y + t, e, s.end)
    BY <2>1, <2>3, <2>4 DEF Fitted
  <2>8. \E j : j # 0 /\ Marked(s.mem, y, t2, j)
    BY <2>5
  <2>9. Shrunk(m, s, y, t, t2, e)
    BY <1>5, <2>3, <2>4, <2>5, <2>6, <2>7, <2>8 DEF Shrunk
  <2> QED
    BY <2>9
<1> QED
  BY <1>8, <1>9

(* The pieces and the blocks that free leaves. *)
WithoutBlock(P, L, b, x, y, Q, L2) ==
    x = b.at - Header /\ Q = (P \ {x}) \union {y} /\ L2 = L \ {b}

(* What free leaves: the block is gone, its words belong to a hole. *)
LEMMA FreeTiles ==
    ASSUME NEW m, NEW P, NEW e, NEW L, NEW ix, Sane(m, P, e, L, ix), NEW b \in L,
           NEW x, NEW m2, NEW y, NEW t, Merged(m, P, e, x, m2, y, t),
           NEW s, NEW t2, Shrunk(m, s, y, t, t2, e),
           NEW Q, NEW L2, WithoutBlock(P, L, b, x, y, Q, L2)
    PROVE  /\ Tiles(s.mem, Q, 0, s.end)
           /\ Retagged(m, P, s.mem, Q, y)
           /\ Staying(L, Q, y, L2)
<1>0. x = b.at - Header /\ Q = (P \ {x}) \union {y} /\ L2 = L \ {b}
  BY DEF WithoutBlock
<1>1. PICK A, B : A = {p \in P : p < y} /\ B = {p \in P : y + t <= p}
  OBVIOUS
<1>2. /\ y \in P /\ y \in Nat /\ t \in Nat /\ y + t <= e /\ x \in P /\ m[x + 2] = 0 /\ y + t \in Nat
      /\ Tiles(m, A, 0, y) /\ Tiles(m, B, y + t, e) /\ Q = A \union {y} \union B
      /\ y # x => m[y + 2] # 0
  BY <1>0, <1>1 DEF Merged
<1>3. /\ t2 \in Nat /\ t2 >= 5 /\ s.mem \in Memory /\ s.end \in Ends
      /\ Fitted(m, s.mem, y, t2, y + t, e, s.end)
      /\ \A w \in 0 .. y - 1 : s.mem[w] = m[w]
  BY DEF Shrunk
<1>4. PICK k : k # 0 /\ Marked(s.mem, y, t2, k)
  BY DEF Shrunk
<1>5. e \in Nat /\ s.end \in Nat /\ L \subseteq Block /\ P \subseteq Nat
  <2>1. e \in Nat /\ s.end \in Nat
    BY <1>3, InHeap DEF Sane
  <2>2. P \subseteq Nat
    BY DEF Sane, Tiles, Untouched
  <2> QED
    BY <2>1, <2>2 DEF Sane, Clients
<1>6. /\ Tiles(s.mem, A \union {y} \union B, 0, s.end)
      /\ \A a \in A \union B : a \in Nat /\ Kept(m, s.mem, a)
  <2>1. PICK z, m3, e3 : z = y + t /\ m3 = s.mem /\ e3 = s.end
    OBVIOUS
  <2>2. /\ z \in Nat /\ z <= e /\ Tiles(m, A, 0, y) /\ Tiles(m, B, z, e) /\ e3 \in Nat
        /\ Fitted(m, m3, y, t2, z, e, e3) /\ Marked(m3, y, t2, k)
        /\ \A w \in 0 .. y - 1 : m3[w] = m[w]
    BY <1>2, <1>3, <1>4, <1>5, <2>1
  <2>3. /\ Tiles(m3, A \union {y} \union B, 0, e3)
        /\ \A a \in A \union B : a \in Nat /\ Kept(m, m3, a)
    BY <1>2, <1>3, <1>5, <2>2, Resized
  <2> QED
    BY <2>1, <2>3
<1>7. Retagged(m, P, s.mem, Q, y)
  <2>1. s.mem[y + 2] # 0
    BY <1>4 DEF Marked
  <2>2. ASSUME NEW a \in Q \ {y} PROVE a \in P /\ Kept(m, s.mem, a)
    BY <1>0, <1>2, <1>6
  <2>3. Holes(m, P) \subseteq Q
    BY <1>0, <1>2 DEF Holes
  <2> QED
    BY <1>2, <1>5, <2>1, <2>2, <2>3 DEF Retagged
<1>8. Staying(L, Q, y, L2)
  <2>1. ASSUME NEW c \in L2 PROVE c.at - Header \in Q \ {y}
    <3>1. c \in L /\ c # b /\ c.at \in Nat /\ b.at \in Nat
      BY <1>0, <1>5 DEF Block
    <3>2. c.at # b.at
      BY <3>1 DEF Sane, Clients
    <3>3. c.at - Header # x
      BY <1>0, <3>1, <3>2 DEF Header
    <3>4. c.at - Header \in P /\ m[c.at - Header + 2] = 0
      BY <3>1 DEF Sane, Clients
    <3>5. c.at - Header # y
      BY <1>2, <3>3, <3>4
    <3> QED
      BY <1>0, <3>3, <3>4, <3>5
  <2>2. ASSUME NEW c \in L, c.at - Header \in Q \ {y} PROVE c \in L2
    <3>1. x \notin Q \ {y}
      BY <1>0
    <3> QED
      BY <1>0, <2>2, <3>1
  <2> QED
    BY <1>0, <2>1, <2>2 DEF Staying
<1> QED
  BY <1>2, <1>6, <1>7, <1>8

(* What Unallocate does to heap, where none of the coincidences happens. *)
FreeGives(m, e, ix, b, r, s, ix2) ==
    /\ r = MergeLeft([mem |-> m, index |-> ix, end |-> e, odd |-> "none"], b.at - Header)
    /\ s = Shrink(r, e) /\ s.size \notin 0 .. Header + Footer - 1
    /\ ix2 = IF r.merged THEN ix ELSE Insert(s.mem, ix, r.at)

(* The heap after a free in which no coincidence happens.                  *)
FreeKept(m, P, ix, s, L2, ix2) ==
    \E Q \in SUBSET Nat :
        /\ Sane(s.mem, Q, s.end, L2, ix2) /\ Len(ix2) <= Len(ix) + 1
        /\ IndexAll(m, P, ix) /\ Len(ix) < IndexSize => IndexAll(s.mem, Q, ix2)

(* A free in a sane heap leaves a sane heap without the block.             *)
LEMMA FreeKeeps ==
    ASSUME NEW m, NEW P, NEW e, NEW L, NEW ix, Sane(m, P, e, L, ix), NEW b \in L,
           NEW r, NEW s, NEW ix2, FreeGives(m, e, ix, b, r, s, ix2),
           NEW L2, L2 = L \ {b}
    PROVE  FreeKept(m, P, ix, s, L2, ix2)
<1>1. PICK x : x = b.at - Header
  OBVIOUS
<1>2. PICK y, t : /\ Merged(m, P, e, x, r.mem, y, t)
                  /\ r.at = y /\ r.foot = y + t - Footer /\ (r.merged <=> y # x)
  <2>1. r = MergeLeft([mem |-> m, index |-> ix, end |-> e, odd |-> "none"], x)
    BY <1>1 DEF FreeGives
  <2> QED
    BY <1>1, <2>1, MergeGives
<1>3. PICK t2 : Shrunk(m, s, y, t, t2, e)
  <2>1. e \in Ends /\ s = Shrink(r, e) /\ s.size \notin 0 .. Header + Footer - 1
    BY DEF FreeGives, Sane
  <2> QED
    BY <1>2, <2>1, ShrinkGives
<1>4. PICK Q : Q = (P \ {x}) \union {y}
  OBVIOUS
<1>5. /\ Tiles(s.mem, Q, 0, s.end)
      /\ Retagged(m, P, s.mem, Q, y)
      /\ Staying(L, Q, y, L2)
  <2>1. PICK m2 : m2 = r.mem
    OBVIOUS
  <2>2. Merged(m, P, e, x, m2, y, t)
    BY <1>2, <2>1
  <2>3. WithoutBlock(P, L, b, x, y, Q, L2)
    BY <1>1, <1>4 DEF WithoutBlock
  <2> QED
    BY <1>3, <2>2, <2>3, FreeTiles
<1>6. /\ Clients(m, P, L) /\ ix \in Seq(Nat) /\ Once(ix) /\ Indexed(ix) \subseteq Holes(m, P)
      /\ IndexSize \in Nat /\ Len(ix) \in Nat
  BY HeapAssumption DEF Sane, IndexTrue
<1>7. /\ Clients(s.mem, Q, L2) /\ Holes(s.mem, Q) = Holes(m, P) \union {y} /\ Q \in SUBSET Nat
  BY <1>5, <1>6, Retag
<1>8. s.mem \in Memory /\ s.end \in Ends
  BY <1>3 DEF Shrunk
<1>9. y \in Nat /\ y \in P /\ m[x + 2] = 0 /\ (y # x => m[y + 2] # 0)
  BY <1>2 DEF Merged
<1>10. /\ ix2 \in Seq(Nat) /\ Once(ix2) /\ Len(ix2) <= Len(ix) + 1
       /\ Indexed(ix2) \subseteq Indexed(ix) \union {y}
       /\ IndexAll(m, P, ix) /\ Len(ix) < IndexSize => Indexed(ix2) = Indexed(ix) \union {y}
  <2>1. CASE y # x
    <3>1. ix2 = ix
      BY <1>2, <2>1 DEF FreeGives
    <3>2. y \in Holes(m, P)
      BY <1>9, <2>1 DEF Holes
    <3> QED
      BY <1>6, <3>1, <3>2 DEF IndexAll
  <2>2. CASE y = x
    <3>1. ix2 = Insert(s.mem, ix, y)
      BY <1>2, <2>2 DEF FreeGives
    <3>2. y \notin Indexed(ix)
      BY <1>6, <1>9, <2>2 DEF Holes
    <3> QED
      BY <1>6, <1>9, <3>1, <3>2, Inserted
  <2> QED
    BY <2>1, <2>2
<1>11. IndexTrue(s.mem, Q, ix2)
  BY <1>6, <1>7, <1>10 DEF IndexTrue
<1>12. IndexAll(m, P, ix) /\ Len(ix) < IndexSize => IndexAll(s.mem, Q, ix2)
  BY <1>6, <1>7, <1>10 DEF IndexAll
<1>13. Sane(s.mem, Q, s.end, L2, ix2)
  BY <1>5, <1>7, <1>8, <1>11 DEF Sane
<1> QED
  BY <1>7, <1>10, <1>12, <1>13 DEF FreeKept

(* What a call leaves, where the index had at most n entries before. *)
SaneAfter(m, P, ix, n, m2, e2, L2, ix2) ==
    \E Q \in SUBSET Nat :
        /\ Sane(m2, Q, e2, L2, ix2) /\ Len(ix2) <= n + 1
        /\ IndexAll(m, P, ix) /\ n < IndexSize => IndexAll(m2, Q, ix2)

(* A heap of one hole is sane.                                             *)
LEMMA OnePiece ==
    ASSUME NEW m \in Memory, NEW e \in Ends, m[2] # 0,
           Tiles(m, {0}, 0, e) \/ Untouched(m, {0}, e, << 0 >>)
    PROVE  Sane(m, {0}, e, {}, <<0>>) /\ IndexAll(m, {0}, <<0>>) /\ Len(<<0>>) = 1
<1>1. Holes(m, {0}) = {0} /\ Indexed(<<0>>) = {0} /\ Once(<<0>>) /\ <<0>> \in Seq(Nat)
  BY DEF Holes, Indexed, Once
<1>2. Clients(m, {0}, {})
  BY DEF Clients
<1> QED
  BY <1>1, <1>2 DEF Sane, IndexTrue, IndexAll

(* Each call leaves a sane heap: heap_manager_malloc where a hole fits, in *)
(* all cases, heap_manager_free, heap_manager_free_all.                    *)
LEMMA GiveKeeps ==
    ASSUME NEW P, NEW L, NEW h, NEW n \in Nat, NEW i \in 1 .. Len(h.index),
           h = [mem |-> h.mem, index |-> h.index, end |-> h.end, odd |-> "none"],
           Sane(h.mem, P, h.end, L, h.index), Len(h.index) <= n, mem \in Memory, L = live,
           NEW size \in Nat, NEW aligned \in BOOLEAN, NEW wiped \in BOOLEAN,
           Fits(h, h.index[i], size + Header + Footer, aligned),
           Give(h, i, size, aligned, wiped), odd' = "none"
    PROVE  SaneAfter(h.mem, P, h.index, n, mem', end', live', index')
<1>1. PICK g : g = Cut(h, i, size, aligned)
  OBVIOUS
<1>2. PICK at : at = BlockOf(h.index[i], aligned)
  OBVIOUS
<1>3. PICK m, ix, e : m = h.mem /\ ix = h.index /\ e = h.end
  OBVIOUS
<1>4. /\ mem' = IF wiped /\ g.odd = "none"
                THEN [a \in DOMAIN mem |-> IF a \in at .. at + size - 1 THEN 0 ELSE g.mem[a]]
                ELSE g.mem
      /\ index' = g.index /\ end' = g.end /\ odd' = g.odd
      /\ live' = L \union {[at |-> at, size |-> size, aligned |-> aligned]}
  BY <1>1, <1>2 DEF Give
<1>5. g.odd = "none"
  BY <1>4
<1>6. mem' = Handed(g, at, size, wiped)
  <2>1. DOMAIN mem = Words
    BY DEF Memory
  <2> QED
    BY <1>4, <1>5, <2>1 DEF Handed
<1>7. CutGives(m, e, ix, i, size, aligned, g)
  <2>1. h = [mem |-> m, index |-> ix, end |-> e, odd |-> "none"]
    BY <1>3
  <2>2. Fits(h, ix[i], size + Header + Footer, aligned)
    BY <1>3
  <2> QED
    BY <1>1, <1>5, <2>1, <2>2 DEF CutGives
<1>8. Sane(m, P, e, L, ix) /\ i \in 1 .. Len(ix) /\ at = BlockOf(ix[i], aligned)
  BY <1>2, <1>3
<1>9. PICK Q \in SUBSET Nat :
         /\ Sane(Handed(g, at, size, wiped), Q, e,
                 L \union {[at |-> at, size |-> size, aligned |-> aligned]}, g.index)
         /\ g.end = e /\ Len(g.index) <= Len(ix) + 1
         /\ IndexAll(m, P, ix) /\ Len(ix) < IndexSize
            => IndexAll(Handed(g, at, size, wiped), Q, g.index)
  <2>1. CutKept(m, P, e, L, ix, size, aligned, wiped, g, at)
    BY <1>7, <1>8, CutKeeps
  <2> QED
    BY <2>1 DEF CutKept
<1>10. Sane(mem', Q, end', live', index')
  BY <1>4, <1>6, <1>9
<1>11. /\ Len(index') <= n + 1
       /\ IndexAll(m, P, ix) /\ n < IndexSize => IndexAll(mem', Q, index')
  <2>1. Len(ix) \in Nat /\ Len(g.index) \in Nat /\ Len(ix) <= n /\ IndexSize \in Nat
    BY <1>3, <1>8, <1>9, HeapAssumption DEF Sane, IndexTrue
  <2> QED
    BY <1>4, <1>6, <1>9, <2>1
<1> QED
  BY <1>3, <1>10, <1>11 DEF SaneAfter

LEMMA MallocKeeps ==
    ASSUME NEW P, Sane(mem, P, end, live, index), NEW n \in Nat, n >= 1, Len(index) <= n,
           NEW size \in Nat, NEW aligned \in BOOLEAN, NEW wiped \in BOOLEAN,
           Malloc(size, aligned, wiped), odd' = "none"
    PROVE  SaneAfter(mem, P, index, n, mem', end', live', index')
<1>1. PICK need : need = size + Header + Footer
  OBVIOUS
<1>2. PICK i : i = find_smallest_hole(heap, need, aligned)
  OBVIOUS
<1>3. PICK g : g = expand(heap, need)
  OBVIOUS
<1>4. PICK j : j = find_smallest_hole(g, need, aligned)
  OBVIOUS
<1>5. /\ odd = "none"
      /\ IF i # 0 THEN Give(heap, i, size, aligned, wiped)
         ELSE /\ end + need <= MaxPages * PageSize
              /\ IF j # 0 /\ g.odd = "none" THEN Give(g, j, size, aligned, wiped)
                 ELSE /\ mem' = g.mem /\ index' = g.index /\ end' = g.end
                      /\ odd' = g.odd /\ UNCHANGED live
  BY <1>1, <1>2, <1>3, <1>4 DEF Malloc
<1>6. need \in Nat /\ need >= 5
  BY <1>1 DEF Header, Footer
<1>7. mem \in Memory /\ index \in Seq(Nat) /\ Len(index) \in Nat /\ IndexSize \in Nat
  BY HeapAssumption DEF Sane, IndexTrue
<1>8. CASE i # 0
  <2>1. PICK h : h = heap
    OBVIOUS
  <2>2. /\ h = [mem |-> h.mem, index |-> h.index, end |-> h.end, odd |-> "none"]
        /\ h.mem = mem /\ h.index = index /\ h.end = end
    BY <1>5, <2>1 DEF heap
  <2>3. i \in 1 .. Len(h.index) /\ Fits(h, h.index[i], need, aligned)
    <3>1. i = find_smallest_hole(h, need, aligned) /\ h.index \in Seq(Nat)
      BY <1>2, <1>7, <2>1, <2>2
    <3> QED
      BY <1>8, <3>1, Found
  <2>4. Give(h, i, size, aligned, wiped)
    BY <1>5, <1>8, <2>1
  <2>5. Fits(h, h.index[i], size + Header + Footer, aligned)
    BY <1>1, <2>3
  <2>6. Sane(h.mem, P, h.end, live, h.index) /\ Len(h.index) <= n
    BY <2>2
  <2>7. SaneAfter(h.mem, P, h.index, n, mem', end', live', index')
    BY <1>7, <2>2, <2>3, <2>4, <2>5, <2>6, GiveKeeps
  <2> QED
    BY <2>2, <2>7
<1>9. CASE i = 0
  <2>1. end + need <= MaxPages * PageSize
    BY <1>5, <1>9
  <2>2. g.odd = "none"
    BY <1>5, <1>9
  <2>3. ExpandGives(mem, end, index, need, g)
    <3>1. heap = [mem |-> mem, index |-> index, end |-> end, odd |-> "none"]
      BY <1>5 DEF heap
    <3> QED
      BY <1>3, <2>2, <3>1 DEF ExpandGives
  <2>4. Stretched(mem, P, live, index, g)
    BY <1>6, <2>1, <2>3, ExpandKeeps
  <2>5. PICK Q \in SUBSET Nat :
           /\ Sane(g.mem, Q, g.end, live, g.index)
           /\ IndexAll(mem, P, index) => IndexAll(g.mem, Q, g.index)
           /\ Len(g.index) <= Len(index) \/ Len(g.index) = 1
    BY <2>4 DEF Stretched
  <2>6. g.index \in Seq(Nat) /\ Len(g.index) \in Nat /\ Len(g.index) <= n
    <3>1. g.index \in Seq(Nat)
      BY <2>5 DEF Sane, IndexTrue
    <3>2. Len(g.index) \in Nat
      BY <3>1
    <3>3. Len(g.index) <= Len(index) \/ Len(g.index) = 1
      BY <2>5
    <3>4. PICK k, l : k = Len(g.index) /\ l = Len(index)
      OBVIOUS
    <3>5. k \in Nat /\ l \in Nat /\ (k <= l \/ k = 1) /\ l <= n /\ n >= 1
      BY <1>7, <3>2, <3>3, <3>4
    <3>6. k <= n
      BY <3>5
    <3> QED
      BY <3>1, <3>2, <3>4, <3>6
  <2>7. CASE j # 0
    <3>1. g = [mem |-> g.mem, index |-> g.index, end |-> g.end, odd |-> "none"]
      BY <1>3, <2>2 DEF expand
    <3>2. j \in 1 .. Len(g.index) /\ Fits(g, g.index[j], need, aligned)
      BY <1>4, <2>6, <2>7, Found
    <3>3. Give(g, j, size, aligned, wiped)
      BY <1>5, <1>9, <2>2, <2>7
    <3>4. Fits(g, g.index[j], size + Header + Footer, aligned)
      BY <1>1, <3>2
    <3>5. SaneAfter(g.mem, Q, g.index, n, mem', end', live', index')
      BY <1>7, <2>5, <2>6, <3>1, <3>2, <3>3, <3>4, GiveKeeps
    <3> QED
      BY <2>5, <3>5 DEF SaneAfter
  <2>8. CASE j = 0
    <3>1. mem' = g.mem /\ index' = g.index /\ end' = g.end /\ live' = live
      BY <1>5, <1>9, <2>8
    <3>2. Len(g.index) <= n + 1
      BY <2>6
    <3> QED
      BY <2>5, <3>1, <3>2 DEF SaneAfter
  <2> QED
    BY <2>7, <2>8
<1> QED
  BY <1>8, <1>9

LEMMA UnallocateKeeps ==
    ASSUME NEW P, Sane(mem, P, end, live, index), NEW n \in Nat, Len(index) <= n,
           NEW b \in live, Unallocate(b), odd' = "none"
    PROVE  SaneAfter(mem, P, index, n, mem', end', live', index')
<1>1. PICK r : r = MergeLeft(heap, b.at - Header)
  OBVIOUS
<1>2. PICK s : s = Shrink(r, end)
  OBVIOUS
<1>3. PICK far, foreign : far = r.foot + RightTest /\ foreign = HoleAt(r.mem, far)
  OBVIOUS
<1>4. PICK ix : ix = IF foreign THEN Without(index, far) ELSE index
  OBVIOUS
<1>5. /\ odd = "none"
      /\ live' = live \ {b}
      /\ IF far >= end /\ ~behind THEN odd' = "fault" /\ UNCHANGED <<mem, index, end>>
         ELSE IF foreign
         THEN /\ mem' = [r.mem EXCEPT ![r.at + 1] = @ + SizeAt(r.mem, far)]
              /\ index' = IF r.merged THEN ix ELSE Insert(mem', ix, r.at)
              /\ odd' = "foreign" /\ UNCHANGED end
         ELSE /\ mem' = s.mem /\ end' = s.end
              /\ index' = IF r.merged THEN ix ELSE Insert(s.mem, ix, r.at)
              /\ odd' = CASE s.size = 0 -> "emptied"
                          [] s.size \in 1 .. Header + Footer - 1 -> "sliver"
                          [] OTHER -> "none"
  BY <1>1, <1>2, <1>3, <1>4 DEF Unallocate
<1>6. ~foreign
  BY <1>5
<1>7. /\ mem' = s.mem /\ end' = s.end
      /\ index' = IF r.merged THEN index ELSE Insert(s.mem, index, r.at)
      /\ s.size # 0 /\ s.size \notin 1 .. Header + Footer - 1
  <2>1. odd' = CASE s.size = 0 -> "emptied"
                 [] s.size \in 1 .. Header + Footer - 1 -> "sliver"
                 [] OTHER -> "none"
    BY <1>5, <1>6
  <2>2. s.size # 0 => s.size \notin 1 .. Header + Footer - 1
    BY <2>1
  <2>3. 0 \notin 1 .. Header + Footer - 1
    BY DEF Header, Footer
  <2>4. s.size # 0
    BY <2>1, <2>3
  <2> QED
    BY <1>4, <1>5, <1>6, <2>2, <2>4
<1>8. FreeGives(mem, end, index, b, r, s, index')
  <2>1. heap = [mem |-> mem, index |-> index, end |-> end, odd |-> "none"]
    BY <1>5 DEF heap
  <2>2. s.size \notin 0 .. Header + Footer - 1
    BY <1>7 DEF Header, Footer
  <2> QED
    BY <1>1, <1>2, <1>7, <2>1, <2>2 DEF FreeGives
<1>9. PICK Q \in SUBSET Nat :
         /\ Sane(s.mem, Q, s.end, live', index') /\ Len(index') <= Len(index) + 1
         /\ IndexAll(mem, P, index) /\ Len(index) < IndexSize => IndexAll(s.mem, Q, index')
  <2>1. FreeKept(mem, P, index, s, live', index')
    BY <1>5, <1>8, FreeKeeps
  <2> QED
    BY <2>1 DEF FreeKept
<1>10. /\ Len(index') <= n + 1
       /\ IndexAll(mem, P, index) /\ n < IndexSize => IndexAll(s.mem, Q, index')
  <2>1. Len(index) \in Nat /\ Len(index') \in Nat /\ IndexSize \in Nat
    BY <1>9, HeapAssumption DEF Sane, IndexTrue
  <2> QED
    BY <1>9, <2>1
<1> QED
  BY <1>7, <1>9, <1>10 DEF SaneAfter

LEMMA FreeAllKeeps ==
    ASSUME NEW P, Sane(mem, P, end, live, index), NEW n \in Nat, FreeAll
    PROVE  SaneAfter(mem, P, index, n, mem', end', live', index')
<1>1. PICK e : e = MinPages * PageSize
  OBVIOUS
<1>2. e \in Ends /\ mem \in Memory
  BY <1>1, HeapAssumption DEF Ends, Sane
<1>3. /\ end' = e /\ index' = <<0>> /\ live' = {}
      /\ mem' = PutFooter(PutHeader(mem, 0, e, 1), e - Footer, 0)
  BY <1>1 DEF FreeAll
<1>4. e \in Nat /\ e > 19 /\ \A w \in Nat : w < e => w \in Words
  BY <1>2, InHeap
<1>5. PICK m2 : m2 = PutFooter(PutHeader(mem, 0, e, 1), 0 + e - Footer, 0)
  OBVIOUS
<1>6. m2 \in Memory /\ Marked(m2, 0, e, 1)
  <2>1. 0 + e - 1 \in Words /\ e \in Int /\ e >= Header + Footer /\ 1 \in Int /\ 0 \in Nat
    BY <1>4 DEF Header, Footer
  <2> QED
    BY <1>2, <1>5, <2>1, MarkedPut
<1>7. mem' = m2
  <2>1. 0 + e - Footer = e - Footer
    BY <1>4 DEF Footer
  <2> QED
    BY <1>3, <1>5, <2>1
<1>8. Tiles(m2, {0}, 0, e) /\ m2[2] # 0
  <2>1. 0 + e = e /\ e \in Int /\ e >= Header + Footer /\ 0 \in Nat
    BY <1>4 DEF Header, Footer
  <2>2. Tiles(m2, {0}, 0, 0 + e)
    BY <1>6, <2>1, TilesMarked
  <2>3. m2[0 + 2] # 0 /\ 0 + 2 = 2
    BY <1>6 DEF Marked
  <2> QED
    BY <2>1, <2>2, <2>3
<1>9. Sane(m2, {0}, e, {}, <<0>>) /\ IndexAll(m2, {0}, <<0>>) /\ Len(<<0>>) = 1
  BY <1>2, <1>6, <1>8, OnePiece
<1> QED
  BY <1>3, <1>7, <1>9 DEF SaneAfter

(* The invariant holds at first, and every call keeps it.                  *)
LEMMA HeapInitially == HeapInit => HeapInvariant /\ AllIndexed
<1> SUFFICES ASSUME HeapInit PROVE HeapInvariant /\ AllIndexed
  OBVIOUS
<1>1. /\ end \in Ends /\ index = <<0>> /\ live = {} /\ odd = "none" /\ calls = 0
      /\ mem = [[[[w \in Words |-> 0] EXCEPT ![0] = Magic] EXCEPT ![0 + 1] = end]
                EXCEPT ![0 + 2] = 1]
  BY DEF HeapInit, Ends, Words, PutHeader
<1>2. end \in Nat /\ 0 \in Words /\ 0 + 1 \in Words /\ 0 + 2 \in Words
  BY <1>1, InHeap
<1>3. PICK ma : ma = [[w \in Words |-> 0] EXCEPT ![0] = Magic]
  OBVIOUS
<1>4. PICK mb : mb = [ma EXCEPT ![0 + 1] = end]
  OBVIOUS
<1>5. ma \in Memory /\ ma[0] = Magic
  BY <1>2, <1>3 DEF Memory, Magic
<1>6. mb \in Memory /\ mb[0] = Magic /\ mb[1] = end
  BY <1>2, <1>4, <1>5 DEF Memory
<1>7. mem \in Memory /\ mem[0] = Magic /\ mem[1] = end /\ mem[2] = 1
  <2>1. mem = [mb EXCEPT ![0 + 2] = 1]
    BY <1>1, <1>3, <1>4
  <2> QED
    BY <1>2, <1>6, <2>1 DEF Memory
<1>8. Untouched(mem, {0}, end, <<0>>)
  BY <1>7 DEF Untouched
<1>9. Sane(mem, {0}, end, {}, <<0>>) /\ IndexAll(mem, {0}, <<0>>) /\ Len(<<0>>) = 1
  <2>1. end \in Ends /\ mem[2] # 0
    BY <1>1, <1>7
  <2>2. Tiles(mem, {0}, 0, end) \/ Untouched(mem, {0}, end, <<0>>)
    BY <1>8
  <2> QED
    BY <1>7, <2>1, <2>2, OnePiece
<1>10. /\ {0} \in SUBSET Nat /\ Sane(mem, {0}, end, live, index)
       /\ IndexAll(mem, {0}, index)
  BY <1>1, <1>9
<1>11. Len(index) <= calls + 1 /\ calls \in Nat
  BY <1>1, <1>9
<1> QED
  BY <1>10, <1>11 DEF HeapInvariant, AllIndexed

(* A call leaves a sane heap with the indices that SaneAfter allows.       *)
LEMMA CallKeeps ==
    ASSUME NEW P \in SUBSET Nat, Sane(mem, P, end, live, index), HeapNext, odd' = "none",
           NEW n \in Nat, n >= 1, Len(index) <= n
    PROVE  SaneAfter(mem, P, index, n, mem', end', live', index')
<1>1. ASSUME NEW size \in Sizes, NEW aligned \in BOOLEAN, NEW wiped \in Wiped,
             Malloc(size, aligned, wiped)
      PROVE  SaneAfter(mem, P, index, n, mem', end', live', index')
  <2>1. size \in Nat /\ wiped \in BOOLEAN
    BY HeapAssumption
  <2> QED
    BY <1>1, <2>1, MallocKeeps
<1>2. ASSUME NEW b \in live, Unallocate(b)
      PROVE  SaneAfter(mem, P, index, n, mem', end', live', index')
  BY <1>2, UnallocateKeeps
<1>3. ASSUME FreeAll
      PROVE  SaneAfter(mem, P, index, n, mem', end', live', index')
  BY <1>3, FreeAllKeeps
<1> QED
  BY <1>1, <1>2, <1>3 DEF HeapNext

(* What every call needs and gives: the calls are counted, and no call is  *)
(* made after a coincidence.                                               *)
LEMMA CallCounted ==
    ASSUME HeapNext, calls \in Nat
    PROVE  /\ calls < MaxCalls /\ calls' = calls + 1 /\ MaxCalls \in Nat
           /\ odd = "none" /\ IndexSize \in Nat
  BY HeapAssumption DEF HeapNext, Malloc, Unallocate, FreeAll

LEMMA HeapInductive == HeapInvariant /\ [HeapNext]_heapVars => HeapInvariant'
<1> SUFFICES ASSUME HeapInvariant, [HeapNext]_heapVars PROVE HeapInvariant'
  OBVIOUS
<1>1. CASE UNCHANGED heapVars
  BY <1>1 DEF HeapInvariant, heapVars
<1>2. CASE HeapNext
  <2>1. calls \in Nat /\ calls' = calls + 1 /\ odd = "none"
    BY <1>2, CallCounted DEF HeapInvariant
  <2>2. SUFFICES ASSUME odd' = "none"
                 PROVE  \E P \in SUBSET Nat :
                          Sane(mem', P, end', live', index') /\ Len(index') <= calls' + 1
    BY <2>1 DEF HeapInvariant
  <2>3. PICK P \in SUBSET Nat : Sane(mem, P, end, live, index) /\ Len(index) <= calls + 1
    BY <2>1 DEF HeapInvariant
  <2>4. PICK n \in Nat : n = calls + 1 /\ n >= 1
    BY <2>1
  <2>5. SaneAfter(mem, P, index, n, mem', end', live', index')
    BY <1>2, <2>2, <2>3, <2>4, CallKeeps
  <2> QED
    BY <2>1, <2>4, <2>5 DEF SaneAfter
<1> QED
  BY <1>1, <1>2

(* While the index is never full, it lists every hole, and stays so.  The  *)
(* step may begin with an index that is empty: then an expansion inserts   *)
(* the new hole and the split another, for which there must be two places. *)
LEMMA AllIndexedKept ==
    ASSUME IndexSize > 1, AllIndexed, calls \in Nat, [HeapNext]_heapVars,
           HeapNext => Len(index) < IndexSize
    PROVE  AllIndexed'
<1>1. CASE UNCHANGED heapVars
  BY <1>1 DEF AllIndexed, heapVars
<1>2. CASE HeapNext
  <2>1. odd = "none" /\ IndexSize \in Nat
    BY <1>2, CallCounted
  <2>2. SUFFICES ASSUME odd' = "none"
                 PROVE  \E P \in SUBSET Nat :
                          Sane(mem', P, end', live', index') /\ IndexAll(mem', P, index')
    BY DEF AllIndexed
  <2>3. PICK P \in SUBSET Nat : Sane(mem, P, end, live, index) /\ IndexAll(mem, P, index)
    BY <2>1 DEF AllIndexed
  <2>4. PICK n \in Nat : n >= 1 /\ Len(index) <= n /\ n < IndexSize
    <3>1. Len(index) \in Nat /\ Len(index) < IndexSize
      BY <1>2, <2>3 DEF Sane, IndexTrue
    <3> QED
      BY <2>1, <3>1
  <2>5. SaneAfter(mem, P, index, n, mem', end', live', index')
    BY <1>2, <2>2, <2>3, <2>4, CallKeeps
  <2> QED
    BY <2>3, <2>4, <2>5 DEF SaneAfter
<1> QED
  BY <1>1, <1>2

(* The pieces found walking the tags are the pieces of the invariant. *)
LEMMA Walk ==
    ASSUME NEW m, NEW e \in Nat, \A a \in 0 .. e : SizeAt(m, a) \in Int
    PROVE  LET F(f) == [a \in 0 .. e |->
                           IF a = e \/ SizeAt(m, a) <= 0 \/ a + SizeAt(m, a) > e THEN {a}
                           ELSE {a} \union f[a + SizeAt(m, a)]]
           IN  \E f : f = F(f)
<1> DEFINE D == 0 .. e
           Stop(a) == a = e \/ SizeAt(m, a) <= 0 \/ a + SizeAt(m, a) > e
           Step(f, a) == IF Stop(a) THEN {a} ELSE {a} \union f[a + SizeAt(m, a)]
           F(f) == [a \in D |-> Step(f, a)]
<1>1. \A a \in D : ~Stop(a) => a + SizeAt(m, a) \in D /\ a < a + SizeAt(m, a)
  OBVIOUS
<1>2. ASSUME NEW f, NEW a \in D PROVE F(f)[a] = Step(f, a)
  OBVIOUS
<1>3. ASSUME NEW f, NEW g, NEW a \in D, \A c \in D : a < c => f[c] = g[c]
      PROVE  Step(f, a) = Step(g, a)
  <2>1. CASE Stop(a)
    BY <2>1
  <2>2. CASE ~Stop(a)
    <3>1. f[a + SizeAt(m, a)] = g[a + SizeAt(m, a)]
      BY <1>1, <1>3, <2>2
    <3> QED
      BY <2>2, <3>1
  <2> QED
    BY <2>1, <2>2
<1>a. \A f : F(f) = [a \in D |-> Step(f, a)]
  OBVIOUS
<1> HIDE DEF Step, Stop, F
<1> DEFINE Ok(g, d) == \A a \in D : e - a <= d => g[a] = Step(g, a)
           T == {d \in Nat : ~ \E g : Ok(g, d)}
<1>4. T = {}
  <2>1. SUFFICES ASSUME T # {} PROVE FALSE
    OBVIOUS
  <2>2. PICK d \in T : \A n \in T : d <= n
    <3>1. T \subseteq Nat
      OBVIOUS
    <3> HIDE DEF T
    <3> QED
      BY <2>1, <3>1, LeastNumber
  <2>3. PICK g : \A a \in D : e - a < d => g[a] = Step(g, a)
    <3>1. CASE d = 0
      <4>1. \A a \in D : ~(e - a < d)
        BY <3>1
      <4> QED
        BY <4>1
    <3>2. CASE d # 0
      <4>1. d - 1 \in Nat /\ ~(d <= d - 1)
        BY <2>2, <3>2
      <4>2. \E g : Ok(g, d - 1)
        BY <2>2, <4>1
      <4>3. \A a \in D : e - a < d => e - a <= d - 1
        BY <2>2
      <4> QED
        BY <4>2, <4>3
    <3> QED
      BY <3>1, <3>2
  <2>4. \A a \in D : e - a < d => F(g)[a] = g[a]
    BY <1>2, <2>3
  <2>5. ASSUME NEW a \in D, e - a <= d PROVE F(g)[a] = Step(F(g), a)
    <3>1. PICK f : f = F(g)
      OBVIOUS
    <3>2. \A c \in D : a < c => f[c] = g[c]
      <4>1. \A c \in D : a < c => e - c < d
        BY <2>2, <2>5
      <4> QED
        BY <2>4, <3>1, <4>1
    <3>3. Step(f, a) = Step(g, a)
      BY <1>3, <3>2
    <3> QED
      BY <1>2, <3>1, <3>3
  <2>6. Ok(F(g), d)
    BY <2>5
  <2> QED
    BY <2>2, <2>6
<1>5. PICK g : Ok(g, e)
  BY <1>4
<1>6. \A a \in D : e - a <= e
  OBVIOUS
<1>7. \A a \in D : F(g)[a] = g[a]
  BY <1>2, <1>5, <1>6
<1>8. \A a \in D : Step(F(g), a) = Step(g, a)
  <2>1. PICK f : f = F(g)
    OBVIOUS
  <2>2. ASSUME NEW a \in D PROVE Step(f, a) = Step(g, a)
    BY <1>3, <1>7, <2>1
  <2> QED
    BY <2>1, <2>2
<1>9. F(F(g)) = F(g)
  BY <1>8, <1>a
<1>10. \E f : f = F(f)
  BY <1>9
<1> QED
  BY <1>10 DEF F, Step, Stop

(* What holds of the pieces, cut or not. *)
Stepping(m, P, e) ==
    /\ P \subseteq 0 .. e - 1 /\ 0 \in P
    /\ \A a \in P : /\ m[a] = Magic /\ m[a + 1] \in Int /\ m[a + 1] >= 5
                    /\ a + m[a + 1] \in P \union {e}
    /\ \A a, b \in P : a < b => a + m[a + 1] <= b
    /\ \A a \in P \ {0} : LeadsBack(m, a)

(* The pieces of a sane heap.                                              *)
LEMMA SaneSteps ==
    ASSUME NEW m, NEW P, NEW e, NEW L, NEW ix, Sane(m, P, e, L, ix)
    PROVE  Stepping(m, P, e) /\ e \in Nat /\ e > 19
<1>1. e \in Nat /\ e > 19
  BY InHeap DEF Sane
<1>2. CASE Tiles(m, P, 0, e)
  BY <1>1, <1>2 DEF Tiles, Stepping, Header, Footer
<1>3. CASE Untouched(m, P, e, ix)
  BY <1>1, <1>3 DEF Untouched, Stepping
<1> QED
  BY <1>1, <1>2, <1>3 DEF Sane

(* Walking from tag to tag one finds the pieces that tags, blocks and      *)
(* index agree on, and the end.                                            *)
LEMMA PiecesAre ==
    ASSUME NEW P, Sane(mem, P, end, live, index)
    PROVE  Pieces = P \union {end} /\ end \notin P
<1>1. /\ P \subseteq 0 .. end - 1 /\ 0 \in P /\ end \in Nat
      /\ \A a \in P : /\ mem[a + 1] \in Int /\ mem[a + 1] >= 5
                      /\ a + mem[a + 1] \in P \union {end}
      /\ \A a, b \in P : a < b => a + mem[a + 1] <= b
  BY SaneSteps DEF Stepping
<1>2. \A a \in 0 .. end : SizeAt(mem, a) \in Int
  <2> SUFFICES ASSUME NEW a \in 0 .. end PROVE mem[a + 1] \in Int
    BY DEF SizeAt
  <2>1. end \in Ends /\ mem \in Memory
    BY DEF Sane
  <2>2. PageSize \in Nat /\ PageSize > 19 /\ \A w \in Nat : w < end + PageSize => w \in Words
    BY <2>1, InHeap
  <2>3. a + 1 \in Nat /\ a + 1 < end + PageSize
    BY <1>1, <2>2
  <2>4. a + 1 \in Words
    BY <2>2, <2>3
  <2> QED
    BY <2>1, <2>4 DEF Memory
<1> DEFINE F(f) == [a \in 0 .. end |->
                      IF a = end \/ SizeAt(mem, a) <= 0 \/ a + SizeAt(mem, a) > end THEN {a}
                      ELSE {a} \union f[a + SizeAt(mem, a)]]
           W == CHOOSE f : f = F(f)
<1>3. Pieces = W[0]
  BY DEF Pieces
<1>4. W = F(W)
  <2>1. \E f : f = F(f)
    BY <1>1, <1>2, Walk
  <2> QED
    BY <2>1
<1>5. \A f : F(f) = [a \in 0 .. end |->
                      IF a = end \/ SizeAt(mem, a) <= 0 \/ a + SizeAt(mem, a) > end THEN {a}
                      ELSE {a} \union f[a + SizeAt(mem, a)]]
  OBVIOUS
<1> HIDE DEF W, F
<1>6. \A a \in 0 .. end : W[a] = IF a = end \/ SizeAt(mem, a) <= 0 \/ a + SizeAt(mem, a) > end
                                 THEN {a} ELSE {a} \union W[a + SizeAt(mem, a)]
  BY <1>4, <1>5
<1>7. W[end] = {end}
  <2>1. end \in 0 .. end
    BY <1>1
  <2> QED
    BY <1>6, <2>1, Zenon
<1>8. ASSUME NEW c \in P PROVE W[c] = {c} \union W[c + mem[c + 1]]
  <2>1. /\ c \in 0 .. end /\ c # end /\ mem[c + 1] > 0 /\ ~(c + mem[c + 1] > end)
        /\ SizeAt(mem, c) = mem[c + 1] /\ ~(mem[c + 1] <= 0)
    BY <1>1 DEF SizeAt
  <2>2. ~(c = end \/ SizeAt(mem, c) <= 0 \/ c + SizeAt(mem, c) > end)
    BY <2>1
  <2>3. W[c] = {c} \union W[c + SizeAt(mem, c)]
    BY <1>6, <2>1, <2>2, Zenon
  <2> QED
    BY <2>1, <2>3
<1> DEFINE Rest(c) == {q \in P \union {end} : c <= q}
           T == {d \in Nat : \E c \in P \union {end} : d = end - c /\ W[c] # Rest(c)}
<1>9. T = {}
  <2>1. SUFFICES ASSUME T # {} PROVE FALSE
    OBVIOUS
  <2>2. PICK d \in T : \A n \in T : d <= n
    <3>1. T \subseteq Nat
      OBVIOUS
    <3> HIDE DEF T
    <3> QED
      BY <2>1, <3>1, LeastNumber
  <2>3. PICK c \in P \union {end} : d = end - c /\ W[c] # Rest(c)
    BY <2>2
  <2>4. c # end
    <3>1. Rest(end) = {end}
      <4>1. \A q \in P \union {end} : end <= q <=> q = end
        BY <1>1
      <4> QED
        BY <4>1
    <3> QED
      BY <1>7, <2>3, <3>1
  <2>5. PICK c2 : c2 = c + mem[c + 1]
    OBVIOUS
  <2>6. c \in P /\ c2 \in P \union {end} /\ c2 \in Nat /\ c < c2 /\ c \in Nat /\ c2 <= end
    BY <1>1, <2>3, <2>4, <2>5
  <2>7. W[c2] = Rest(c2)
    <3>1. end - c2 \in Nat /\ ~(d <= end - c2)
      BY <1>1, <2>3, <2>6
    <3> QED
      BY <2>2, <2>6, <3>1
  <2>8. \A q \in P \union {end} : c <= q <=> q = c \/ c2 <= q
    <3> SUFFICES ASSUME NEW q \in P \union {end} PROVE c <= q <=> q = c \/ c2 <= q
      OBVIOUS
    <3>1. CASE q = end
      BY <1>1, <2>6, <3>1
    <3>2. CASE q \in P
      <4>1. q \in Int /\ (c < q => c2 <= q)
        BY <1>1, <2>5, <2>6, <3>2
      <4> QED
        BY <2>6, <4>1
    <3> QED
      BY <3>1, <3>2
  <2>9. Rest(c) = {c} \union Rest(c2)
    BY <2>6, <2>8
  <2>10. W[c] = {c} \union W[c2]
    BY <1>8, <2>5, <2>6
  <2> QED
    BY <2>3, <2>7, <2>9, <2>10
<1>10. W[0] = Rest(0)
  <2>1. end - 0 \in Nat
    BY <1>1
  <2> QED
    BY <1>1, <1>9, <2>1
<1>11. Rest(0) = P \union {end}
  <2>1. \A q \in P \union {end} : 0 <= q
    BY <1>1
  <2> QED
    BY <2>1
<1>12. end \notin P
  BY <1>1
<1> QED
  BY <1>3, <1>10, <1>11, <1>12

(* A sane heap has the three properties.                                   *)
LEMMA TiledHolds ==
    ASSUME NEW P, Sane(mem, P, end, live, index) PROVE Tiled
<1>1. Pieces = P \union {end} /\ end \notin P
  BY PiecesAre
<1>2. /\ P \subseteq 0 .. end - 1 /\ end \in Nat
      /\ \A a \in P : mem[a] = Magic
      /\ \A a \in P \ {0} : LeadsBack(mem, a)
  BY SaneSteps DEF Stepping
<1>3. Pieces \ {end} = P /\ Pieces \ {0, end} = P \ {0}
  BY <1>1
<1>4. \A p \in P : HoleAt(mem, p) <=> mem[p + 2] # 0
  BY <1>2 DEF HoleAt
<1>5. /\ live \subseteq Block
      /\ \A b \in live : b.at - Header \in P /\ mem[b.at - Header + 2] = 0
      /\ \A a \in P : mem[a + 2] = 0 => \E b \in live : b.at = a + Header
  BY DEF Sane, Clients
<1>6. {a + Header : a \in {p \in P : ~HoleAt(mem, p)}} = {b.at : b \in live}
  <2>1. ASSUME NEW a \in P, ~HoleAt(mem, a) PROVE a + Header \in {b.at : b \in live}
    <3>1. PICK b \in live : b.at = a + Header
      BY <1>4, <1>5, <2>1
    <3> QED
      BY <3>1
  <2>2. ASSUME NEW b \in live
        PROVE  b.at \in {a + Header : a \in {p \in P : ~HoleAt(mem, p)}}
    <3>1. PICK a : a = b.at - Header
      OBVIOUS
    <3>2. a \in P /\ ~HoleAt(mem, a)
      BY <1>4, <1>5, <3>1
    <3>3. b.at \in Nat
      BY <1>5 DEF Block
    <3>4. b.at = a + Header
      BY <3>1, <3>3 DEF Header
    <3> QED
      BY <3>2, <3>4
  <2> QED
    BY <2>1, <2>2
<1>7. FootersLead
  BY <1>2, <1>3 DEF FootersLead, LeadsBack, SizeAt
<1> QED
  BY <1>1, <1>2, <1>3, <1>6, <1>7 DEF Tiled

LEMMA OwnMemoryHolds ==
    ASSUME NEW P, Sane(mem, P, end, live, index) PROVE OwnMemory
<1>1. /\ P \subseteq 0 .. end - 1 /\ end \in Nat
      /\ \A a \in P : /\ mem[a + 1] \in Int /\ mem[a + 1] >= 5
                      /\ a + mem[a + 1] \in P \union {end}
      /\ \A a, b \in P : a < b => a + mem[a + 1] <= b
  BY SaneSteps DEF Stepping
<1>2. /\ live \subseteq Block
      /\ \A b \in live : /\ b.at - Header \in P
                         /\ b.size + Header + Footer <= mem[b.at - Header + 1]
                         /\ b.aligned => b.at % PageSize = 0
      /\ \A b, c \in live : b.at = c.at => b = c
  BY DEF Sane, Clients
<1>3. ASSUME NEW b \in live
      PROVE  \E x \in P, s \in Int :
                 /\ x \in Nat /\ b.at \in Nat /\ b.size \in Nat /\ x = b.at - 3 /\ s = mem[x + 1]
                 /\ b.size + 5 <= s /\ x + s <= end
  <2>1. b.at \in Nat /\ b.size \in Nat
    BY <1>2 DEF Block
  <2>2. PICK x, s : x = b.at - 3 /\ s = mem[x + 1]
    OBVIOUS
  <2>3. x \in P /\ b.size + 3 + 2 <= s
    BY <1>2, <2>2 DEF Header, Footer
  <2>4. x \in Nat /\ s \in Int /\ x + s <= end
    BY <1>1, <2>2, <2>3
  <2> QED
    BY <2>1, <2>2, <2>3, <2>4
<1>4. ASSUME NEW b \in live
      PROVE  b.at + b.size + Footer <= end /\ (b.aligned => b.at % PageSize = 0)
  <2>1. PICK x \in P, s \in Int :
           /\ x \in Nat /\ b.at \in Nat /\ b.size \in Nat /\ x = b.at - 3 /\ s = mem[x + 1]
           /\ b.size + 5 <= s /\ x + s <= end
    BY <1>3
  <2>2. b.at + b.size + 2 <= end
    BY <1>1, <2>1
  <2> QED
    BY <1>2, <2>2 DEF Footer
<1>5. ASSUME NEW b \in live, NEW c \in live \ {b}
      PROVE  \/ b.at + b.size + Footer <= c.at - Header
             \/ c.at + c.size + Footer <= b.at - Header
  <2>1. PICK x \in P, s \in Int :
           /\ x \in Nat /\ b.at \in Nat /\ b.size \in Nat /\ x = b.at - 3 /\ s = mem[x + 1]
           /\ b.size + 5 <= s /\ x + s <= end
    BY <1>3
  <2>2. PICK y \in P, t \in Int :
           /\ y \in Nat /\ c.at \in Nat /\ c.size \in Nat /\ y = c.at - 3 /\ t = mem[y + 1]
           /\ c.size + 5 <= t /\ y + t <= end
    BY <1>3
  <2>3. x # y
    BY <1>2, <2>1, <2>2
  <2>4. (x < y => x + s <= y) /\ (y < x => y + t <= x)
    BY <1>1, <2>1, <2>2
  <2>5. b.at + b.size + 2 <= c.at - 3 \/ c.at + c.size + 2 <= b.at - 3
    BY <2>1, <2>2, <2>3, <2>4
  <2> QED
    BY <2>5 DEF Header, Footer
<1> QED
  BY <1>4, <1>5 DEF OwnMemory

LEMMA IndexCompleteHolds ==
    ASSUME NEW P, Sane(mem, P, end, live, index), IndexAll(mem, P, index) PROVE IndexComplete
<1>1. Pieces = P \union {end} /\ end \notin P
  BY PiecesAre
<1>2. \A a \in P : mem[a] = Magic
  BY SaneSteps DEF Stepping
<1>3. {a \in Pieces \ {end} : HoleAt(mem, a)} = Holes(mem, P)
  BY <1>1, <1>2 DEF HoleAt, Holes
<1>4. /\ index \in Seq(Nat) /\ Once(index)
      /\ Indexed(index) = Holes(mem, P)
  BY DEF Sane, IndexTrue, IndexAll
<1>5. {index[i] : i \in DOMAIN index} = Indexed(index)
  BY <1>4 DEF Indexed
<1>6. \A i, j \in DOMAIN index : i < j => index[i] # index[j]
  BY <1>4 DEF Once
<1> QED
  BY <1>3, <1>4, <1>5, <1>6 DEF IndexComplete

(* HeapInvariant is an invariant.                                          *)
LEMMA HeapInvariantHolds == HeapSpec => []HeapInvariant
  BY HeapInitially, HeapInductive, PTL DEF HeapSpec

(* Whatever clients allocate and free in whatever order, the tags divide   *)
(* the heap, and every footer leads to its header (allocate, unallocate).  *)
THEOREM HeapTiled == HeapSpec => []Tiled
<1>1. HeapInvariant => Tiled
  BY TiledHolds DEF HeapInvariant, Tiled
<1> QED
  BY <1>1, HeapInvariantHolds, PTL

(* The blocks of clients lie in the heap, apart from each other and from   *)
(* all tags, and an aligned one begins a page (heap_manager_malloc).       *)
THEOREM HeapOwnMemory == HeapSpec => []OwnMemory
<1>1. HeapInvariant => OwnMemory
  BY OwnMemoryHolds DEF HeapInvariant, OwnMemory
<1> QED
  BY <1>1, HeapInvariantHolds, PTL

(* A heap whose index never fills up has every hole in it: allocate finds  *)
(* a hole if there is one (ordered_array_insert drops what does not fit).  *)
THEOREM HeapIndexComplete ==
    ASSUME IndexSize > 1
    PROVE  HeapSpec /\ [](Len(index) < IndexSize) => []IndexComplete
<1>1. AllIndexed => IndexComplete
  BY IndexCompleteHolds DEF AllIndexed, IndexComplete
<1>2. HeapInvariant /\ Len(index) < IndexSize /\ AllIndexed /\ [HeapNext]_heapVars => AllIndexed'
  BY AllIndexedKept DEF HeapInvariant
<1> QED
  BY <1>1, <1>2, HeapInitially, HeapInvariantHolds, PTL DEF HeapSpec

(* That is so for as many calls as the index has entries.                  *)
THEOREM HeapIndexCompleteAtFirst ==
    ASSUME MaxCalls < IndexSize
    PROVE  HeapSpec => []IndexComplete
<1>1. AllIndexed => IndexComplete
  BY IndexCompleteHolds DEF AllIndexed, IndexComplete
<1>2. HeapInvariant /\ AllIndexed /\ [HeapNext]_heapVars => AllIndexed'
  <2> SUFFICES ASSUME HeapInvariant, AllIndexed, [HeapNext]_heapVars PROVE AllIndexed'
    OBVIOUS
  <2>1. CASE UNCHANGED heapVars
    BY <2>1 DEF AllIndexed, heapVars
  <2>2. CASE HeapNext
    <3>1. /\ calls \in Nat /\ calls < MaxCalls /\ MaxCalls \in Nat
          /\ odd = "none" /\ IndexSize \in Nat
      BY <2>2, CallCounted DEF HeapInvariant
    <3>2. PICK P \in SUBSET Nat : Sane(mem, P, end, live, index) /\ Len(index) <= calls + 1
      BY <3>1 DEF HeapInvariant
    <3>3. Len(index) \in Nat
      BY <3>2 DEF Sane, IndexTrue
    <3>4. Len(index) < IndexSize /\ IndexSize > 1
      BY <3>1, <3>2, <3>3
    <3> QED
      BY <2>2, <3>1, <3>4, AllIndexedKept
  <2> QED
    BY <2>1, <2>2
<1> QED
  BY <1>1, <1>2, HeapInitially, HeapInvariantHolds, PTL DEF HeapSpec
=============================================================================
