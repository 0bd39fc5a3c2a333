------------------------------- MODULE Paging -------------------------------
(***************************************************************************)
(* Paging and physical frames: paging-manager.c, physical-memory-manager.c *)
(* and its bitmap, the part of kernel_main that maps the kernel, the heap  *)
(* and low memory, and the heap as far as it asks for pages (expand,       *)
(* contract) and gives the paging code memory for its tables.              *)
(*                                                                         *)
(* Addresses are page numbers.  A range is mapped one page per step.       *)
(***************************************************************************)
EXTENDS Integers, FiniteSets

CONSTANTS
    NumFrames,       \* blocks in the bitmap
    NumTables,       \* entries of the directory
    PagesPerTable,
    KernelBase,      \* the page of __start_of_kernel_space
    ImagePages,      \* kernel image, bitmap and directory: up to placement_address
    HeapStart,       \* the page of __kernel_heap_start
    HeapFirst,       \* the first page behind the index of holes
    HeapInitialEnd, HeapMaxEnd,
    HeapMinSize,     \* HEAP_MIN_SIZE in pages
    LowEnd,          \* the page of __lowmem_end; the range starts at page 1
    BiosFirst, BiosLast   \* the pages of the bios32 helper

Frames == 0 .. NumFrames - 1
Pages == 0 .. NumTables * PagesPerTable - 1
Tables == 0 .. NumTables - 1
TableOf(p) == p \div PagesPerTable
KernelLast == KernelBase + ImagePages + 1
None == -1

(* The layout of linker.ld.  The kernel lies in one table, the initial heap *)
(* in another; low memory lies under the image and under HEAP_MIN_SIZE.    *)
ASSUME PagingAssumption ==
    /\ \A n \in {NumFrames, NumTables, PagesPerTable, KernelBase, ImagePages, HeapStart,
                 HeapFirst, HeapInitialEnd, HeapMaxEnd, HeapMinSize, LowEnd, BiosFirst, BiosLast} :
           n \in Nat
    /\ \A p \in Pages : TableOf(p) \in Tables
    /\ KernelLast < HeapStart /\ HeapStart < HeapFirst /\ HeapFirst < HeapInitialEnd
    /\ HeapInitialEnd <= HeapMaxEnd /\ HeapMaxEnd \in Pages
    /\ HeapFirst + HeapMinSize <= HeapInitialEnd
    /\ HeapMaxEnd - HeapFirst <= KernelBase
    /\ LowEnd < KernelBase /\ BiosLast < KernelBase /\ BiosFirst > 0
    /\ LowEnd <= HeapMinSize /\ BiosLast <= HeapMinSize
    /\ LowEnd <= ImagePages /\ BiosLast <= ImagePages
    /\ \A p \in KernelBase .. KernelLast : TableOf(p) = TableOf(KernelBase)
    /\ \A p \in HeapStart .. HeapInitialEnd : TableOf(p) = TableOf(HeapStart)

VARIABLES
    stage,      \* what is being mapped, or "idle", "failed", "lost", "fault"
    page, last, \* the range: its next page and its last one
    table,      \* ref_tables: the page that holds each page table
    entry,      \* tables: the frame the directory names
    pte,        \* the frame of each page that is present
    bits, used, \* the bitmap and block_used
    enabled,    \* is_enabled
    placement,  \* placement_address of the bootstrap heap
    heapEnd     \* end_address; HeapStart until the heap is initialised

range == <<stage, page, last>>
frames == <<bits, used>>
vars == <<range, table, entry, pte, frames, enabled, placement, heapEnd>>

LowPages == 1 .. LowEnd \union BiosFirst .. BiosLast
Mapped == {p \in Pages : pte[p] # None}
Used == {p \in Mapped : p >= KernelBase}
Mapping == {"kernel", "heap", "lowmem", "bios32", "expand"}
HeapReady == stage \in {"lowmem", "bios32", "expand", "idle"}

-----------------------------------------------------------------------------
(* A definition with a suffix _Bug... is a faulty variant of the one it    *)
(* precedes; no specification uses it.                                     *)

(* placement_address + PAGE_SIZE, evaluated before the first table exists. *)
BootLast_BugShort == KernelBase + ImagePages
BootLast == KernelLast

Init ==
    /\ stage = "kernel" /\ page = KernelBase /\ last = BootLast
    /\ table = [i \in Tables |-> None] /\ entry = [i \in Tables |-> None]
    /\ pte = [p \in Pages |-> None]
    /\ bits = {} /\ used = 0
    /\ enabled = FALSE
    /\ placement = KernelBase + ImagePages
    /\ heapEnd = HeapStart

(* virtual_2_physical; 0 for what is not mapped *)
Translate_BugLinear(p) == p - KernelBase
Translate(p) ==
    IF ~enabled THEN p - KernelBase ELSE IF pte[p] = None THEN 0 ELSE pte[p]

(* Where heap_manager_malloc may put a page table.  In the heap an aligned *)
(* block has its header in the page before and its footer in the one behind. *)
TablePlaces ==
    IF HeapReady
    THEN {t \in HeapFirst + 1 .. heapEnd - 2 :
             \A i \in Tables : table[i] = None \/ table[i] \notin t - 1 .. t + 1}
    ELSE {placement}

(* A block of the bitmap; the search starts at 0 and takes the first. *)
FirstFree_BugOne(f) == f \in Frames \ bits /\ f > 0 /\ \A g \in 1 .. f - 1 : g \in bits
FirstFree(f) == f \in Frames \ bits /\ \A g \in 0 .. f - 1 : g \in bits

-----------------------------------------------------------------------------
(* The first half of allocate_page: the table. *)
MakeTable ==
    /\ stage \in Mapping /\ page <= last
    /\ table[TableOf(page)] = None
    /\ \E t \in TablePlaces :
          /\ IF enabled /\ pte[t] = None      \* memset faults
             THEN stage' = "fault" ELSE UNCHANGED stage
          /\ table' = [table EXCEPT ![TableOf(page)] = t]
          /\ entry' = [entry EXCEPT ![TableOf(page)] = Translate(t)]
    /\ placement' = IF HeapReady THEN placement ELSE placement + 1
    /\ UNCHANGED <<page, last, pte, frames, enabled, heapEnd>>

(* No hole takes the table.  The heap then expands from inside expand and  *)
(* comes back to the same page, again and again; or, at its end, malloc    *)
(* returns NULL.  After boot, whether there is a hole is up to the clients. *)
NoHole ==
    /\ stage = "expand" /\ page <= last
    /\ table[TableOf(page)] = None
    /\ stage' = "lost"
    /\ UNCHANGED <<page, last, table, entry, pte, frames, enabled, placement, heapEnd>>

(* The second half: the page.  A page that is present is left as it is.    *)
(* Frame number 0 stands for "any frame": low memory begins at page 1.     *)
Present_BugNever == FALSE
Present == pte[page] # None

Identity == stage \in {"lowmem", "bios32"}

MapPage ==
    /\ stage \in Mapping /\ page <= last
    /\ table[TableOf(page)] # None
    /\ \/ Present /\ UNCHANGED <<pte, frames>>
       \/ /\ ~Present /\ Identity
          /\ pte' = [pte EXCEPT ![page] = page]
          /\ UNCHANGED frames
       \/ /\ ~Present /\ ~Identity
          /\ \E f \in Frames :
                /\ FirstFree(f)
                /\ pte' = [pte EXCEPT ![page] = f]
                /\ bits' = bits \union {f} /\ used' = used + 1
    /\ page' = page + 1
    /\ UNCHANGED <<stage, last, table, entry, enabled, placement, heapEnd>>

(* No frame: failed is set and the kernel halts, no handler being installed. *)
OutOfFrames ==
    /\ stage \in Mapping /\ page <= last
    /\ table[TableOf(page)] # None /\ ~Present /\ ~Identity
    /\ Frames \subseteq bits
    /\ stage' = "failed"
    /\ UNCHANGED <<page, last, table, entry, pte, frames, enabled, placement, heapEnd>>

-----------------------------------------------------------------------------
StartRange(s, first, end) == stage' = s /\ page' = first /\ last' = end
Done(s) == stage = s /\ page > last

(* kernel_main: paging_manager_set_system_paging and _enable *)
Enable ==
    /\ Done("kernel")
    /\ enabled' = TRUE
    /\ StartRange("heap", HeapStart, HeapInitialEnd)
    /\ UNCHANGED <<table, entry, pte, frames, placement, heapEnd>>

(* heap_manager_init returns. *)
HeapInitialised ==
    /\ Done("heap")
    /\ heapEnd' = HeapInitialEnd
    /\ StartRange("lowmem", 1, LowEnd)
    /\ UNCHANGED <<table, entry, pte, frames, enabled, placement>>

Bios32Init ==
    /\ Done("lowmem")
    /\ StartRange("bios32", BiosFirst, BiosLast)
    /\ UNCHANGED <<table, entry, pte, frames, enabled, placement, heapEnd>>

BootDone ==
    /\ Done("bios32")
    /\ stage' = "idle"
    /\ UNCHANGED <<page, last, table, entry, pte, frames, enabled, placement, heapEnd>>

(* expand: the end of the heap moves when its pages are there. *)
Expand_BugEarly(n) ==
    /\ stage = "idle"
    /\ heapEnd + n <= HeapMaxEnd
    /\ StartRange("expand", heapEnd, heapEnd + n)
    /\ heapEnd' = heapEnd + n
    /\ UNCHANGED <<table, entry, pte, frames, enabled, placement>>

Expand(n) ==
    /\ stage = "idle"
    /\ heapEnd + n <= HeapMaxEnd
    /\ StartRange("expand", heapEnd, heapEnd + n)
    /\ UNCHANGED <<table, entry, pte, frames, enabled, placement, heapEnd>>

Expanded ==
    /\ Done("expand")
    /\ stage' = "idle" /\ heapEnd' = last
    /\ UNCHANGED <<page, last, table, entry, pte, frames, enabled, placement>>

(* free_page, which also gives the frame back, for a set of pages *)
FreePages(ps) ==
    LET gone == ps \intersect Mapped
    IN  /\ pte' = [p \in Pages |-> IF p \in gone THEN None ELSE pte[p]]
        /\ bits' = bits \ {pte[p] : p \in gone}
        /\ used' = used - Cardinality(gone)

(* contract, to a heap of n pages whose rest is a hole.  The loop passes   *)
(* the distance from the start of the heap where an address is expected.   *)
Contract(n) ==
    /\ stage = "idle"
    /\ n >= HeapMinSize /\ HeapFirst + n < heapEnd
    /\ \A i \in Tables : table[i] # None => table[i] + 1 < HeapFirst + n
    /\ FreePages(n + 1 .. heapEnd - HeapFirst - 1)
    /\ heapEnd' = HeapFirst + n
    /\ UNCHANGED <<range, table, entry, enabled, placement>>

-----------------------------------------------------------------------------
Boot == Enable \/ HeapInitialised \/ Bios32Init \/ BootDone
AllocatePage == MakeTable \/ NoHole \/ MapPage \/ OutOfFrames

Next ==
    \/ AllocatePage \/ Boot \/ Expanded
    \/ \E n \in 1 .. HeapMaxEnd : Expand(n) \/ Contract(n)

Spec == Init /\ [][Next]_vars

-----------------------------------------------------------------------------
(* Properties. *)

(* Two pages share a frame only if one is the identity-mapped view of low  *)
(* memory and the other the kernel's page for the same memory: no frame of *)
(* the heap backs anything else, although the identity ranges are not      *)
(* recorded in the bitmap (allocate_page, first fit, the order of boot).   *)
FrameOnce ==
    \A p, q \in Mapped : p < q /\ pte[p] = pte[q] =>
        p \in LowPages /\ q = p + KernelBase

(* The bitmap and block_used agree with the page tables: no frame is lost, *)
(* none is free that is mapped (allocate_block, free_block).               *)
BitmapAgrees == bits = {pte[p] : p \in Used} /\ used = Cardinality(bits)

(* With paging on, every directory entry names the frame in which its      *)
(* table really lies, also for tables made before (virtual_2_physical).    *)
DirectoryTrue ==
    enabled /\ stage # "fault" =>
        \A i \in Tables : table[i] # None => pte[table[i]] = entry[i]

(* The memory for a table is mapped when it is cleared: boot maps the one  *)
(* page of the bootstrap heap that the table of the heap will need, and    *)
(* expand moves the end of the heap last.                                  *)
NoFault == stage # "fault"

(* The heap's pages are present, also while it grows and after it shrank.  *)
HeapMapped == \A p \in HeapStart .. heapEnd - 1 : pte[p] # None

(* Low memory, once mapped, stays mapped to itself: the pages contract     *)
(* frees by mistake are never those of the BIOS code.                      *)
LowStays == stage \in {"idle", "expand"} => \A p \in LowPages : pte[p] = p

(* No page the kernel goes on using is lost when the heap grows, shrinks   *)
(* or frees the wrong pages.                                               *)
PagesStay == HeapMapped /\ LowStays
=============================================================================
